--------------------------- MODULE FineProjection ---------------------------
(***************************************************************************)
(* MsFEMProjection::project: the walk of several threads over the fine     *)
(* grid that evaluates the LocalsolutionProxy in the nodes of every fine   *)
(* cell and writes the values into the fine vector.                        *)
(*                                                                         *)
(* The proxy stands for one correction per coarse cell; which of them it   *)
(* evaluates is not an argument but the current cell of the calling        *)
(* thread's own LocalGridSearch.  A search is one step here (CellSearch,   *)
(* which LocalGridSearch implements); other threads' searches and writes   *)
(* come between a thread's search and its evaluations.  A fine node on the *)
(* border of fine cells is written once per cell, the last write stays;    *)
(* postprocess then divides every dof by the number of cells at its node.  *)
(*                                                                         *)
(* The value of dof n is kept as (target[n] # NoCell) / divisor[n] for the *)
(* constant function 1, target[n] being the coarse cell whose correction   *)
(* was evaluated last.                                                     *)
(***************************************************************************)
EXTENDS CoarseRound, Sequences, FiniteSets

CONSTANTS
  Threads,
  FineCells,   \* the interior fine cells
  Nodes,       \* the nodes of the fine grid, one dof each
  NodesOf,     \* [FineCells -> Seq(Nodes)]: the nodes of a fine cell
  CoarseOf     \* [FineCells -> CoarseCells]: the coarse cell it lies in

NodeSet(f) == { NodesOf[f][i] : i \in DOMAIN NodesOf[f] }

ASSUME NodesAssumption ==
  /\ NodesOf \in [FineCells -> Seq(Nodes)]
  /\ Nodes = UNION { NodeSet(f) : f \in FineCells }
ASSUME CoarseAssumption == CoarseOf \in [FineCells -> CoarseCells]
ASSUME SomethingToProject == FineCells # {} /\ IsFiniteSet(FineCells)

VARIABLES
  stage,     \* "walk", then "done"
  todo,      \* fine cells not taken yet
  pc,        \* where a thread is in its visit of a fine cell
  fine,      \* the fine cell it visits
  k,         \* the dof of the cell it writes next
  at,        \* its search: where the next call begins
  current,   \* its search: the current coarse cell
  target,    \* per dof, the coarse cell whose correction was written last
  divisor    \* per dof, what postprocess divided it by

vars == <<stage, todo, pc, fine, k, at, current, target, divisor>>

Idle == \A t \in Threads : pc[t] = "idle"

\* The number of cells at a node, counted by identifySharedNodes.
SharedBy(n) == Cardinality({ f \in FineCells : n \in NodeSet(f) })

\* preprocess has zeroed the vector; every thread has a search of its own.
Init ==
  /\ stage = "walk"
  /\ todo = FineCells
  /\ pc = [t \in Threads |-> "idle"]
  /\ fine = [t \in Threads |-> CHOOSE f \in FineCells : TRUE]   \* of no visit yet
  /\ k = [t \in Threads |-> 1]
  /\ at = [t \in Threads |-> 1]
  /\ current = [t \in Threads |-> NoCell]
  /\ target = [n \in Nodes |-> NoCell]
  /\ divisor = [n \in Nodes |-> 1]

Visit(t, f) ==
  /\ stage = "walk"
  /\ pc[t] = "idle"
  /\ f \in todo
  /\ todo' = todo \ {f}
  /\ fine' = [fine EXCEPT ![t] = f]
  /\ pc' = [pc EXCEPT ![t] = "search"]
  /\ UNCHANGED <<stage, k, at, current, target, divisor>>

\* Wrong: one search object for all threads.
FoundByAll(t, c) ==
  /\ current' = [u \in Threads |-> c]
  /\ at' = [u \in Threads |-> Following(c)]

\* A search remembers the cell and goes on behind it.
Found(t, c) ==
  /\ current' = [current EXCEPT ![t] = c]
  /\ at' = [at EXCEPT ![t] = Following(c)]

\* source.search() is this thread's search; the fine cell's nodes all lie in
\* its coarse cell and in no other.
Search(t) ==
  /\ pc[t] = "search"
  /\ \E c \in CoarseCells :
       /\ FirstFrom(at[t], {CoarseOf[fine[t]]}, c)
       /\ Found(t, c)
  /\ k' = [k EXCEPT ![t] = 1]
  /\ pc' = [pc EXCEPT ![t] = "write"]
  /\ UNCHANGED <<stage, todo, fine, target, divisor>>

\* LocalsolutionProxy::local_function: the correction of the current cell.
LocalFunction(t) == current[t]

\* Wrong: the dof counter does not move; the last node is left out.
SameDof(t) == k[t]
AtLastNode(t) == k[t] >= Len(NodesOf[fine[t]])

NextDof(t) == k[t] + 1
PastLastNode(t) == k[t] > Len(NodesOf[fine[t]])

\* Evaluate in the next node of the cell and set the dof.
Write(t) ==
  /\ pc[t] = "write"
  /\ ~PastLastNode(t)
  /\ target' = [target EXCEPT ![NodesOf[fine[t]][k[t]]] = LocalFunction(t)]
  /\ k' = [k EXCEPT ![t] = NextDof(t)]
  /\ UNCHANGED <<stage, todo, pc, fine, at, current, divisor>>

Leave(t) ==
  /\ pc[t] = "write"
  /\ PastLastNode(t)
  /\ pc' = [pc EXCEPT ![t] = "idle"]
  /\ UNCHANGED <<stage, todo, fine, k, at, current, target, divisor>>

\* The walk is over; postprocess divides.
Postprocess ==
  /\ stage = "walk"
  /\ todo = {}
  /\ Idle
  /\ stage' = "done"
  /\ divisor' = [n \in Nodes |-> SharedBy(n)]
  /\ UNCHANGED <<todo, pc, fine, k, at, current, target>>

Next ==
  \/ \E t \in Threads, f \in FineCells : Visit(t, f)
  \/ \E t \in Threads : Search(t)
  \/ \E t \in Threads : Write(t)
  \/ \E t \in Threads : Leave(t)
  \/ Postprocess

Spec == Init /\ [][Next]_vars

---------------------------------------------------------------------------
TypeOK ==
  /\ stage \in {"walk", "done"}
  /\ todo \in SUBSET FineCells
  /\ pc \in [Threads -> {"idle", "search", "write"}]
  /\ fine \in [Threads -> FineCells]
  /\ k \in [Threads -> Nat \ {0}]
  /\ at \in [Threads -> CoarseCells]
  /\ current \in [Threads -> CoarseCells \cup {NoCell}]
  /\ target \in [Nodes -> CoarseCells \cup {NoCell}]
  /\ divisor \in [Nodes -> Nat \ {0}]

\* The coarse cells a node belongs to.
CoarseAt(n) == { CoarseOf[f] : f \in { g \in FineCells : n \in NodeSet(g) } }

\* A thread always evaluates the correction of the coarse cell its fine cell
\* lies in, although the proxy chooses it by the state of a search and other
\* threads search meanwhile.
OwnCorrection ==
  \A t \in Threads : pc[t] = "write" => LocalFunction(t) = CoarseOf[fine[t]]

\* A finished projection has a value at every node, from a coarse cell the
\* node belongs to: away from the coarse cells' borders it does not depend on
\* the order of the threads.
EveryNodeFromItsCell ==
  stage = "done" => \A n \in Nodes : target[n] \in CoarseAt(n)

\* EXPECT_DOUBLE_EQ(norm, constant) in test/projection.cc: the projection of
\* corrections that are 1 everywhere is 1 everywhere.
ConstantReproduced ==
  stage = "done" => \A n \in Nodes : target[n] # NoCell /\ divisor[n] = 1
=============================================================================
