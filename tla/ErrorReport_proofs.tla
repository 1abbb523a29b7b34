------------------------- MODULE ErrorReport_proofs -------------------------
(***************************************************************************)
(* Proofs about ErrorReport: first about the projection it calls           *)
(* (FineProjection), for any threads, any fine grid and any assignment of  *)
(* its cells to coarse cells; then about the calculator around it, for     *)
(* every setting and every failure.                                        *)
(*                                                                         *)
(* Two things are tied together in the projection.  Whose correction a     *)
(* thread evaluates depends on its search alone (Searched).  That no node  *)
(* is left out needs the bookkeeping of the walk: a fine cell that is not  *)
(* in todo any more is written or has a thread that is at it (NoneLost),   *)
(* and a thread in the middle of a cell has written the nodes before k     *)
(* (WrittenSoFar).                                                         *)
(*                                                                         *)
(* In the calculator the argument follows its statements (CalcInv): what   *)
(* is registered and looked up depends on settings and solutions that do   *)
(* not change between the two places, and the functions hold the solutions *)
(* before they are registered.                                             *)
(***************************************************************************)
EXTENDS ErrorReport, FiniteSetTheorems, TLAPS


Written(n) == target[n] # NoCell

Searched == OwnCorrection

\* What is written comes from a coarse cell the node belongs to.
FromItsCell == \A n \in Nodes : Written(n) => target[n] \in CoarseAt(n)

WrittenSoFar ==
  \A t \in Threads : pc[t] = "write" =>
    \A i \in DOMAIN NodesOf[fine[t]] : i < k[t] => Written(NodesOf[fine[t]][i])

At(t, f) == pc[t] # "idle" /\ fine[t] = f
AllWritten(f) == \A i \in DOMAIN NodesOf[f] : Written(NodesOf[f][i])
NoneLost == \A f \in FineCells \ todo : AllWritten(f) \/ \E t \in Threads : At(t, f)

WalkOver == stage = "done" => todo = {} /\ Idle

IInv ==
  /\ TypeOK
  /\ Searched
  /\ FromItsCell
  /\ WrittenSoFar
  /\ NoneLost
  /\ WalkOver

---------------------------------------------------------------------------
\* Every node belongs to a fine cell, and the coarse cells of a node are coarse
\* cells: NoCell is not among them.
LEMMA NodesBelong ==
  /\ \A f \in FineCells : \A i \in DOMAIN NodesOf[f] :
       NodesOf[f][i] \in Nodes /\ CoarseOf[f] \in CoarseAt(NodesOf[f][i])
  /\ \A n \in Nodes : \E f \in FineCells : \E i \in DOMAIN NodesOf[f] : NodesOf[f][i] = n
  /\ \A f \in FineCells : CoarseOf[f] \in CoarseCells /\ CoarseOf[f] # NoCell
  /\ \A f \in FineCells : Len(NodesOf[f]) \in Nat /\ DOMAIN NodesOf[f] = 1 .. Len(NodesOf[f])
<1>1. \A f \in FineCells : \A i \in DOMAIN NodesOf[f] : NodesOf[f][i] \in NodeSet(f)
  BY DEF NodeSet
<1>2. \A f \in FineCells : NodeSet(f) \subseteq Nodes
  BY NodesAssumption
<1>3. \A f \in FineCells : \A n \in NodeSet(f) : CoarseOf[f] \in CoarseAt(n)
  BY DEF CoarseAt
<1>4. \A n \in Nodes : \E f \in FineCells : n \in NodeSet(f)
  BY NodesAssumption
<1>5. \A f \in FineCells : CoarseOf[f] \in CoarseCells /\ CoarseOf[f] # NoCell
  BY CoarseAssumption, NAssumption DEF CoarseCells, NoCell
<1>6. \A f \in FineCells : NodesOf[f] \in Seq(Nodes)
  BY NodesAssumption
<1>7. \A f \in FineCells : Len(NodesOf[f]) \in Nat /\ DOMAIN NodesOf[f] = 1 .. Len(NodesOf[f])
  BY <1>6
<1>8. QED
  BY <1>1, <1>2, <1>3, <1>4, <1>5, <1>7 DEF NodeSet

\* The counts of postprocess are positive: a shared node has cells.
LEMMA SharesPositive ==
  ASSUME NEW n \in Nodes PROVE SharedBy(n) \in Nat \ {0}
<1> DEFINE S == { f \in FineCells : n \in NodeSet(f) }
<1>1. IsFiniteSet(S)
  BY SomethingToProject, FS_Subset
<1>2. S # {}
  BY NodesAssumption
<1>3. QED
  BY <1>1, <1>2, FS_CardinalityType, FS_EmptySet DEF SharedBy

---------------------------------------------------------------------------
\* Nothing is written before the walk.
LEMMA InitProjection == Init => IInv
<1> SUFFICES ASSUME Init PROVE IInv
  OBVIOUS
<1> DEFINE some == CHOOSE f \in FineCells : TRUE
<1>1. some \in FineCells
  BY SomethingToProject
<1> HIDE DEF some
<1>2. fine = [t \in Threads |-> some]
  BY DEF Init, some
<1>3. TypeOK
  BY <1>1, <1>2, NAssumption DEF Init, TypeOK, CoarseCells, NoCell
<1>4. pc = [t \in Threads |-> "idle"] /\ target = [n \in Nodes |-> NoCell] /\ todo = FineCells /\ stage = "walk"
  BY DEF Init
<1>5. QED
  BY <1>3, <1>4 DEF IInv, Searched, OwnCorrection, FromItsCell, Written, WrittenSoFar, NoneLost, WalkOver

\* A thread takes a fine cell, and is at it from then on.
LEMMA VisitStep == ASSUME IInv, NEW t \in Threads, NEW f \in FineCells, Visit(t, f) PROVE IInv'
<1> USE DEF IInv
<1>0. /\ pc' = [pc EXCEPT ![t] = "search"] /\ fine' = [fine EXCEPT ![t] = f] /\ todo' = todo \ {f}
      /\ f \in todo /\ pc[t] = "idle" /\ stage = "walk"
      /\ UNCHANGED <<stage, k, at, current, target, divisor>>
  BY DEF Visit
<1>1. TypeOK'
  BY <1>0 DEF TypeOK
<1>2. Searched'
  BY <1>0 DEF TypeOK, Searched, OwnCorrection, LocalFunction
<1>3. FromItsCell'
  BY <1>0 DEF FromItsCell, Written
<1>4. WrittenSoFar'
  BY <1>0 DEF TypeOK, WrittenSoFar, Written
<1>5. NoneLost'
  <2> SUFFICES ASSUME NEW g \in FineCells \ todo' PROVE (AllWritten(g) \/ \E u \in Threads : At(u, g))'
    BY DEF NoneLost
  <2>1. CASE g = f
    BY <1>0, <2>1 DEF TypeOK, At
  <2>2. CASE g # f
    <3>1. CASE AllWritten(g)
      BY <1>0, <3>1 DEF AllWritten, Written
    <3>2. CASE \E u \in Threads : At(u, g)
      BY <1>0, <3>2 DEF TypeOK, At
    <3>3. QED
      BY <1>0, <2>2, <3>1, <3>2 DEF NoneLost
  <2>3. QED
    BY <2>1, <2>2
<1>6. WalkOver'
  BY <1>0 DEF WalkOver
<1>7. QED
  BY <1>1, <1>2, <1>3, <1>4, <1>5, <1>6

\* The search of a thread finds the coarse cell of its fine cell, and no other
\* thread's search is touched.
LEMMA SearchStep == ASSUME IInv, NEW t \in Threads, Search(t) PROVE IInv'
<1> USE DEF IInv
<1>1. PICK c \in CoarseCells : FirstFrom(at[t], {CoarseOf[fine[t]]}, c) /\ Found(t, c)
  BY DEF Search
<1>2. c = CoarseOf[fine[t]]
  BY <1>1 DEF FirstFrom
<1>3. /\ pc' = [pc EXCEPT ![t] = "write"] /\ k' = [k EXCEPT ![t] = 1] /\ pc[t] = "search"
      /\ current' = [current EXCEPT ![t] = c] /\ at' = [at EXCEPT ![t] = Following(c)]
      /\ UNCHANGED <<stage, todo, fine, target, divisor>>
  BY <1>1 DEF Search, Found
<1>4. Following(c) \in CoarseCells
  BY NAssumption DEF Following, CoarseCells
<1>5. TypeOK'
  BY <1>3, <1>4 DEF TypeOK
<1>6. Searched'
  BY <1>2, <1>3 DEF TypeOK, Searched, OwnCorrection, LocalFunction
<1>7. FromItsCell'
  BY <1>3 DEF FromItsCell, Written
<1>8. WrittenSoFar'
  <2> SUFFICES ASSUME NEW u \in Threads, pc'[u] = "write", NEW i \in DOMAIN NodesOf[fine[u]], i < k'[u]
               PROVE Written(NodesOf[fine[u]][i])
    BY <1>3 DEF WrittenSoFar, Written
  <2>1. CASE u = t
    <3>1. fine[u] \in FineCells /\ k'[u] = 1
      BY <1>3, <2>1 DEF TypeOK
    <3>2. i \in 1 .. Len(NodesOf[fine[u]]) /\ Len(NodesOf[fine[u]]) \in Nat
      BY <3>1, NodesBelong
    <3>3. QED
      BY <3>1, <3>2
  <2>2. CASE u # t
    BY <1>3, <2>2 DEF TypeOK, WrittenSoFar
  <2>3. QED
    BY <2>1, <2>2
<1>9. NoneLost'
  BY <1>3 DEF TypeOK, NoneLost, AllWritten, Written, At
<1>10. WalkOver'
  BY <1>3 DEF TypeOK, WalkOver, Idle
<1>11. QED
  BY <1>5, <1>6, <1>7, <1>8, <1>9, <1>10

\* A write puts the correction of the cell's own coarse cell into one node.
LEMMA WriteStep == ASSUME IInv, NEW t \in Threads, Write(t) PROVE IInv'
<1> USE DEF IInv
<1> DEFINE f == fine[t]
           node == NodesOf[f][k[t]]
<1>1. /\ pc[t] = "write" /\ ~(k[t] > Len(NodesOf[f])) /\ target' = [target EXCEPT ![node] = current[t]]
      /\ k' = [k EXCEPT ![t] = k[t] + 1] /\ UNCHANGED <<stage, todo, pc, fine, at, current, divisor>>
  BY DEF Write, PastLastNode, NextDof, LocalFunction
<1>2. f \in FineCells /\ k[t] \in Nat \ {0} /\ k[t] \in DOMAIN NodesOf[f]
  BY <1>1, NodesBelong DEF TypeOK
<1>3. node \in Nodes /\ current[t] = CoarseOf[f] /\ current[t] \in CoarseAt(node) /\ current[t] \in CoarseCells /\ current[t] # NoCell
  BY <1>1, <1>2, NodesBelong DEF Searched, OwnCorrection, LocalFunction
<1> HIDE DEF node
<1>4. target'[node] = current[t] /\ \A n \in Nodes \ {node} : target'[n] = target[n]
  BY <1>1, <1>3 DEF TypeOK
<1>5. \A n \in Nodes : Written(n) => Written(n)'
  BY <1>3, <1>4 DEF Written
<1>6. TypeOK'
  BY <1>1, <1>3 DEF TypeOK
<1>7. Searched'
  BY <1>1 DEF Searched, OwnCorrection, LocalFunction
<1>8. FromItsCell'
  <2> SUFFICES ASSUME NEW n \in Nodes, Written(n)' PROVE target'[n] \in CoarseAt(n)
    BY DEF FromItsCell
  <2>1. CASE n = node
    BY <1>3, <1>4, <2>1
  <2>2. CASE n # node
    BY <1>4, <2>2 DEF FromItsCell, Written
  <2>3. QED
    BY <2>1, <2>2
<1>9. WrittenSoFar'
  <2> SUFFICES ASSUME NEW u \in Threads, pc[u] = "write", NEW i \in DOMAIN NodesOf[fine[u]], i < k'[u]
               PROVE target'[NodesOf[fine[u]][i]] # NoCell
    BY <1>1 DEF WrittenSoFar, Written
  <2>1. fine[u] \in FineCells /\ NodesOf[fine[u]][i] \in Nodes /\ i \in Nat
    <3>1. fine[u] \in FineCells
      BY DEF TypeOK
    <3>2. QED
      BY <3>1, NodesBelong
  <2>2. CASE i < k[u]
    BY <1>5, <2>1, <2>2 DEF WrittenSoFar, Written
  <2>3. CASE ~(i < k[u])
    <3>1. u = t /\ i = k[t]
      BY <1>1, <1>2, <2>1, <2>3 DEF TypeOK
    <3>2. NodesOf[fine[u]][i] = node
      BY <3>1 DEF node
    <3>3. QED
      BY <1>3, <1>4, <3>2
  <2>4. QED
    BY <2>2, <2>3
<1>10. NoneLost'
  <2>1. \A g \in FineCells : AllWritten(g) => AllWritten(g)'
    BY <1>5, NodesBelong DEF AllWritten
  <2>2. \A g \in FineCells, u \in Threads : At(u, g) => At(u, g)'
    BY <1>1 DEF At
  <2>3. todo' = todo
    BY <1>1
  <2>4. QED
    BY <2>1, <2>2, <2>3 DEF NoneLost
<1>11. WalkOver'
  BY <1>1 DEF WalkOver, Idle
<1>12. QED
  BY <1>6, <1>7, <1>8, <1>9, <1>10, <1>11

\* A thread leaves its fine cell when all of its nodes are written.
LEMMA LeaveStep == ASSUME IInv, NEW t \in Threads, Leave(t) PROVE IInv'
<1> USE DEF IInv
<1>1. /\ pc[t] = "write" /\ k[t] > Len(NodesOf[fine[t]]) /\ pc' = [pc EXCEPT ![t] = "idle"]
      /\ UNCHANGED <<stage, todo, fine, k, at, current, target, divisor>>
  BY DEF Leave, PastLastNode
<1>2. TypeOK'
  BY <1>1 DEF TypeOK
<1>3. Searched'
  BY <1>1 DEF TypeOK, Searched, OwnCorrection, LocalFunction
<1>4. FromItsCell'
  BY <1>1 DEF FromItsCell, Written
<1>5. WrittenSoFar'
  BY <1>1 DEF TypeOK, WrittenSoFar, Written
<1>6. NoneLost'
  <2>1. AllWritten(fine[t])
    <3> SUFFICES ASSUME NEW i \in DOMAIN NodesOf[fine[t]] PROVE Written(NodesOf[fine[t]][i])
      BY DEF AllWritten
    <3>1. fine[t] \in FineCells /\ k[t] \in Nat
      BY DEF TypeOK
    <3>2. i < k[t]
      BY <1>1, <3>1, NodesBelong
    <3>3. QED
      BY <1>1, <3>2 DEF WrittenSoFar
  <2> SUFFICES ASSUME NEW g \in FineCells \ todo PROVE AllWritten(g) \/ \E u \in Threads : At(u, g)'
    BY <1>1 DEF NoneLost, AllWritten, Written
  <2>2. CASE AllWritten(g)
    BY <2>2
  <2>3. CASE \E u \in Threads : At(u, g) /\ u # t
    BY <1>1, <2>3 DEF TypeOK, At
  <2>4. CASE At(t, g)
    BY <2>1, <2>4 DEF At
  <2>5. QED
    BY <2>2, <2>3, <2>4 DEF NoneLost
<1>7. WalkOver'
  BY <1>1 DEF TypeOK, WalkOver, Idle
<1>8. QED
  BY <1>2, <1>3, <1>4, <1>5, <1>6, <1>7

\* The division comes after the last visit.
LEMMA PostprocessStep == ASSUME IInv, Postprocess PROVE IInv'
<1> USE DEF IInv
<1>1. /\ todo = {} /\ Idle /\ stage' = "done" /\ divisor' = [n \in Nodes |-> SharedBy(n)]
      /\ UNCHANGED <<todo, pc, fine, k, at, current, target>>
  BY DEF Postprocess
<1>2. TypeOK'
  BY <1>1, SharesPositive DEF TypeOK
<1>3. WalkOver'
  BY <1>1 DEF WalkOver, Idle
<1>4. Searched' /\ FromItsCell' /\ WrittenSoFar'
  BY <1>1 DEF Searched, OwnCorrection, LocalFunction, FromItsCell, WrittenSoFar, Written
<1>5. NoneLost'
  BY <1>1 DEF NoneLost, AllWritten, Written, At
<1>6. QED
  BY <1>2, <1>3, <1>4, <1>5

---------------------------------------------------------------------------
\* The invariant holds in every state.
THEOREM ProjectionInvariant == Spec => []IInv
<1>1. Init => IInv
  BY InitProjection
<1>2. IInv /\ [Next]_vars => IInv'
  <2> SUFFICES ASSUME IInv, [Next]_vars PROVE IInv'
    OBVIOUS
  <2>1. CASE UNCHANGED vars
    BY <2>1 DEF vars, IInv, TypeOK, Searched, OwnCorrection, LocalFunction, FromItsCell, WrittenSoFar,
       Written, NoneLost, AllWritten, At, WalkOver, Idle
  <2>2. CASE Next
    BY <2>2, VisitStep, SearchStep, WriteStep, LeaveStep, PostprocessStep DEF Next
  <2>3. QED
    BY <2>1, <2>2
<1>3. QED
  BY <1>1, <1>2, PTL DEF Spec

\* Every variable of the projection keeps its type.
THEOREM TypeCorrect == Spec => []TypeOK
<1>1. IInv => TypeOK
  BY DEF IInv
<1>2. QED
  BY <1>1, ProjectionInvariant, PTL

\* A thread evaluates the correction of the coarse cell its fine cell lies in,
\* whatever the other threads' searches do.
THEOREM EvaluatesOwnCorrection == Spec => []OwnCorrection
<1>1. IInv => OwnCorrection
  BY DEF IInv, Searched
<1>2. QED
  BY <1>1, ProjectionInvariant, PTL

\* A finished projection has given every node a value of a coarse cell the node
\* belongs to: no node is left out, and none is written from elsewhere.
THEOREM NodesFromTheirCells == Spec => []EveryNodeFromItsCell
<1>1. IInv => EveryNodeFromItsCell
  <2> SUFFICES ASSUME IInv, stage = "done", NEW n \in Nodes PROVE target[n] \in CoarseAt(n)
    BY DEF EveryNodeFromItsCell
  <2>1. PICK f \in FineCells : \E i \in DOMAIN NodesOf[f] : NodesOf[f][i] = n
    BY NodesBelong
  <2>2. todo = {} /\ \A t \in Threads : ~At(t, f)
    BY DEF IInv, WalkOver, Idle, At
  <2>3. AllWritten(f)
    BY <2>2 DEF IInv, NoneLost
  <2>4. Written(n)
    BY <2>1, <2>3 DEF AllWritten
  <2>5. QED
    BY <2>4 DEF IInv, FromItsCell
<1>2. QED
  BY <1>1, ProjectionInvariant, PTL

---------------------------------------------------------------------------
(* The calculator                                                          *)

Steps == {"construct", "coarse", "project", "register", "discrete", "report", "write", "done", "thrown"}
BehindProjection == {"register", "discrete", "report", "write", "done"}

CalcType ==
  /\ exact \in BOOLEAN /\ vtk \in BOOLEAN /\ comparison \in BOOLEAN
  /\ msfem \in BOOLEAN /\ fem \in BOOLEAN
  /\ solved \subseteq {"fem", "coarse_fem"}
  /\ content \in [{"coarse_fem", "msfem"} -> {"zero", "coarse_fem", "msfem"}]
  /\ step \in Steps

\* A solution that is there was solved for, and the functions on the fine grid
\* hold theirs when it is their turn.
SolutionsHeld ==
  /\ fem => "fem" \in solved
  /\ step \in {"construct", "coarse"} => "coarse_fem" \notin solved
  /\ "coarse_fem" \in solved => content["coarse_fem"] = "coarse_fem"
  /\ step \in BehindProjection /\ msfem => content["msfem"] = "msfem"

Differences == Calc!AnalyticalErrors \cup Calc!DiscreteErrors
Values == [e \in Calc!LookedUp |-> [i \in {1, 2} |-> Calc!Holds(Calc!Pair[e][i])]]

ResultsSoFar ==
  /\ step = "discrete" => registered = [e \in Calc!AnalyticalErrors |-> Calc!Pair[e]]
  /\ step \in {"report", "write", "done"} => registered = [e \in Differences |-> Calc!Pair[e]]
  /\ step \in {"write", "done"} => csv = Values
  /\ step = "done" => written = IF vtk THEN DOMAIN registered ELSE {}

\* The errors come behind the whole walk.
Projected == step \in BehindProjection /\ msfem => stage = "done"

CalcInv == CalcType /\ SolutionsHeld /\ ResultsSoFar

---------------------------------------------------------------------------
\* Exactly the differences that are registered are looked up, for every
\* setting and every set of solutions.
LEMMA LookedUpAreRegistered ==
  ASSUME CalcType PROVE Calc!LookedUp = Differences
<1>1. Calc!LookedUp \subseteq Differences
  BY DEF Calc!LookedUp, Differences, Calc!AnalyticalErrors, Calc!DiscreteErrors, Calc!Error
<1>2. Differences \subseteq Calc!LookedUp
  BY DEF Calc!LookedUp, Differences, Calc!AnalyticalErrors, Calc!DiscreteErrors, Calc!Error
<1>3. QED
  BY <1>1, <1>2

\* The calculator begins with nothing.
LEMMA InitCalc == Calc!Init => CalcInv
<1> SUFFICES ASSUME Calc!Init PROVE CalcInv
  OBVIOUS
<1>1. CalcType
  BY DEF Calc!Init, CalcType, Calc!FineFunction, Steps
<1>2. SolutionsHeld
  BY DEF Calc!Init, SolutionsHeld, BehindProjection
<1>3. ResultsSoFar
  BY DEF Calc!Init, ResultsSoFar
<1>4. QED
  BY <1>1, <1>2, <1>3 DEF CalcInv

\* The constructors fill in the solutions.
LEMMA GiveSteps ==
  ASSUME CalcInv, Calc!GiveFem \/ Calc!GiveMsfem PROVE CalcInv'
<1>1. step = "construct" /\ step' \in {"coarse", "thrown"} /\ UNCHANGED <<exact, vtk, comparison, content>>
  BY DEF Calc!GiveFem, Calc!GiveMsfem, Calc!settings
<1>2. msfem' \in BOOLEAN /\ fem' \in BOOLEAN /\ (fem' => "fem" \in solved')
  <2>1. CASE Calc!GiveFem
    <3>1. msfem' = msfem /\ ((fem' = TRUE /\ solved' = {"fem"}) \/ UNCHANGED <<fem, solved>>)
      BY <2>1 DEF Calc!GiveFem
    <3>2. msfem' \in BOOLEAN /\ fem' \in BOOLEAN
      BY <3>1 DEF CalcInv, CalcType
    <3>3. fem' => "fem" \in solved'
      BY <3>1 DEF CalcInv, SolutionsHeld
    <3>4. QED
      BY <3>2, <3>3
  <2>2. CASE Calc!GiveMsfem
    <3>1. /\ msfem' = TRUE
          /\ \/ fem' \in BOOLEAN /\ solved' = IF fem' THEN {"fem"} ELSE {}
             \/ UNCHANGED <<fem, solved>>
      BY <2>2 DEF Calc!GiveMsfem
    <3>2. msfem' \in BOOLEAN /\ fem' \in BOOLEAN
      BY <3>1 DEF CalcInv, CalcType
    <3>3. fem' => "fem" \in solved'
      BY <3>1 DEF CalcInv, SolutionsHeld
    <3>4. QED
      BY <3>2, <3>3
  <2>3. QED
    BY <2>1, <2>2
<1>3. solved' \in {solved, {}, {"fem"}}
  BY DEF Calc!GiveFem, Calc!GiveMsfem
<1>4. "coarse_fem" \notin solved' /\ solved' \subseteq {"fem", "coarse_fem"}
  BY <1>1, <1>3 DEF CalcInv, CalcType, SolutionsHeld
<1>5. CalcType'
  BY <1>1, <1>2, <1>4 DEF CalcInv, CalcType, Steps
<1>6. SolutionsHeld'
  BY <1>1, <1>2, <1>4 DEF SolutionsHeld, BehindProjection
<1>7. ResultsSoFar'
  BY <1>1 DEF ResultsSoFar
<1>8. QED
  BY <1>5, <1>6, <1>7 DEF CalcInv

\* The coarse solution arrives with its function on the fine grid, or not at
\* all; then the fine solution is forgotten.
LEMMA CoarseSteps ==
  ASSUME CalcInv, Calc!SolveCoarse \/ Calc!CoarseFails PROVE CalcInv'
<1>1. step = "coarse" /\ step' = "project" /\ UNCHANGED <<exact, vtk, comparison, msfem>> /\ (fem' = fem \/ fem' = FALSE)
  BY DEF Calc!SolveCoarse, Calc!CoarseFails, Calc!settings
<1>2. \/ UNCHANGED <<solved, content>>
      \/ solved' = solved \cup {"coarse_fem"} /\ content' = [content EXCEPT !["coarse_fem"] = "coarse_fem"]
  BY DEF Calc!SolveCoarse, Calc!CoarseFails
<1>3. solved' \subseteq {"fem", "coarse_fem"} /\ content' \in [{"coarse_fem", "msfem"} -> {"zero", "coarse_fem", "msfem"}]
  <2>1. solved \subseteq {"fem", "coarse_fem"} /\ content \in [{"coarse_fem", "msfem"} -> {"zero", "coarse_fem", "msfem"}]
    BY DEF CalcInv, CalcType
  <2>2. solved' \subseteq {"fem", "coarse_fem"}
    BY <1>2, <2>1
  <2>3. content' \in [{"coarse_fem", "msfem"} -> {"zero", "coarse_fem", "msfem"}]
    BY <1>2, <2>1
  <2>4. QED
    BY <2>2, <2>3
<1>4. "coarse_fem" \in solved' => content'["coarse_fem"] = "coarse_fem"
  BY <1>1, <1>2 DEF CalcInv, CalcType, SolutionsHeld
<1>5. fem' => "fem" \in solved'
  <2>1. solved \subseteq solved'
    BY <1>2
  <2>2. QED
    BY <1>1, <2>1 DEF CalcInv, SolutionsHeld
<1>6. CalcType'
  <2>1. fem' \in BOOLEAN
    BY <1>1 DEF CalcInv, CalcType
  <2>2. QED
    BY <1>1, <1>3, <2>1 DEF CalcInv, CalcType, Steps
<1>7. SolutionsHeld'
  BY <1>1, <1>4, <1>5 DEF SolutionsHeld, BehindProjection
<1>8. ResultsSoFar'
  BY <1>1 DEF ResultsSoFar
<1>9. QED
  BY <1>6, <1>7, <1>8 DEF CalcInv

\* An exception that is not caught leaves everything as it is.
LEMMA CoarseThrowsStep ==
  ASSUME CalcInv, Calc!CoarseThrows PROVE CalcInv'
<1>1. step = "coarse" /\ step' = "thrown" /\ UNCHANGED <<exact, vtk, comparison, msfem, fem, solved, content>>
  BY DEF Calc!CoarseThrows, Calc!settings
<1>2. CalcType'
  BY <1>1 DEF CalcInv, CalcType, Steps
<1>3. SolutionsHeld'
  BY <1>1 DEF CalcInv, SolutionsHeld, BehindProjection
<1>4. ResultsSoFar'
  BY <1>1 DEF ResultsSoFar
<1>5. QED
  BY <1>2, <1>3, <1>4 DEF CalcInv

\* The projection fills in the multiscale solution.
LEMMA ProjectSteps ==
  ASSUME CalcInv, Calc!Project \/ Calc!ProjectThrows PROVE CalcInv'
<1>1. step = "project" /\ step' \in {"register", "thrown"} /\ UNCHANGED <<exact, vtk, comparison, msfem, fem, solved>>
  BY DEF Calc!Project, Calc!ProjectThrows, Calc!settings
<1>2. content' \in {content, [content EXCEPT !["msfem"] = "msfem"]}
  BY DEF Calc!Project, Calc!ProjectThrows
<1>3. content' \in [{"coarse_fem", "msfem"} -> {"zero", "coarse_fem", "msfem"}] /\ content'["coarse_fem"] = content["coarse_fem"]
  BY <1>2 DEF CalcInv, CalcType
<1>4. CalcType'
  BY <1>1, <1>3 DEF CalcInv, CalcType, Steps
<1>5. step' = "register" /\ msfem => content'["msfem"] = "msfem"
  BY <1>1 DEF Calc!Project, Calc!ProjectThrows, CalcInv, CalcType
<1>6. SolutionsHeld'
  BY <1>1, <1>3, <1>5 DEF CalcInv, SolutionsHeld, BehindProjection
<1>7. ResultsSoFar'
  BY <1>1 DEF ResultsSoFar
<1>8. QED
  BY <1>4, <1>6, <1>7 DEF CalcInv

\* Registering, reporting and writing leave the settings and the solutions
\* alone, and with them what is registered, looked up and held.
LEMMA SolutionsKept ==
  ASSUME CalcInv, Calc!RegisterAnalytical \/ Calc!RegisterDiscrete \/ Calc!Report \/ Calc!Write \/ Calc!WriteThrows
  PROVE  /\ CalcType' /\ SolutionsHeld'
         /\ UNCHANGED <<exact, vtk, msfem, fem, content>>
         /\ UNCHANGED <<Calc!AnalyticalErrors, Differences, Values>>
<1>1. UNCHANGED <<exact, vtk, comparison, msfem, fem, solved, content>>
  BY DEF Calc!RegisterAnalytical, Calc!RegisterDiscrete, Calc!Report, Calc!Write, Calc!WriteThrows, Calc!settings
<1>2. step \in {"register", "discrete", "report", "write"} /\ step' \in {"discrete", "report", "write", "done", "thrown"}
  BY DEF Calc!RegisterAnalytical, Calc!RegisterDiscrete, Calc!Report, Calc!Write, Calc!WriteThrows
<1>3. CalcType'
  BY <1>1, <1>2 DEF CalcInv, CalcType, Steps
<1>4. SolutionsHeld'
  BY <1>1, <1>2 DEF CalcInv, SolutionsHeld, BehindProjection
<1>5. UNCHANGED Calc!AnalyticalErrors /\ UNCHANGED Calc!DiscreteErrors /\ UNCHANGED Calc!LookedUp
  BY <1>1 DEF Calc!AnalyticalErrors, Calc!DiscreteErrors, Calc!LookedUp
<1>6. UNCHANGED Differences
  BY <1>5 DEF Differences
<1>7. UNCHANGED Values
  BY <1>1, <1>5 DEF Values, Calc!Holds
<1>8. QED
  BY <1>1, <1>3, <1>4, <1>5, <1>6, <1>7

\* What each of these steps adds to the results.
LEMMA ResultSteps ==
  ASSUME CalcInv, Calc!RegisterAnalytical \/ Calc!RegisterDiscrete \/ Calc!Report \/ Calc!Write \/ Calc!WriteThrows
  PROVE  CalcInv'
<1> USE SolutionsKept
<1>1. ResultsSoFar'
  <2>1. CASE Calc!RegisterAnalytical
    <3>1. step' = "discrete" /\ registered' = [e \in Calc!AnalyticalErrors |-> Calc!Pair[e]]
      BY <2>1 DEF Calc!RegisterAnalytical, Calc!Between
    <3>2. Calc!AnalyticalErrors' = Calc!AnalyticalErrors
      BY <2>1
    <3>3. (step = "discrete" => registered = [e \in Calc!AnalyticalErrors |-> Calc!Pair[e]])'
      BY <3>1, <3>2 DEF Calc!Pair
    <3>4. QED
      BY <3>1, <3>3 DEF ResultsSoFar
  <2>2. CASE Calc!RegisterDiscrete
    <3>1. step = "discrete" /\ step' = "report"
      BY <2>2 DEF Calc!RegisterDiscrete
    <3>2. registered = [e \in Calc!AnalyticalErrors |-> Calc!Pair[e]]
      BY <3>1 DEF CalcInv, ResultsSoFar
    <3>3. registered' = [e \in (DOMAIN registered) \cup Calc!DiscreteErrors |->
                          IF e \in Calc!DiscreteErrors THEN Calc!Pair[e] ELSE registered[e]]
      BY <2>2 DEF Calc!RegisterDiscrete, Calc!Between
    <3>4. registered' = [e \in Differences |-> Calc!Pair[e]]
      BY <3>2, <3>3 DEF Differences
    <3>5. Differences' = Differences
      BY <2>2
    <3>6. (registered = [e \in Differences |-> Calc!Pair[e]])'
      BY <3>4, <3>5 DEF Calc!Pair
    <3>7. QED
      BY <3>1, <3>6 DEF ResultsSoFar
  <2>3. CASE Calc!Report
    <3>1. step = "report" /\ step' \in {"write", "thrown"} /\ registered' = registered
      BY <2>3 DEF Calc!Report
    <3>2. registered = [e \in Differences |-> Calc!Pair[e]]
      BY <3>1 DEF CalcInv, ResultsSoFar
    <3>3. (registered = [e \in Differences |-> Calc!Pair[e]])'
      BY <2>3, <3>1, <3>2 DEF Calc!Pair
    <3>4. ASSUME step' = "write" PROVE csv' = Values
      <4>1. csv' = [e \in Calc!LookedUp |-> [i \in {1, 2} |-> Calc!Holds(registered[e][i])]]
        BY <2>3, <3>4 DEF Calc!Report
      <4>2. Calc!LookedUp = Differences
        BY LookedUpAreRegistered DEF CalcInv
      <4>3. \A e \in Calc!LookedUp : registered[e] = Calc!Pair[e]
        BY <3>2, <4>2
      <4>4. QED
        BY <4>1, <4>3 DEF Values
    <3>5. Values' = Values
      BY <2>3
    <3>6. QED
      BY <3>1, <3>3, <3>4, <3>5 DEF ResultsSoFar
  <2>4. CASE Calc!Write \/ Calc!WriteThrows
    <3>1. step = "write" /\ step' \in {"done", "thrown"} /\ registered' = registered /\ csv' = csv
      BY <2>4 DEF Calc!Write, Calc!WriteThrows
    <3>2. registered = [e \in Differences |-> Calc!Pair[e]] /\ csv = Values
      BY <3>1 DEF CalcInv, ResultsSoFar
    <3>3. (registered = [e \in Differences |-> Calc!Pair[e]])'
      BY <2>4, <3>1, <3>2 DEF Calc!Pair
    <3>4. Values' = Values /\ vtk' = vtk
      BY <2>4
    <3>5. step' = "done" => written' = IF vtk THEN DOMAIN registered ELSE {}
      BY <2>4 DEF Calc!Write, Calc!WriteThrows, Calc!Written
    <3>6. QED
      BY <3>1, <3>2, <3>3, <3>4, <3>5 DEF ResultsSoFar
  <2>5. QED
    BY <2>1, <2>2, <2>3, <2>4
<1>2. QED
  BY <1>1 DEF CalcInv

\* Every step of the calculator keeps its invariant.
LEMMA CalcStep == CalcInv /\ Calc!Next => CalcInv'
  BY GiveSteps, CoarseSteps, CoarseThrowsStep, ProjectSteps, ResultSteps DEF Calc!Next

\* A calculator that has returned has the errors of the solutions there are.
LEMMA ErrorsFollow == CalcInv => ErrorsOfAllSolutions
<1> SUFFICES ASSUME CalcInv, step = "done", "coarse_fem" \in solved, "fem" \in solved => fem
             PROVE  /\ DOMAIN csv = {e \in Calc!Error : \A i \in {1, 2} : Calc!Exists(Calc!Between(e)[i])}
                    /\ csv = [e \in DOMAIN csv |-> Calc!Between(e)]
                    /\ vtk => written = DOMAIN csv
  BY DEF ErrorsOfAllSolutions, Calc!ErrorsOfAllSolutions
<1> DEFINE Both == {e \in Calc!Error : \A i \in {1, 2} : Calc!Exists(Calc!Between(e)[i])}
<1>1. /\ csv = Values /\ registered = [e \in Differences |-> Calc!Pair[e]]
      /\ written = IF vtk THEN DOMAIN registered ELSE {}
  BY DEF CalcInv, ResultsSoFar
<1>2. Calc!LookedUp = Differences
  BY LookedUpAreRegistered DEF CalcInv
<1>3. /\ Calc!Exists("exact") = exact /\ Calc!Exists("msfem") = msfem
      /\ Calc!Exists("fem") = fem /\ Calc!Exists("coarse_fem") = TRUE
  BY DEF Calc!Exists, CalcInv, CalcType, SolutionsHeld
<1>4. Calc!LookedUp = Both
  <2>1. \A e \in Calc!Error : e \in Both <=> Calc!Exists(Calc!Pair[e][1]) /\ Calc!Exists(Calc!Pair[e][2])
    BY DEF Calc!Between
  <2> HIDE DEF Both
  <2>2. Both \subseteq Calc!Error /\ Calc!LookedUp \subseteq Calc!Error
    BY DEF Both, Calc!LookedUp
  <2>3. \A e \in Calc!Error : e \in Calc!LookedUp <=> Calc!Exists(Calc!Pair[e][1]) /\ Calc!Exists(Calc!Pair[e][2])
    BY <1>3 DEF Calc!LookedUp, Calc!Error, Calc!Pair
  <2>4. QED
    BY <2>1, <2>2, <2>3
<1>5. \A e \in Calc!LookedUp : Values[e] = Calc!Pair[e]
  <2> SUFFICES ASSUME NEW e \in Calc!LookedUp PROVE Values[e] = Calc!Pair[e]
    OBVIOUS
  <2>1. /\ Calc!Holds("exact") = "exact" /\ Calc!Holds("fem") = "fem"
        /\ Calc!Holds("coarse_fem") = "coarse_fem" /\ (msfem => Calc!Holds("msfem") = "msfem")
    BY DEF Calc!Holds, Calc!FineFunction, CalcInv, SolutionsHeld, BehindProjection
  <2>2. \E a, b : Calc!Pair[e] = <<a, b>> /\ Calc!Holds(a) = a /\ Calc!Holds(b) = b
    BY <2>1 DEF Calc!LookedUp, Calc!Error, Calc!Pair
  <2>3. PICK a, b : Calc!Pair[e] = <<a, b>> /\ Calc!Holds(a) = a /\ Calc!Holds(b) = b
    BY <2>2
  <2>4. Values[e] = [i \in {1, 2} |-> Calc!Holds(Calc!Pair[e][i])]
    BY DEF Values
  <2>5. [i \in {1, 2} |-> Calc!Holds(Calc!Pair[e][i])] = [i \in {1, 2} |-> <<a, b>>[i]]
    BY <2>3
  <2>6. [i \in {1, 2} |-> <<a, b>>[i]] = <<a, b>>
    OBVIOUS
  <2>7. QED
    BY <2>3, <2>4, <2>5, <2>6
<1>6. DOMAIN csv = Calc!LookedUp
  BY <1>1 DEF Values
<1>7. csv = [e \in DOMAIN csv |-> Calc!Between(e)]
  BY <1>1, <1>5, <1>6 DEF Values, Calc!Between
<1>8. DOMAIN registered = Calc!LookedUp
  BY <1>1, <1>2
<1>9. QED
  BY <1>1, <1>4, <1>6, <1>7, <1>8

---------------------------------------------------------------------------
(* Both together                                                           *)

\* Every step of the end of a run is a step of the projection or leaves it
\* alone, and the other way around for the calculator.
LEMMA ReportSteps ==
  [ReportNext]_reportVars =>
    /\ [Next]_vars
    /\ Calc!Next \/ UNCHANGED calcVars
  BY DEF ReportNext, Calculate, Within, reportVars

\* The projection inside of print() is the projection: what holds of project()
\* wherever it is called holds when ErrorCalculator calls it.
THEOREM CalculatorRunsProjection == ReportSpec => Spec
<1>1. ReportInit => Init
  BY DEF ReportInit
<1>2. [ReportNext]_reportVars => [Next]_vars
  BY ReportSteps
<1>3. QED
  BY <1>1, <1>2, PTL DEF ReportSpec, Spec

\* The invariant of the calculator, and the order of the two, in every state.
THEOREM ReportInvariant == ReportSpec => [](CalcInv /\ Projected)
<1>1. ReportInit => CalcInv /\ Projected
  <2>1. ReportInit => CalcInv
    BY InitCalc DEF ReportInit
  <2>2. ReportInit => Projected
    BY DEF ReportInit, Calc!Init, Projected, BehindProjection
  <2>3. QED
    BY <2>1, <2>2
<1>2. CalcInv /\ Projected /\ [ReportNext]_reportVars => (CalcInv /\ Projected)'
  <2> SUFFICES ASSUME CalcInv, Projected, [ReportNext]_reportVars PROVE CalcInv' /\ Projected'
    OBVIOUS
  <2>1. CalcInv'
    <3>1. CASE Calc!Next
      BY <3>1, CalcStep
    <3>2. CASE UNCHANGED calcVars
      <4>1. CalcType' /\ SolutionsHeld'
        BY <3>2 DEF calcVars, CalcInv, CalcType, SolutionsHeld
      <4>2. UNCHANGED Calc!AnalyticalErrors /\ UNCHANGED Differences /\ UNCHANGED Values
        BY <3>2 DEF calcVars, Calc!AnalyticalErrors, Differences, Calc!DiscreteErrors, Values, Calc!LookedUp, Calc!Holds
      <4>3. UNCHANGED <<step, registered, csv, written, vtk>>
        BY <3>2 DEF calcVars
      <4>4. ResultsSoFar'
        BY <4>2, <4>3 DEF CalcInv, ResultsSoFar, Calc!Pair
      <4>5. QED
        BY <4>1, <4>4 DEF CalcInv
    <3>3. QED
      BY <3>1, <3>2, ReportSteps
  <2>2. Projected'
    <3>1. CASE Calculate
      BY <3>1 DEF Calculate, Projecting, vars, Projected, BehindProjection, Calc!Next, Calc!GiveFem, Calc!GiveMsfem,
         Calc!SolveCoarse, Calc!CoarseFails, Calc!CoarseThrows, Calc!Project, Calc!ProjectThrows, Calc!RegisterAnalytical,
         Calc!RegisterDiscrete, Calc!Report, Calc!Write, Calc!WriteThrows
    <3>2. CASE Within(Next)
      BY <3>2 DEF Within, Projecting, calcVars, Projected, BehindProjection
    <3>3. CASE UNCHANGED reportVars
      BY <3>3 DEF reportVars, vars, calcVars, Projected
    <3>4. QED
      BY <3>1, <3>2, <3>3 DEF ReportNext
  <2>3. QED
    BY <2>1, <2>2
<1>3. QED
  BY <1>1, <1>2, PTL DEF ReportSpec

\* print() looks up no error that it has not registered, whatever solutions
\* there are and whatever is switched on: at() does not throw.
THEOREM EveryLookupSucceeds == ReportSpec => []LookupsSucceed
<1>1. CalcInv => LookupsSucceed
  <2> SUFFICES ASSUME CalcInv, step = "report" PROVE Calc!LookedUp \subseteq DOMAIN registered
    BY DEF LookupsSucceed, Calc!LookupsSucceed
  <2>1. registered = [e \in Differences |-> Calc!Pair[e]]
    BY DEF CalcInv, ResultsSoFar
  <2>2. QED
    BY <2>1, LookedUpAreRegistered DEF CalcInv
<1>2. QED
  BY <1>1, ReportInvariant, PTL

\* The errors of a run that returns are those of every named pair of solutions
\* there are, computed from functions that held them, and the differences that
\* are written are the same ones.
THEOREM ErrorsAreOfAllSolutions == ReportSpec => []ErrorsOfAllSolutions
<1>1. QED
  BY ErrorsFollow, ReportInvariant, PTL

\* An error of the multiscale solution is one of a finished projection, with a
\* value at every fine node that comes from a coarse cell the node belongs to.
ErrorsOfWholeProjection ==
  step \in BehindProjection /\ msfem => stage = "done" /\ \A n \in Nodes : target[n] \in CoarseAt(n)

\* The calculator registers, looks up and returns errors of the multiscale
\* solution only behind the whole walk of the projection.
THEOREM ErrorsComeBehindTheWalk == ReportSpec => []ErrorsOfWholeProjection
<1>1. Projected /\ EveryNodeFromItsCell => ErrorsOfWholeProjection
  BY DEF Projected, EveryNodeFromItsCell, ErrorsOfWholeProjection
<1>2. QED
  BY <1>1, CalculatorRunsProjection, NodesFromTheirCells, ReportInvariant, PTL
=============================================================================
