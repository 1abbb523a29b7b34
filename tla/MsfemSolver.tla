---------------------------- MODULE MsfemSolver ----------------------------
(***************************************************************************)
(* Elliptic_MsFEM_Solver::apply on one rank: the parallel walk that solves *)
(* and stores the local problems (LocalProblemSolver), the parallel walk   *)
(* that assembles the coarse system from the stored solutions              *)
(* (CoarseScaleOperator), the coarse solve, the serial loop that builds    *)
(* the corrections (identify_fine_scale_part), the proxy, and the guard    *)
(* that empties the store on every way out.                                *)
(*                                                                         *)
(* LocalproblemSolutionManager::load makes the manager's functions the     *)
(* stored ones (shared pointers), and identify_fine_scale_part multiplies  *)
(* them in place: the store itself changes, so nothing may read it as      *)
(* solutions of the local problems afterwards.  The store outlives a call; *)
(* only the guard keeps one call's functions out of the next.              *)
(*                                                                         *)
(* A lookup in the store is one step here: DiscreteFunctionIO shows that   *)
(* it may be.                                                              *)
(***************************************************************************)
EXTENDS LocalCorrections, FiniteSets

CONSTANTS
  Threads,   \* the threads that take part in a walk
  MaxRuns    \* bound: calls of apply() in one process

ASSUME CellsNotEmpty == Cells # {}
ASSUME RunsAssumption == MaxRuns \in Nat

VARIABLES
  run,         \* calls of apply() begun
  stage,       \* where the current call is, "out" between calls
  todo,        \* cells of the current walk or loop still to be taken
  pc,          \* where a thread is in its visit
  cell,        \* the cell it visits
  sol,         \* its solution manager's own functions (before they are saved)
  memory,      \* the functions stored per cell, MemoryBackend::functions_
  system,      \* per cell, the local solutions each assembly of it has read
  correction,  \* local_corrections
  solution,    \* the proxy handed out: its corrections, << >> for nullptr
  unwinding    \* an exception is leaving the call

vars == <<run, stage, todo, pc, cell, sol, memory, system, correction,
          solution, unwinding>>

Nothing == << >>

Init ==
  /\ run = 0
  /\ stage = "out"
  /\ todo = {}
  /\ pc = [t \in Threads |-> "idle"]
  /\ cell = [t \in Threads |-> CHOOSE c \in Cells : TRUE]   \* of no visit yet
  /\ sol = [t \in Threads |-> [s \in Slots |-> Zero]]
  /\ memory = [c \in Cells |-> << >>]
  /\ system = [c \in Cells |-> << >>]
  /\ correction = [c \in Cells |-> {}]
  /\ solution = Nothing
  /\ unwinding = FALSE

Idle == \A t \in Threads : pc[t] = "idle"

\* Wrong: a walk ends when its last cell is taken.
AllTaken == todo = {}

\* A walk has visited its cells and no thread is in a visit.
WalkOver == todo = {} /\ Idle

---------------------------------------------------------------------------
(* apply()                                                                 *)

\* The guard, the zeroed coarse solution, and the first walk.  The pointer to the
\* solution is the caller's, a new one for each call (msfem/algorithm.cc:64).
Enter ==
  /\ stage = "out"
  /\ run < MaxRuns
  /\ run' = run + 1
  /\ stage' = "solve"
  /\ todo' = Cells
  /\ system' = [c \in Cells |-> << >>]
  /\ correction' = [c \in Cells |-> {}]
  /\ solution' = Nothing
  /\ unwinding' = FALSE
  /\ UNCHANGED <<pc, cell, sol, memory>>

\* solve_for_all_cells returns; CoarseScaleOperator's constructor walks.
BeginAssembly ==
  /\ stage = "solve"
  /\ WalkOver
  /\ ~unwinding
  /\ stage' = "assemble"
  /\ todo' = Cells
  /\ UNCHANGED <<run, pc, cell, sol, memory, system, correction, solution, unwinding>>

EndAssembly ==
  /\ stage = "assemble"
  /\ WalkOver
  /\ ~unwinding
  /\ stage' = "coarse"
  /\ UNCHANGED <<run, todo, pc, cell, sol, memory, system, correction, solution, unwinding>>

\* CoarseScaleOperator::apply_inverse solves the coarse system.
CoarseSolve ==
  /\ stage = "coarse"
  /\ ~unwinding
  /\ stage' = "identify"
  /\ todo' = Cells
  /\ UNCHANGED <<run, pc, cell, sol, memory, system, correction, solution, unwinding>>

\* ... or its linear solver fails, or its dofs are not valid.
CoarseSolveFails ==
  /\ stage = "coarse"
  /\ ~unwinding
  /\ unwinding' = TRUE
  /\ UNCHANGED <<run, stage, todo, pc, cell, sol, memory, system, correction, solution>>

\* Enough functions are stored for a manager of cell c to load; if not,
\* MemoryBackend::read throws.
Loadable(c) == Len(memory[c]) >= NumDofs + 2

\* Wrong: the boundary correctors in the wrong order.
IdentifiedSwapped(f) ==
  (UNION { Plus(s, Scaled(f[s]), IF Oversampling THEN "cell" ELSE "grid") : s \in InnerSlots })
    \cup Plus(NeumannSlot, f[NeumannSlot], "grid")
    \cup Minus(DirichletSlot, f[DirichletSlot], "grid")

\* What the loop body of identify_fine_scale_part makes of the functions f it
\* has loaded: the scaled inner solutions, cut off outside the cell if there
\* is oversampling, then the boundary correctors, which are not cut.
Identified(f) ==
  (UNION { Plus(s, Scaled(f[s]), IF Oversampling THEN "cell" ELSE "grid") : s \in InnerSlots })
    \cup Plus(DirichletSlot, f[DirichletSlot], "grid")
    \cup Minus(NeumannSlot, f[NeumannSlot], "grid")

\* One turn of the loop: load, multiply the loaded, that is the stored, inner
\* solutions by the coarse dofs, add up.
IdentifyCell(c) ==
  /\ stage = "identify"
  /\ ~unwinding
  /\ c \in todo
  /\ Loadable(c)
  /\ todo' = todo \ {c}
  /\ memory' = [memory EXCEPT ![c] =
                  [i \in DOMAIN memory[c] |->
                     IF i \in InnerSlots THEN Scaled(memory[c][i]) ELSE memory[c][i]]]
  /\ correction' = [correction EXCEPT ![c] = Identified(memory[c])]
  /\ UNCHANGED <<run, stage, pc, cell, sol, system, solution, unwinding>>

\* Wrong: the loop stops early.
SomeIdentified == todo # Cells

\* The loop has been through all cells.
AllIdentified == todo = {}

\* The proxy takes over the corrections that were made.
MakeProxy ==
  /\ stage = "identify"
  /\ AllIdentified
  /\ ~unwinding
  /\ stage' = "add"
  /\ solution' = [c \in Cells \ todo |-> correction[c]]
  /\ UNCHANGED <<run, todo, pc, cell, sol, memory, system, correction, unwinding>>

\* LocalsolutionProxy::add prolongs the coarse solution onto every correction.
AddCoarse ==
  /\ stage = "add"
  /\ stage' = "leave"
  /\ solution' = [c \in Cells |-> solution[c] \cup Plus(CoarsePart, Solved(run), "grid")]
  /\ UNCHANGED <<run, todo, pc, cell, sol, memory, system, correction, unwinding>>

\* Wrong: the store is only cleared when apply() returns; never.
ClearOnReturn == memory' = IF unwinding THEN memory ELSE [c \in Cells |-> << >>]
ClearNever == memory' = memory

\* ~ClearGuard
ClearStore == memory' = [c \in Cells |-> << >>]

\* apply() returns ...
Return ==
  /\ stage = "leave"
  /\ stage' = "out"
  /\ ClearStore
  /\ UNCHANGED <<run, todo, pc, cell, sol, system, correction, solution, unwinding>>

\* Wrong: only an exception of a walk is passed on.
WalkThrew == stage = "solve" /\ unwinding /\ WalkOver

\* ... or an exception leaves it, after the visits under way have ended.
Threw == stage # "out" /\ unwinding /\ WalkOver

Unwind ==
  /\ Threw
  /\ stage' = "out"
  /\ ClearStore
  /\ UNCHANGED <<run, todo, pc, cell, sol, system, correction, solution, unwinding>>

---------------------------------------------------------------------------
(* The two parallel walks.  Every cell is a partition of its own.          *)

\* A thread takes a cell; its manager starts with functions of its own.
Visit(t, c) ==
  /\ stage \in {"solve", "assemble"}
  /\ pc[t] = "idle"
  /\ c \in todo
  /\ todo' = todo \ {c}
  /\ cell' = [cell EXCEPT ![t] = c]
  /\ sol' = [sol EXCEPT ![t] = [s \in Slots |-> Zero]]
  /\ pc' = [pc EXCEPT ![t] = IF stage = "solve" THEN "solve" ELSE "load"]
  /\ UNCHANGED <<run, stage, memory, system, correction, solution, unwinding>>

\* LocalProblemSolver::solve_all_on_single_cell
SolveCell(t) ==
  /\ pc[t] = "solve"
  /\ sol' = [sol EXCEPT ![t] = LocalSolutions(run, cell[t])]
  /\ pc' = [pc EXCEPT ![t] = "save"]
  /\ UNCHANGED <<run, stage, todo, cell, memory, system, correction, solution, unwinding>>

\* LocalproblemSolutionManager::save appends its functions to what is stored.
Appended(stored, f) == stored \o f

Save(t) ==
  /\ pc[t] = "save"
  /\ memory' = [memory EXCEPT ![cell[t]] = Appended(@, sol[t])]
  /\ pc' = [pc EXCEPT ![t] = "idle"]
  /\ UNCHANGED <<run, stage, todo, cell, sol, system, correction, solution, unwinding>>

\* LocalproblemSolutionManager::load: the manager shares the stored functions.
Load(t) ==
  /\ pc[t] = "load"
  /\ Loadable(cell[t])
  /\ pc' = [pc EXCEPT ![t] = "read"]
  /\ UNCHANGED <<run, stage, todo, cell, sol, memory, system, correction, solution, unwinding>>

\* The assemblers of the matrix and of the right hand side read the shared
\* functions and add the cell's contribution to the global system.
AssembleCell(t) ==
  /\ pc[t] = "read"
  /\ system' = [system EXCEPT ![cell[t]] = Append(@, SubSeq(memory[cell[t]], 1, NumDofs + 2))]
  /\ pc' = [pc EXCEPT ![t] = "idle"]
  /\ UNCHANGED <<run, stage, todo, cell, sol, memory, correction, solution, unwinding>>

\* A visit throws because a local solver fails: nothing of the cell is saved
\* and the walk hands out no further cell.  (The other throw of a visit, of
\* MemoryBackend::read, never happens: LoadsSucceed.)
Throw(t) ==
  /\ pc[t] = "solve"
  /\ pc' = [pc EXCEPT ![t] = "idle"]
  /\ todo' = {}
  /\ unwinding' = TRUE
  /\ UNCHANGED <<run, stage, cell, sol, memory, system, correction, solution>>

---------------------------------------------------------------------------
Next ==
  \/ Enter
  \/ BeginAssembly
  \/ EndAssembly
  \/ CoarseSolve
  \/ CoarseSolveFails
  \/ \E c \in Cells : IdentifyCell(c)
  \/ MakeProxy
  \/ AddCoarse
  \/ Return
  \/ Unwind
  \/ \E t \in Threads, c \in Cells : Visit(t, c)
  \/ \E t \in Threads : SolveCell(t)
  \/ \E t \in Threads : Save(t)
  \/ \E t \in Threads : Load(t)
  \/ \E t \in Threads : AssembleCell(t)
  \/ \E t \in Threads : Throw(t)

Spec == Init /\ [][Next]_vars

\* A visit under way goes on (the local solver ends, one way or the other), a
\* walk with cells left gives them to some thread, apply()'s thread proceeds.
VisitStep(t) == SolveCell(t) \/ Throw(t) \/ Save(t) \/ Load(t) \/ AssembleCell(t)
CallerStep ==
  \/ BeginAssembly \/ EndAssembly \/ CoarseSolve \/ CoarseSolveFails
  \/ (\E c \in Cells : IdentifyCell(c)) \/ MakeProxy \/ AddCoarse
  \/ Return \/ Unwind

Fairness ==
  /\ \A t \in Threads : WF_vars(VisitStep(t))
  /\ WF_vars(\E t \in Threads, c \in Cells : Visit(t, c))
  /\ WF_vars(CallerStep)

FairSpec == Spec /\ Fairness

---------------------------------------------------------------------------
Stages == {"out", "solve", "assemble", "coarse", "identify", "add", "leave"}
Terms == [what : Slots \cup {CoarsePart}, sign : {"plus", "minus"},
          f : Function, on : {"cell", "grid"}]

TypeOK ==
  /\ run \in 0 .. MaxRuns
  /\ stage \in Stages
  /\ todo \in SUBSET Cells
  /\ pc \in [Threads -> {"idle", "solve", "save", "load", "read"}]
  /\ cell \in [Threads -> Cells]
  /\ sol \in [Threads -> [Slots -> Function]]
  /\ memory \in [Cells -> Seq(Function)]
  /\ system \in [Cells -> Seq(Seq(Function))]
  /\ correction \in [Cells -> SUBSET Terms]
  /\ solution \in {Nothing} \cup [Cells -> SUBSET Terms]
  /\ unwinding \in BOOLEAN

\* The coarse system that is solved contains each cell exactly once, made from
\* the unscaled solutions of this very call: whatever order the threads took
\* the cells in, whatever an earlier (perhaps failed) call had stored, and
\* although the reconstruction overwrites the stored functions.
CoarseSystemFresh ==
  stage \in {"coarse", "identify", "add", "leave"} =>
    \A c \in Cells : system[c] = <<LocalSolutions(run, c)>>

\* No load asks for a function that is not stored (the "oob index" throw of
\* MemoryBackend::read), neither in the assembly nor in the reconstruction.
LoadsSucceed ==
  /\ \A t \in Threads : pc[t] = "load" => Loadable(cell[t])
  /\ stage = "identify" /\ ~unwinding => \A c \in todo : Loadable(c)

\* Between calls the store is empty, after a failed call too, and within one
\* no cell ever has more functions than one save puts there: load takes the
\* FIRST functions, so a second save would never be seen.
StoreHoldsOneSave ==
  \A c \in Cells : /\ stage = "out" => memory[c] = << >>
                    /\ Len(memory[c]) \in {0, NumDofs + 2}

\* A call ends, and with an answer for every cell unless an exception left it.
CallEnds ==
  stage = "solve" ~> /\ stage = "out"
                     /\ unwinding \/ DOMAIN solution = Cells

\* What a caller of apply() sees.
Abstract == INSTANCE MsfemRun WITH
              run <- run, busy <- (stage # "out"),
              answer <- (IF stage = "out" THEN solution ELSE Nothing)

\* apply() hands out the reconstruction of this call on every cell, or nothing.
ImplementsMsfemRun == Abstract!Spec
=============================================================================
