---------------------------- MODULE RankPrograms ----------------------------
(***************************************************************************)
(* The ranks of a run of msfem or cgfem, and what becomes of the run when  *)
(* one of them throws.  Every rank executes the same main(): the algorithm *)
(* its configuration asks for, the reduction of the run time (msfem.cc     *)
(* only) and mem_usage(); a rank that catches an exception leaves this     *)
(* sequence, calls mem_usage() from handle_exception() and aborts all      *)
(* processes.  All of these calls contain collective operations, and a     *)
(* collective operation ends when every rank has called one: MPI matches   *)
(* the calls by their order alone.                                         *)
(***************************************************************************)
EXTENDS Integers, Sequences, FiniteSets

CONSTANTS
  Ranks,
  Mains   \* the runs looked at: the collective operations of an algorithm, in
          \* order, and what main() adds for its run time (msfem.cc:40)

\* A solve that fails on all ranks is caught by print() or by the constructor of
\* ErrorCalculator, or leaves the algorithm.
Kinds == {"grids", "barrier", "solve", "caught", "flux"}
Maximum == <<"time">>

ASSUME RanksAssumption == Ranks # {} /\ IsFiniteSet(Ranks)
ASSUME MainsAssumption == Mains \subseteq [algorithm : Seq(Kinds), runTime : {<<>>, Maximum}]

\* The collective operations of print(): make_grids(), the coarse FEM solve and,
\* with a multiscale solution, the flow over the boundary.
Printing(multiscale) == <<"grids", "caught">> \o (IF multiscale THEN <<"flux">> ELSE <<>>)

\* Those of ErrorCalculator's constructor with msfem.fem_comparison.
Comparing(comparison) == IF comparison THEN <<"caught">> ELSE <<>>

\* Those of msfem_algorithm() and cgfem_algorithm(), with msfem.skip_error or not.
MsfemAlgorithm(comparison, skipError) ==
  <<"grids", "barrier", "solve">>
    \o (IF skipError THEN <<>> ELSE Comparing(comparison) \o Printing(TRUE))
CgfemAlgorithm(skipError) == <<"solve">> \o (IF skipError THEN <<>> ELSE Printing(FALSE))

\* All runs of the two programs.
MsfemMains == {[algorithm |-> MsfemAlgorithm(c, s), runTime |-> Maximum] : c, s \in BOOLEAN}
CgfemMains == {[algorithm |-> CgfemAlgorithm(s), runTime |-> <<>>] : s \in BOOLEAN}

VARIABLES
  main,      \* the run
  passed,    \* operations of Program behind each rank
  handled,   \* operations of handle_exception's mem_usage() behind each rank
  run,       \* "working", "waiting" in an operation, "returned" 0, "aborted"
  failed,    \* the ranks inside handle_exception()
  alone,     \* the ranks that threw where the others did not
  skips,     \* how many of its solves threw before they were collective
  stuck,     \* the ranks whose unlike operations never come back
  done       \* operations completed so far, by all ranks together
vars == <<main, passed, handled, run, failed, alone, skips, stuck, done>>

Algorithm == main.algorithm
RunTime == main.runTime
MemUsage == <<"peak", "total">>

\* Wrong: main() ends with mem_usage() right after the algorithm.
WithoutRunTime == Algorithm \o MemUsage

\* main() on every rank.
Program == Algorithm \o (RunTime \o MemUsage)

InAlgorithm == Len(Algorithm)
InAll == Len(Program)

Init ==
  /\ main \in Mains
  /\ passed = [r \in Ranks |-> 0]
  /\ handled = [r \in Ranks |-> 0]
  /\ run = [r \in Ranks |-> "working"]
  /\ skips = [r \in Ranks |-> 0]
  /\ failed = {} /\ alone = {} /\ stuck = {}
  /\ done = 0

\* The operation a rank calls next, one of its program or of its handler.
Kind(r) == IF r \in failed THEN MemUsage[handled[r] + 1] ELSE Program[passed[r] + 1]
HasNext(r) == IF r \in failed THEN handled[r] < Len(MemUsage)
                              ELSE passed[r] < InAll

\* A rank comes to its next collective operation and stays in it.
Call(r) ==
  /\ run[r] = "working" /\ HasNext(r)
  /\ run' = [run EXCEPT ![r] = "waiting"]
  /\ UNCHANGED <<main, passed, handled, failed, alone, skips, stuck, done>>

\* An exception in the local part of a rank's work: the grid that came to one
\* rank as a whole, an unreadable store, a file that cannot be written.
Throw(r) ==
  /\ run[r] = "working" /\ r \notin failed
  /\ failed' = failed \cup {r}
  /\ alone' = alone \cup {r}
  /\ UNCHANGED <<main, passed, handled, run, skips, stuck, done>>

\* The same before a FEM solve whose exceptions are caught: they are logged, and
\* the rank goes on.
Swallow(r) ==
  /\ run[r] = "working" /\ r \notin failed
  /\ passed[r] < InAll /\ Program[passed[r] + 1] = "caught"
  /\ passed' = [passed EXCEPT ![r] = @ + 1]
  /\ alone' = alone \cup {r}
  /\ skips' = [skips EXCEPT ![r] = @ + 1]
  /\ UNCHANGED <<main, handled, run, failed, stuck, done>>

AllWait == \A r \in Ranks : run[r] = "waiting"
Alike == \A r, s \in Ranks : Kind(r) = Kind(s)

\* An operation is behind all ranks.
Step ==
  /\ passed' = [r \in Ranks |-> IF r \in failed THEN passed[r] ELSE passed[r] + 1]
  /\ handled' = [r \in Ranks |-> IF r \in failed THEN handled[r] + 1 ELSE handled[r]]
  /\ run' = [r \in Ranks |-> "working"]
  /\ done' = done + 1
  /\ UNCHANGED <<main, alone, skips, stuck>>

\* All ranks are in an operation, and it ends, whichever they called: unlike
\* calls may be taken for one another (or stay where they are: Mismatch).
Complete ==
  /\ AllWait /\ stuck = {}
  /\ Step
  /\ UNCHANGED failed

\* Wrong: the solver's exception is one of a single rank.
FailsOnOne ==
  /\ AllWait /\ stuck = {} /\ Alike
  /\ \A r \in Ranks : r \notin failed /\ Kind(r) = "solve"
  /\ Step
  /\ \E r \in Ranks : failed' = {r}

\* The solver gives up on all ranks, and all of them throw.
SolveFails ==
  /\ AllWait /\ stuck = {} /\ Alike
  /\ \A r \in Ranks : r \notin failed /\ Kind(r) = "solve"
  /\ Step
  /\ failed' = Ranks

\* Unlike operations that do not come back.
Mismatch ==
  /\ AllWait /\ stuck = {} /\ ~Alike
  /\ stuck' = Ranks
  /\ UNCHANGED <<main, passed, handled, run, failed, alone, skips, done>>

\* Wrong: only the rank itself ends.
LeaveAlone(r) ==
  /\ run[r] = "working" /\ r \in failed /\ ~HasNext(r)
  /\ run' = [run EXCEPT ![r] = "aborted"]
  /\ UNCHANGED <<main, passed, handled, failed, alone, skips, stuck, done>>

\* MPI's abort() at the end of handle_exception(): all processes end.
Abort(r) ==
  /\ run[r] = "working" /\ r \in failed /\ ~HasNext(r)
  /\ run' = [s \in Ranks |-> IF run[s] = "returned" THEN run[s] ELSE "aborted"]
  /\ UNCHANGED <<main, passed, handled, failed, alone, skips, stuck, done>>

\* main() returns 0.
Return(r) ==
  /\ run[r] = "working" /\ r \notin failed /\ ~HasNext(r)
  /\ run' = [run EXCEPT ![r] = "returned"]
  /\ UNCHANGED <<main, passed, handled, failed, alone, skips, stuck, done>>

Advance(r) == Call(r) \/ Abort(r) \/ Return(r)
Next ==
  \/ \E r \in Ranks : Call(r) \/ Throw(r) \/ Swallow(r) \/ Abort(r) \/ Return(r)
  \/ Complete \/ SolveFails \/ Mismatch

\* A rank that is not inside an operation runs on; an operation all ranks have
\* called comes to an end, unless their calls do not fit together.
Fairness ==
  /\ \A r \in Ranks : WF_vars(Advance(r))
  /\ WF_vars(Complete \/ SolveFails \/ Mismatch)
Spec == Init /\ [][Next]_vars /\ Fairness

-----------------------------------------------------------------------------
TypeOK ==
  /\ passed \in [Ranks -> 0..InAll]
  /\ handled \in [Ranks -> 0..2]
  /\ run \in [Ranks -> {"working", "waiting", "returned", "aborted"}]
  /\ failed \subseteq Ranks /\ alone \subseteq Ranks /\ skips \in [Ranks -> Nat]
  /\ main \in Mains
  /\ stuck \subseteq Ranks /\ done \in Nat

(***************************************************************************)
(* A rank's main() returns 0 only when every rank has the operations of    *)
(* the algorithm and of its run time behind it, but for as many as that    *)
(* rank has skipped: the two reductions of a failed rank's mem_usage() can *)
(* stand in for two that the others still need, and a solve skipped alone  *)
(* for one more (main_init.cc:66-109, error_calc.cc:105-113, 161-173).     *)
(* The run time makes up for one skipped solve: with one caught solve at   *)
(* most, msfem reports success of a whole computation alone.  cgfem, which *)
(* adds none, and msfem with msfem.fem_comparison, which catches two, may  *)
(* report success while a rank's last operation is missing.                *)
(***************************************************************************)
SuccessMeansAllComputed ==
  \A r, s \in Ranks :
    run[r] = "returned" => passed[s] >= InAlgorithm + Len(RunTime) - skips[r]

(***************************************************************************)
(* As long as no rank has thrown on its own the ranks never meet in unlike *)
(* operations: the calls of both algorithms, main() and                    *)
(* handle_exception() fit together.                                        *)
(***************************************************************************)
MismatchNeedsLoneFailure ==
  stuck # {} \/ (AllWait /\ ~Alike) => alone # {}

(***************************************************************************)
(* Every run ends on all ranks, an early failure by the abort of the rank  *)
(* that threw, with three exceptions: MPI does not let unlike operations   *)
(* pass, a rank has gone on without a FEM solve the others wait in, or it  *)
(* threw so late that the others have no two operations left for its       *)
(* handler (main_init.cc:104, writing memory.csv on rank 0 alone).         *)
(***************************************************************************)
Ended == \A r \in Ranks : run[r] \in {"returned", "aborted"}
Excused ==
  \/ stuck # {} \/ \E r \in Ranks : skips[r] > 0
  \/ \E r \in failed : passed[r] + Len(MemUsage) > InAll
RunEnds == <>(Ended \/ Excused)

=============================================================================
