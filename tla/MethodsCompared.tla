--------------------------- MODULE MethodsCompared ---------------------------
(***************************************************************************)
(* msfem_algorithm with msfem.fem_comparison: the multiscale method, then, *)
(* in the constructor of ErrorCalculator, the reference solver on the same *)
(* problem.                                                                *)
(***************************************************************************)
EXTENDS MultiscaleSystem

CONSTANT MaxCalls  \* bound: calls of the reference solver

ASSUME CallsAssumption == MaxCalls \in Nat

VARIABLES calls, phase, walk, femMatrix, femRhs, femShift, solution

Fem == INSTANCE FemSolver WITH matrix <- femMatrix, rhs <- femRhs, shift <- femShift

femVars == <<calls, phase, walk, femMatrix, femRhs, femShift, solution>>
comparedVars == <<vars, femVars>>

ComparedInit == Init /\ Fem!Init

Multiscale == Next /\ UNCHANGED femVars
Reference == pc = "done" /\ Fem!Next /\ UNCHANGED <<pc, layers, todo, local, system, coarse, correction>>

ComparedNext == Multiscale \/ Reference

ComparedSpec == ComparedInit /\ [][ComparedNext]_comparedVars

---------------------------------------------------------------------------
\* Every call of the reference solver that returns leaves the finite element
\* solution, also when it started from the solution of an earlier one.
EveryCallSolves == Fem!EveryCallSolves

\* The comparison finds no error where there is none: without oversampling
\* the coarse solution and the reference solution have the same values in the
\* coarse nodes, whatever the coefficient is, for a source that is constant on
\* coarse cells: on an interval, the corrected shape functions see the whole
\* micro structure.
NodalValuesAgree ==
  pc = "done" /\ layers = 0 /\ EvenSource /\ calls > 0 /\ phase = "idle" =>
    \A i \in CoarseNodes : coarse[i] = solution[At(i)]
=============================================================================
