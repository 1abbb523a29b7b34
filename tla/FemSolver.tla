------------------------------ MODULE FemSolver ------------------------------
(***************************************************************************)
(* Elliptic_FEM_Solver (msfem/fem_solver.cc): the reference solution on    *)
(* the fine grid.  The solution it keeps is the argument of its next       *)
(* solve(), and the Dirichlet values are projected into a copy of it: the  *)
(* shift of a later call contains the solution of the one before.          *)
(***************************************************************************)
EXTENDS IntervalFem

CONSTANT MaxCalls  \* bound: calls of solve()

VARIABLES
  k, f, boundary,  \* the problem
  calls,     \* calls of solve() begun
  phase,
  walk,      \* micro cells the walk has not come to
  matrix, rhs,
  shift,     \* projected_dirichlet_data
  solution   \* solution_

problem == <<k, f, boundary>>
vars == <<problem, calls, phase, walk, matrix, rhs, shift, solution>>

Init ==
  /\ calls = 0
  /\ phase = "idle"
  /\ walk = {}
  /\ matrix = [m \in Nodes |-> ZeroFunction]
  /\ rhs = ZeroFunction /\ shift = ZeroFunction /\ solution = ZeroFunction

Flux(n) == IF n \in Ends \ boundary.dirichlet THEN boundary.value[n] ELSE 0

\* Wrong: the projection adds the values to what is there.
AddProjected(e, n) == IF n \in {e - 1, e} \cap boundary.dirichlet THEN shift[n] + boundary.value[n] ELSE shift[n]

\* The Dirichlet projection overwrites.
Project(e, n) == IF n \in {e - 1, e} \cap boundary.dirichlet THEN boundary.value[n] ELSE shift[n]

\* apply(): a new system, and a copy of the solution.
Begin ==
  /\ phase = "idle"
  /\ calls < MaxCalls
  /\ calls' = calls + 1
  /\ matrix' = [m \in Nodes |-> ZeroFunction]
  /\ rhs' = ZeroFunction
  /\ shift' = solution
  /\ walk' = Entities
  /\ phase' = "assemble"
  /\ UNCHANGED <<problem, solution>>

\* One micro cell of the walk, by any thread.
WalkEntity(e) ==
  /\ phase = "assemble"
  /\ e \in walk
  /\ matrix' = [m \in Nodes |-> [n \in Nodes |->
       IF {m, n} \subseteq {e - 1, e}
       THEN (matrix[m][n] + Energy(k, Hat(m), Hat(n), e)) % P ELSE matrix[m][n]]]
  /\ rhs' = [n \in Nodes |-> IF n \in {e - 1, e} THEN (rhs[n] + Load(f, Hat(n), e) + Flux(n)) % P ELSE rhs[n]]
  /\ shift' = [n \in Nodes |-> Project(e, n)]
  /\ walk' = walk \ {e}
  /\ UNCHANGED <<problem, calls, phase, solution>>

\* The Dirichlet values are lifted, the free dofs are left.
Constrain ==
  /\ phase = "assemble"
  /\ walk = {}
  /\ LET tmp == Apply(matrix, shift, Nodes) IN
     rhs' = ConstrainedVector([n \in Nodes |-> (rhs[n] - tmp[n]) % P], boundary.dirichlet, Nodes)
  /\ matrix' = ConstrainedMatrix(matrix, boundary.dirichlet, Nodes)
  /\ phase' = "solve"
  /\ UNCHANGED <<problem, calls, walk, shift, solution>>

\* linear_solver.apply, then solution += projected_dirichlet_data; the solver
\* throws if there is no solution.
Solve ==
  /\ phase = "solve"
  /\ IF Solves(matrix, rhs, Nodes)
     THEN solution' = Plus(Solution(matrix, rhs, Nodes), shift) /\ phase' = "idle"
     ELSE UNCHANGED solution /\ phase' = "thrown"
  /\ UNCHANGED <<problem, calls, walk, matrix, rhs, shift>>

Next == Begin \/ (\E e \in Entities : WalkEntity(e)) \/ Constrain \/ Solve

---------------------------------------------------------------------------
\* Every call of solve() that returns leaves the finite element solution, also
\* when it started from an earlier one: whatever the interior dofs of the shift
\* are, the lifted system takes them off again (fem_solver.cc:76-83, 127).
EveryCallSolves == phase = "idle" /\ calls > 0 => solution = FineSolution(k, f, boundary)
=============================================================================
