----------------------------- MODULE IntervalFem -----------------------------
(***************************************************************************)
(* Linear finite elements on an interval, for the systems MultiscaleSystem *)
(* and FemSolver assemble: what the discretization library gives them.     *)
(*                                                                         *)
(* The interval has NumCells coarse cells of Micro micro cells each, micro *)
(* cell e lying between the nodes e - 1 and e.  Numbers are those of the   *)
(* field of P elements in place of doubles: every identity of linear       *)
(* algebra is exact, and none holds by coincidence of rounding.            *)
(***************************************************************************)
EXTENDS Integers, FiniteSets, FiniteSetsExt

CONSTANTS
  P,         \* a prime
  NumCells,  \* coarse cells
  Micro,     \* micro cells per coarse cell
  Inverted(_, _)  \* what the linear solver makes of a matrix and its dofs

Field == 0 .. P - 1

ASSUME FieldAssumption == P \in Nat \ {0, 1} /\ \A x \in 1 .. P - 1 : \E y \in Field : (x * y) % P = 1
ASSUME GridAssumption == NumCells \in Nat \ {0} /\ Micro \in 1 .. P - 1

Reciprocal(x) == CHOOSE y \in Field : (x * y) % P = 1

\* The sums of f over the members of a set of natural numbers up to n.
PartialSums(f, S) ==
  LET upTo[n \in Nat] == (IF n = 0 THEN 0 ELSE upTo[n - 1]) + (IF n \in S THEN f[n] ELSE 0)
  IN upTo

\* The sum of f over a set of micro cells, of nodes or of coarse nodes.
Total(f, S) == PartialSums(f, S)[NumCells * Micro] % P

Cells == 1 .. NumCells
CoarseNodes == 0 .. NumCells
Entities == 1 .. NumCells * Micro
Nodes == 0 .. NumCells * Micro
At(i) == i * Micro

\* The ends of the interval, as fine and as coarse nodes.
Ends == {0, NumCells * Micro}

\* Functions of the nodes.
Hat(n) == [m \in Nodes |-> IF m = n THEN 1 ELSE 0]
Combination(a, v, b, w) == [n \in Nodes |-> (a * v[n] + b * w[n]) % P]
Plus(v, w) == Combination(1, v, 1, w)
ZeroFunction == [n \in Nodes |-> 0]

\* The integrals over micro cell e of k grad v grad w and of 2 f v; k and f
\* are constant on it, and the mesh width is 1.
Energy(k, v, w, e) == k[e] * (v[e] - v[e - 1]) * (w[e] - w[e - 1])
Load(f, v, e) == f[e] * (v[e - 1] + v[e])

\* The function that a function of the coarse nodes is prolonged to.
Prolonged(u) ==
  [n \in Nodes |->
     LET i == n \div Micro
         t == n % Micro
     IN IF t = 0 THEN u[i]
        ELSE ((u[i] * (Micro - t) + u[i + 1] * t) * Reciprocal(Micro)) % P]

---------------------------------------------------------------------------
(* Systems of equations: a matrix is a function of rows                    *)

Apply(A, x, S) == [i \in S |-> Total([j \in S |-> A[i][j] * x[j]], S)]

\* What DirichletConstraints makes of a system: unit rows, zero values.
ConstrainedMatrix(A, D, S) ==
  [i \in S |-> [j \in S |-> IF i \notin D THEN A[i][j] ELSE IF i = j THEN 1 ELSE 0]]
ConstrainedVector(b, D, S) == [i \in S |-> IF i \in D THEN 0 ELSE b[i]]

\* The solver does not fail: it has inverted the matrix.
Regular(A, S) ==
  LET B == Inverted(A, S)
  IN /\ B \in [S -> [S -> Field]]
     /\ \A j \in S : Apply(B, [i \in S |-> A[i][j]], S) = [i \in S |-> IF i = j THEN 1 ELSE 0]

Solution(A, b, S) == Apply(Inverted(A, S), b, S)

\* A linear solver that does not throw has solved the system.
Solves(A, b, S) ==
  LET x == Solution(A, b, S)
  IN Regular(A, S) /\ x \in [S -> Field] /\ Apply(A, x, S) = b

---------------------------------------------------------------------------
(* The finite element solution of the micro grid, by its flux              *)

Inflow(f, m) == Total([l \in 1 .. m - 1 |-> f[l] + f[l + 1]], 1 .. m - 1)

\* How far the solution is over its first value if the first flux is J.
Rise(k, f, J, n) == Total([m \in 1 .. n |-> (J - Inflow(f, m)) * Reciprocal(k[m])], 1 .. n)

\* The solution with the given value or, at one end at most, flux.
FineSolution(k, f, boundary) ==
  LET last == Max(Entities)
      v == boundary.value
      J == IF boundary.dirichlet = Ends
           THEN (v[last] - v[0] - Rise(k, f, 0, last))
                  * Reciprocal(Total([m \in Entities |-> Reciprocal(k[m])], Entities))
           ELSE IF 0 \in boundary.dirichlet THEN Inflow(f, last) + f[last] + v[last]
           ELSE 0 - f[1] - v[0]
      start == IF 0 \in boundary.dirichlet THEN v[0] ELSE v[last] - Rise(k, f, J, last)
  IN [n \in Nodes |-> (start + Rise(k, f, J, n)) % P]
=============================================================================
