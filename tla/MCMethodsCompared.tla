-------------------------- MODULE MCMethodsCompared --------------------------
(***************************************************************************)
(* MethodsCompared for TLC: three coarse cells, the middle one without     *)
(* boundary intersections.                                                 *)
(***************************************************************************)
EXTENDS MethodsCompared, ModelProblems

\* The linear solver: elimination of the columns cols, row by row, with the same
\* steps for the unit matrix.
RECURSIVE Eliminated(_, _, _, _)
Eliminated(A, B, cols, S) ==
  LET p == Min(cols)
      pivots == {i \in cols : A[i][p] # 0}
      r == Min(pivots)
      scale == Reciprocal(A[r][p])
      Reduced(M) ==
        LET row == [j \in S |-> (M[r][j] * scale) % P]
        IN [i \in S |-> LET l == IF i = r THEN p ELSE i
                        IN IF i = p THEN row ELSE [j \in S |-> (M[l][j] - A[l][p] * row[j]) % P]]
  IN IF cols = {} \/ A \notin [S -> [S -> Field]] \/ B \notin [S -> [S -> Field]] \/ pivots = {}
     THEN B ELSE Eliminated(Reduced(A), Reduced(B), cols \ {p}, S)

MCInverted(A, S) == Eliminated(A, [i \in S |-> [j \in S |-> IF i = j THEN 1 ELSE 0]], S, S)

MCDiffusions == {d \in [Entities -> {1, 3}] : d[1] = 1}
\* A source that is constant on coarse cells and zero on the first, which has
\* boundary intersections, and the second, which has none; and one that varies
\* in every coarse cell.
MCSources == {[e \in Entities |-> IF e > 2 * Micro THEN 1 ELSE 0], [e \in Entities |-> e]}
MCValues == [n \in Ends |-> n + 2]
\* A problem yet to be written, with Dirichlet or Neumann data at each end, and
\* those there are, also with Neumann data configured for one more face.
MCBoundaries ==
  {[value |-> MCValues, neumann |-> MCValues, dirichlet |-> D, sub |-> "AllDirichlet"] : D \in (SUBSET Ends) \ {{}}}
    \cup ProblemBoundaries
MCConfigs == {[default |-> "dirichlet", others |-> {<<0, 1>>}]}
=============================================================================
