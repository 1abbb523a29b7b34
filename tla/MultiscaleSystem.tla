--------------------------- MODULE MultiscaleSystem ---------------------------
(***************************************************************************)
(* The equations a MsFEM run solves: the local problems of the coarse      *)
(* cells, the coarse system made of their solutions, and the corrections   *)
(* put together from both.  Which solution is in which slot, with which    *)
(* sign it is used, what is cut off and which rows are constrained is      *)
(* spread over five files, and wrong only together.                        *)
(*                                                                         *)
(* The cells are assembled by several threads in any order; a cell's       *)
(* additions to the shared matrix and vector are one step, as the rows are *)
(* locked and additions commute.  MsfemSolver has the steps around this.   *)
(***************************************************************************)
EXTENDS IntervalFem

CONSTANTS
  Diffusions,  \* bound: the coefficients looked at, [Entities -> 1 .. P - 1]
  Sources,     \* bound: the right hand sides, half of f, [Entities -> Field]
  Boundaries,  \* bound: the boundaries looked at, BoundaryData below
  Layers       \* bound: the numbers of oversampling layers

SubInfos == {"AllDirichlet", "NormalBased"}

\* value: the data that count at the ends, Dirichlet's or Neumann's; neumann: what
\* NeumannData has there, also at a Dirichlet end; the Dirichlet ends; and
\* subBoundaryInfo.
BoundaryData ==
  [value : [Ends -> Field], neumann : [Ends -> Field], dirichlet : (SUBSET Ends) \ {{}}, sub : SubInfos]

ASSUME DataAssumption ==
  /\ Diffusions \subseteq [Entities -> 1 .. P - 1] /\ Sources \subseteq [Entities -> Field]
  /\ Boundaries \subseteq BoundaryData
  /\ Layers \subseteq Nat

VARIABLES
  k, f, boundary, layers,  \* the problem
  pc,
  todo,        \* cells the walk under way has not come to
  local,       \* the local solutions of a cell, by slot
  matrix, rhs, \* global_matrix_ and msfem_rhs_
  shift,       \* dirichlet_projection_
  coarse,      \* the coarse solution
  correction   \* local_corrections

data == <<k, f, boundary, layers>>
system == <<matrix, rhs, shift>>
vars == <<data, pc, todo, local, system, coarse, correction>>

\* The slots of a cell's local solutions: one per coarse shape function, then
\* the boundary correctors.
Inner == {0, 1}
NeumannSlot == 2
DirichletSlot == 3
Slots == 0 .. 3

ZeroSystem ==
  /\ matrix = [i \in CoarseNodes |-> [j \in CoarseNodes |-> 0]]
  /\ rhs = [i \in CoarseNodes |-> 0]
  /\ shift = [i \in CoarseNodes |-> 0]

Init ==
  /\ k \in Diffusions /\ f \in Sources /\ boundary \in Boundaries /\ layers \in Layers
  /\ pc = "local"
  /\ todo = Cells
  /\ local = [c \in Cells |-> [s \in Slots |-> ZeroFunction]]
  /\ ZeroSystem
  /\ coarse = [i \in CoarseNodes |-> 0]
  /\ correction = [c \in Cells |-> ZeroFunction]

Micros(c) == {e \in Entities : At(c - 1) < e /\ e <= At(c)}
Touched(es) == es \cup {e - 1 : e \in es}

\* The dofs of a coarse cell in the order of its shape functions.
Dof(c, s) == c - 1 + s
HasBoundaryIntersections(c) == \E s \in Inner : At(Dof(c, s)) \in Ends

DirichletNodes == {i \in CoarseNodes : At(i) \in boundary.dirichlet}
Flux(n) == IF n \in Ends \ boundary.dirichlet THEN boundary.value[n] ELSE 0

\* The Dirichlet projection: the values in the Dirichlet nodes of the cells cs.
Projected(cs, x) ==
  [i \in CoarseNodes |->
     IF i \in DirichletNodes /\ \E c \in cs, s \in Inner : Dof(c, s) = i
     THEN boundary.value[At(i)] ELSE x[i]]

---------------------------------------------------------------------------
(* LocalProblemOperator, BoundaryValueHelper, LocalProblemSolver           *)

Patch(c) == {e \in Entities : At(c - 1) - layers < e /\ e <= At(c) + layers}

\* Wrong: the shape functions end with their cell.
ClippedBasis(c, s) ==
  [n \in Nodes |->
     IF n \in Touched(Micros(c))
     THEN ((IF s = 0 THEN At(c) - n ELSE n - At(c - 1)) * Reciprocal(Micro)) % P ELSE 0]

\* A shape function of cell c; its gradient is used on all of the patch.
CoarseBasis(c, s) ==
  [n \in Nodes |->
     ((IF s = 0 THEN At(c) - n ELSE n - At(c - 1)) * Reciprocal(Micro)) % P]

\* Wrong: the sign of the right hand side.
WrongSign(c, direction, n) ==
  Total([e \in Patch(c) |-> Energy(k, direction, Hat(n), e)], Patch(c))

\* CoarseBasisProduct and DirichletProduct, integrated against a test function.
MinusEnergy(c, direction, n) ==
  Total([e \in Patch(c) |-> 0 - Energy(k, direction, Hat(n), e)], Patch(c))
CoarseBasisProduct(c, s, n) == MinusEnergy(c, CoarseBasis(c, s), n)
DirichletProduct(c, n) ==
  MinusEnergy(c, Prolonged(Projected(Cells, [i \in CoarseNodes |-> 0])), n)

\* The two right hand sides BoundaryValueHelper adds; the Neumann functional is
\* added on all faces here, on those of the Neumann boundary by Flux only.
BoundaryProduct(c, s, n) ==
  IF ~HasBoundaryIntersections(c) THEN 0
  ELSE IF s = DirichletSlot THEN DirichletProduct(c, n)
  ELSE IF n \in Ends THEN boundary.neumann[n] ELSE 0

LocalMatrix(c) ==
  [m \in Nodes |-> [n \in Nodes |->
     Total([e \in Patch(c) |-> Energy(k, Hat(m), Hat(n), e)], Patch(c))]]
LocalRhs(c, s) ==
  [n \in Nodes |-> IF s \in Inner THEN CoarseBasisProduct(c, s, n) ELSE BoundaryProduct(c, s, n)]

\* Where the local problems are zero: on the border of the local grid, or on
\* the faces whose normal is that of a Dirichlet face of the domain.
LocalBorder(c) ==
  LET faces == [n \in Ends |-> IF n = 0 THEN Min(Touched(Patch(c))) ELSE Max(Touched(Patch(c)))]
  IN {faces[n] : n \in IF boundary.sub = "AllDirichlet" THEN Ends ELSE boundary.dirichlet}

\* The local system after the constraints.
AssembledMatrix(c) == ConstrainedMatrix(LocalMatrix(c), LocalBorder(c), Touched(Patch(c)))
AssembledRhs(c, s) == ConstrainedVector(LocalRhs(c, s), LocalBorder(c), Touched(Patch(c)))

\* No problem is solved for the boundary correctors of an interior cell.
IsSolved(c, s) == s \in Inner \/ HasBoundaryIntersections(c)

SolveAllOnSingleCell(c) ==
  [s \in Slots |->
     IF ~IsSolved(c, s) THEN ZeroFunction
     ELSE LET x == Solution(AssembledMatrix(c), AssembledRhs(c, s), Touched(Patch(c)))
          IN [n \in Nodes |-> IF n \in DOMAIN x THEN x[n] ELSE 0]]

\* The local solutions depend on nothing another cell does: in order.
SolveLocal ==
  /\ pc = "local"
  /\ LET c == Min(todo) IN
     IF \A s \in Slots : IsSolved(c, s) => Solves(AssembledMatrix(c), AssembledRhs(c, s), Touched(Patch(c)))
     THEN /\ local' = [local EXCEPT ![c] = SolveAllOnSingleCell(c)]
          /\ todo' = IF todo = {c} THEN Cells ELSE todo \ {c}
          /\ pc' = IF todo = {c} THEN "assemble" ELSE pc
     ELSE pc' = "thrown" /\ UNCHANGED <<local, todo>>
  /\ UNCHANGED <<data, system, coarse, correction>>

---------------------------------------------------------------------------
(* CoarseScaleOperator                                                     *)

\* A shape function with its corrector.
Reconstruction(c, s) == Plus(CoarseBasis(c, s), local[c][s])

\* Wrong: the overlay is assembled, too.
WithOverlay(c) == Patch(c)

\* The micro cells of the local grid that are not overlay.
Covered(c) == {e \in Patch(c) : e \in Micros(c)}

\* MsFEMCodim0Integral, over the covered part.
MatrixIntegral(c, s, t) ==
  Total([e \in Covered(c) |-> Energy(k, Reconstruction(c, s), Reconstruction(c, t), e)], Covered(c))

\* The entries one cell adds.
MatrixBlock(c, i, j) ==
  IF \E s, t \in Inner : i = Dof(c, s) /\ j = Dof(c, t)
  THEN MatrixIntegral(c, i - Dof(c, 0), j - Dof(c, 0)) ELSE 0

\* Wrong: the slots of the two boundary correctors, the other way round.
SwappedSlots(c) == Combination(1, local[c][NeumannSlot], 0 - 1, local[c][DirichletSlot])

\* The direction of the boundary part: Dirichlet minus Neumann corrector.
DirectionOfFlux(c) == Combination(1, local[c][DirichletSlot], 0 - 1, local[c][NeumannSlot])

\* testBase.evaluate(x): x is a point of the reference cell of micro cell e, not
\* of the coarse cell, so that a shape function of the coarse cell gives its
\* range of values on every micro cell anew.  Its gradient is the same anywhere.
TestBase(e, s) == Hat(e - 1 + s)

\* RhsCodim0Integral, over the covered part.
RhsIntegral(c, s) ==
  Total([e \in Covered(c) |->
           Load(f, Plus(TestBase(e, s), local[c][s]), e)
             - Energy(k, DirectionOfFlux(c), Reconstruction(c, s), e)], Covered(c))

\* The entries one cell adds, with those of the Neumann functional.
RhsBlock(c, i) ==
  IF \E s \in Inner : i = Dof(c, s) THEN RhsIntegral(c, i - Dof(c, 0)) + Flux(At(i)) ELSE 0

\* One cell of the first walk.
WalkCell(c) ==
  /\ pc = "assemble"
  /\ c \in todo
  /\ matrix' = [i \in CoarseNodes |->
                  [j \in CoarseNodes |-> (matrix[i][j] + MatrixBlock(c, i, j)) % P]]
  /\ rhs' = [i \in CoarseNodes |-> (rhs[i] + RhsBlock(c, i)) % P]
  /\ shift' = Projected({c}, shift)
  /\ todo' = todo \ {c}
  /\ UNCHANGED <<data, pc, local, coarse, correction>>

\* tmp: what the operator makes of the Dirichlet values.
LiftedValues == Apply(matrix, shift, CoarseNodes)

\* The rest of the constructor: lift, and restrict to the free dofs.
Constrain ==
  /\ pc = "assemble"
  /\ todo = {}
  /\ rhs' = ConstrainedVector([i \in CoarseNodes |-> (rhs[i] - LiftedValues[i]) % P],
                              DirichletNodes, CoarseNodes)
  /\ matrix' = ConstrainedMatrix(matrix, DirichletNodes, CoarseNodes)
  /\ pc' = "solve"
  /\ UNCHANGED <<data, todo, local, shift, coarse, correction>>

\* solution += dirichlet_projection_
Shifted(x) == [i \in CoarseNodes |-> (x[i] + shift[i]) % P]

\* apply_inverse: "Coarse solve failed." leaves the run.
ApplyInverse ==
  /\ pc = "solve"
  /\ IF Solves(matrix, rhs, CoarseNodes)
     THEN /\ coarse' = Shifted(Solution(matrix, rhs, CoarseNodes))
          /\ todo' = Cells
          /\ pc' = "identify"
     ELSE pc' = "thrown" /\ UNCHANGED <<coarse, todo>>
  /\ UNCHANGED <<data, local, system, correction>>

---------------------------------------------------------------------------
(* identify_fine_scale_part                                                *)

\* The correctors weighted with the dofs of the coarse solution.
InnerPart(c) ==
  Combination(coarse[Dof(c, 0)], local[c][0], coarse[Dof(c, 1)], local[c][1])

\* Oversampled correctors are restricted to the cell.
Cut(c, v) ==
  IF layers = 0 THEN v ELSE [n \in Nodes |-> IF n \in Touched(Micros(c)) THEN v[n] ELSE 0]

IdentifyCell ==
  /\ pc = "identify"
  /\ LET c == Min(todo) IN
     /\ correction' = [correction EXCEPT ![c] = Plus(Cut(c, InnerPart(c)), DirectionOfFlux(c))]
     /\ todo' = todo \ {c}
     /\ pc' = IF todo = {c} THEN "done" ELSE pc
  /\ UNCHANGED <<data, local, system, coarse>>

Next == SolveLocal \/ (\E c \in Cells : WalkCell(c)) \/ Constrain \/ ApplyInverse \/ IdentifyCell

Spec == Init /\ [][Next]_vars

---------------------------------------------------------------------------
\* The assembled coarse operator is one of diffusion, with and without
\* oversampling: it is symmetric and maps constants to zero, since the
\* correctors of a cell's shape functions add up to nothing.  With Dirichlet
\* values somewhere its system has a solution, unless subBoundaryInfo leaves a
\* border of the local grids free: there the correctors take the shape
\* functions' whole gradient away (spe10.cc:35, tarbert.cc:25, localoperator.cc:102).
DiffusionOperator ==
  /\ pc = "assemble" /\ todo = {} =>
       /\ \A i, j \in CoarseNodes : matrix[i][j] = matrix[j][i]
       /\ \A i \in CoarseNodes : Total(matrix[i], CoarseNodes) = 0
  /\ LET free == \E c \in Cells : Cardinality(LocalBorder(c)) < 2
     IN (pc = "thrown" => free) /\ (pc \in {"identify", "done"} => ~free)

\* The sources whose load on a coarse cell does not depend on where in it a
\* shape function has which value.
EvenSource == \A c \in Cells : \A d, e \in Micros(c) : f[d] = f[e]

\* The coarse solution on a cell with all correctors, and what is left of the
\* weak equation there for a corrected shape function.
Whole(c) ==
  Plus(Combination(coarse[Dof(c, 0)], Reconstruction(c, 0), coarse[Dof(c, 1)], Reconstruction(c, 1)),
       DirectionOfFlux(c))
Residual(c, s) ==
  Total([e \in Micros(c) |->
           Load(f, Reconstruction(c, s), e) - Energy(k, Whole(c), Reconstruction(c, s), e)], Micros(c))

\* The weak equation for the corrected shape functions.
Orthogonal ==
  pc \in {"identify", "done"} =>
    \A i \in CoarseNodes :
      IF i \in DirichletNodes THEN coarse[i] = boundary.value[At(i)]
      ELSE ((IF i \in Cells THEN Residual(i, 1) ELSE 0)
             + (IF i + 1 \in Cells THEN Residual(i + 1, 0) ELSE 0) + Flux(At(i))) % P = 0

\* The coarse solution, with all correctors, satisfies the weak equation for
\* every corrected shape function of a free dof, and has the given values in
\* the Dirichlet nodes: what is lifted, constrained and shifted back in
\* coarse_scale_operator.cc fits what is assembled.
GalerkinOrthogonal == EvenSource => Orthogonal

\* The same for any source: "we assume, that the quadrature points on the
\* subgrid and hostgrid are the same" (coarse_rhs_functional.cc:95).
QuadraturePointsAgree == Orthogonal

\* What the correctors of a cell's shape functions already have of the Dirichlet
\* values in its coarse nodes.
BoundaryExcess(c) ==
  LET given(s) == IF Dof(c, s) \in DirichletNodes THEN boundary.value[At(Dof(c, s))] ELSE 0
  IN Combination(given(0), local[c][0], given(1), local[c][1])

\* A cell without source: there the coarse solution and its correction should
\* make the fine solution.
SourceFree(c) == \A e \in Micros(c) : f[e] = 0

\* Without oversampling, the coarse solution and the correction LocalsolutionProxy
\* is given for a cell without source make the fine solution there, in a
\* boundary cell up to one thing exactly: what its Dirichlet values contribute to
\* the correctors is in the correction twice, as the boundary corrector
\* (msfem_solver.cc:103) and in the weighted ones (:77); the Neumann corrector
\* taken off (:105) is nothing.
ReconstructionExact ==
  pc = "done" /\ layers = 0 /\ EvenSource =>
    \A c \in Cells : SourceFree(c) =>
      \A n \in Touched(Micros(c)) :
        (Prolonged(coarse)[n] + correction[c][n]) % P
          = (FineSolution(k, f, boundary)[n] + BoundaryExcess(c)[n]) % P

\* The same with nothing twice, as if the boundary correctors were, as the
\* program writes, "broken and disabled" (msfem_solver.cc:116).
BoundaryCellsExact ==
  pc = "done" /\ layers = 0 /\ EvenSource =>
    \A c \in Cells : SourceFree(c) =>
      \A n \in Touched(Micros(c)) :
        (Prolonged(coarse)[n] + correction[c][n]) % P = FineSolution(k, f, boundary)[n]
=============================================================================
