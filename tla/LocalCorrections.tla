-------------------------- MODULE LocalCorrections --------------------------
(***************************************************************************)
(* The data of one MsFEM run, reduced to what its correctness depends on.  *)
(*                                                                         *)
(* A local function is known by the run whose local problem it solves (0:  *)
(* the zero function) and by how often it was multiplied with a dof of the *)
(* coarse solution.  A correction is the set of the terms added up in it;  *)
(* a term either vanishes outside its coarse cell ("cell") or is there on  *)
(* the whole, oversampled local grid ("grid").                             *)
(***************************************************************************)
EXTENDS Naturals, Sequences

CONSTANTS
  Cells,          \* the interior coarse cells of this rank
  BoundaryCells,  \* those with boundary intersections
  NumDofs,        \* shape functions of a coarse cell, maxNumDofs
  Oversampling    \* msfem.oversampling_layers > 0

ASSUME CellsAssumption == BoundaryCells \subseteq Cells
ASSUME DofsAssumption == NumDofs \in Nat \ {0}
ASSUME OversamplingAssumption == Oversampling \in BOOLEAN

\* The local problems of a cell: one per coarse shape function, then the two
\* boundary correctors (indices numInnerCorrectors and numInnerCorrectors + 1).
InnerSlots == 1 .. NumDofs
NeumannSlot == NumDofs + 1
DirichletSlot == NumDofs + 2
Slots == 1 .. NumDofs + 2

\* The prolonged coarse solution, which no local problem belongs to.
CoarsePart == 0

Function == [run : Nat, scale : Nat]
Zero == [run |-> 0, scale |-> 0]
Solved(r) == [run |-> r, scale |-> 0]
Scaled(f) == [f EXCEPT !.scale = @ + 1]

\* What solve_all_on_single_cell leaves: all problems solved, the boundary
\* correctors of a cell without boundary intersections zero.
LocalSolutions(r, c) ==
  [s \in Slots |-> IF s \in InnerSlots \/ c \in BoundaryCells THEN Solved(r) ELSE Zero]

Term(what, sign, f, on) == [what |-> what, sign |-> sign, f |-> f, on |-> on]

\* += and -= of a vector; a zero function adds nothing.
Plus(what, f, on) == IF f.run = 0 THEN {} ELSE { Term(what, "plus", f, on) }
Minus(what, f, on) == IF f.run = 0 THEN {} ELSE { Term(what, "minus", f, on) }

\* The result every run owes each cell: the prolonged coarse solution, the
\* inner correctors, each weighted once and restricted to the cell, plus the
\* Dirichlet and minus the Neumann corrector where the cell touches the
\* boundary, all of them solutions of this very run.
Reconstruction(r, c) ==
  { Term(CoarsePart, "plus", Solved(r), "grid") }
    \cup { Term(s, "plus", Scaled(Solved(r)), IF Oversampling THEN "cell" ELSE "grid") :
             s \in InnerSlots }
    \cup IF c \in BoundaryCells
         THEN { Term(DirichletSlot, "plus", Solved(r), "grid"),
                Term(NeumannSlot, "minus", Solved(r), "grid") }
         ELSE {}
=============================================================================
