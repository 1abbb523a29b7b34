--------------------------- MODULE GridsAndSearch ---------------------------
(***************************************************************************)
(* The local grids of a rank and the search through them: LocalGridList    *)
(* makes one grid per interior coarse cell before the solver is called     *)
(* (msfem_algorithm), and the projection's search goes round these grids   *)
(* once the fine grid is there.  Its constructor asks for as many cells as *)
(* the coarse space has interior ones (N), and view.size(0) counts all     *)
(* cells the rank holds (ViewSize).                                        *)
(***************************************************************************)
EXTENDS LocalGrids, LocalGridSearch

\* All cells of the rank's coarse grid.
Held == {c \in [Dims -> 0 .. MaxCells - 1] : \A i \in Dims : c[i] \in held[i]}

\* The grids that were built are those of a search over N cells out of ViewSize.
Searched ==
  /\ stage = "done"
  /\ Cardinality(DOMAIN grids) = N
  /\ Cardinality(Held) = ViewSize

ComposedInit == GridsInit /\ Init

Laid == GridsNext /\ UNCHANGED vars
Search == Searched /\ Next /\ UNCHANGED gridsVars

ComposedVars == <<gridsVars, vars>>
ComposedNext == Laid \/ Search
ComposedSpec == ComposedInit /\ [][ComposedNext]_ComposedVars

\* The call under way is executed.
FairSpec == ComposedSpec /\ WF_ComposedVars((Turn \/ Return) /\ UNCHANGED gridsVars)
=============================================================================
