------------------------------ MODULE ErrorCalc ------------------------------
(***************************************************************************)
(* The error calculator (common/error_calc.cc): which solutions it has,    *)
(* which differences it gives to the assembler, which errors it looks up   *)
(* and returns, and which differences it writes.                           *)
(*                                                                         *)
(* The conditions on what exists are written out three times in the code:  *)
(* where the differences are registered, where the errors are looked up,   *)
(* and, through the containers, where the differences are written.         *)
(***************************************************************************)
EXTENDS FiniteSets

VARIABLES
  exact,      \* the problem has an exact solution
  vtk,        \* global.vtk_output
  comparison, \* msfem.fem_comparison
  msfem,      \* msfem_solution_ is not null
  fem,        \* fem_solution_ is not null
  solved,     \* the fine and the coarse solver of this run that returned
  content,    \* what the functions on the fine grid hold
  registered, \* the pairs of functions given to the assembler, by error
  csv,        \* the errors computed, by name
  written,    \* the differences written for visualisation
  pc

settings == <<exact, vtk, comparison>>
vars == <<settings, msfem, fem, solved, content, registered, csv, written, pc>>

FineFunction == {"coarse_fem", "msfem"}
Error == {"msfem_exact", "fem_exact", "coarse_fem_exact", "msfem_fem", "msfem_coarse_fem"}
NoErrors == [e \in {} |-> <<>>]

\* The functions on the fine grid begin as zero.
Init ==
  /\ exact \in BOOLEAN /\ vtk \in BOOLEAN /\ comparison \in BOOLEAN
  /\ msfem = FALSE /\ fem = FALSE
  /\ solved = {}
  /\ content = [f \in FineFunction |-> "zero"]
  /\ registered = NoErrors /\ csv = NoErrors
  /\ written = {}
  /\ pc = "construct"

---------------------------------------------------------------------------
(* The constructors                                                        *)

\* cgfem_algorithm: the fine solution, and no other; its solver may throw.
GiveFem ==
  /\ pc = "construct"
  /\ \/ fem' = TRUE /\ solved' = {"fem"} /\ pc' = "coarse"
     \/ pc' = "thrown" /\ UNCHANGED <<fem, solved>>
  /\ UNCHANGED <<settings, msfem, content, registered, csv, written>>

\* The multiscale solution. The fine one is solved for if the run is to be
\* compared with it; it is null if its solver throws a Dune::Exception. Other
\* exceptions, and those of the solver's constructor, are not caught.
GiveMsfem ==
  /\ pc = "construct"
  /\ msfem' = TRUE
  /\ \/ /\ fem' \in (IF comparison THEN BOOLEAN ELSE {FALSE})
        /\ solved' = IF fem' THEN {"fem"} ELSE {}
        /\ pc' = "coarse"
     \/ /\ comparison
        /\ pc' = "thrown"
        /\ UNCHANGED <<fem, solved>>
  /\ UNCHANGED <<settings, content, registered, csv, written>>

---------------------------------------------------------------------------
(* print(): the functions on the fine grid                                 *)

\* The coarse solution is prolonged to the fine grid.
SolveCoarse ==
  /\ pc = "coarse"
  /\ solved' = solved \cup {"coarse_fem"}
  /\ content' = [content EXCEPT !["coarse_fem"] = "coarse_fem"]
  /\ pc' = "project"
  /\ UNCHANGED <<settings, msfem, fem, registered, csv, written>>

\* The handler of Dune::Exception: the fine solution is forgotten. What threw is
\* the solver, or the output of a solution that is there.
CoarseFails ==
  /\ pc = "coarse"
  /\ \/ UNCHANGED <<solved, content>>
     \/ /\ vtk
        /\ solved' = solved \cup {"coarse_fem"}
        /\ content' = [content EXCEPT !["coarse_fem"] = "coarse_fem"]
  /\ fem' = FALSE
  /\ pc' = "project"
  /\ UNCHANGED <<settings, msfem, registered, csv, written>>

\* An exception of another type, or one while the grids are made, leaves print().
CoarseThrows ==
  /\ pc = "coarse"
  /\ pc' = "thrown"
  /\ UNCHANGED <<settings, msfem, fem, solved, content, registered, csv, written>>

\* The multiscale solution is projected, unless the grids do not match.
Project ==
  /\ pc = "project"
  /\ \/ /\ msfem
        /\ content' = [content EXCEPT !["msfem"] = "msfem"]
     \/ /\ ~msfem
        /\ UNCHANGED content
  /\ pc' = "register"
  /\ UNCHANGED <<settings, msfem, fem, solved, registered, csv, written>>

ProjectThrows ==
  /\ pc = "project"
  /\ msfem
  /\ pc' = "thrown"
  /\ UNCHANGED <<settings, msfem, fem, solved, content, registered, csv, written>>

---------------------------------------------------------------------------
(* print(): the errors                                                     *)

\* The functions an error is between.
Pair == [msfem_exact |-> <<"exact", "msfem">>, fem_exact |-> <<"exact", "fem">>,
         coarse_fem_exact |-> <<"exact", "coarse_fem">>, msfem_fem |-> <<"msfem", "fem">>,
         msfem_coarse_fem |-> <<"msfem", "coarse_fem">>]
Between(e) == Pair[e]

\* The two blocks that register differences.
AnalyticalErrors ==
  {e \in {"msfem_exact", "fem_exact", "coarse_fem_exact"} :
     /\ exact
     /\ e = "msfem_exact" => msfem
     /\ e = "fem_exact" => fem}

DiscreteErrors ==
  {e \in {"msfem_fem", "msfem_coarse_fem"} :
     /\ msfem
     /\ e = "msfem_fem" => fem}

RegisterAnalytical ==
  /\ pc = "register"
  /\ registered' = [e \in AnalyticalErrors |-> Between(e)]
  /\ pc' = "discrete"
  /\ UNCHANGED <<settings, msfem, fem, solved, content, csv, written>>

\* ... and the walk of the assembler over all that was added.
RegisterDiscrete ==
  /\ pc = "discrete"
  /\ registered' = [e \in (DOMAIN registered) \cup DiscreteErrors |->
                      IF e \in DiscreteErrors THEN Between(e) ELSE registered[e]]
  /\ pc' = "report"
  /\ UNCHANGED <<settings, msfem, fem, solved, content, csv, written>>

\* Wrong: the comparison of the two numerical solutions is outside of the
\* block of the multiscale one.
LookedUpFine ==
  {e \in Error :
     /\ e \in {"msfem_exact", "fem_exact", "coarse_fem_exact"} => exact
     /\ e \in {"msfem_exact", "msfem_coarse_fem"} => msfem
     /\ e \in {"fem_exact", "msfem_fem"} => fem}

\* Wrong: the comparison of the two fine solutions is left out.
LookedUpCoarse ==
  {e \in Error :
     /\ e \in {"msfem_exact", "fem_exact", "coarse_fem_exact"} => exact
     /\ e \in {"msfem_exact", "msfem_coarse_fem"} => msfem
     /\ e = "fem_exact" => fem
     /\ e /= "msfem_fem"}

\* The errors that are looked up, by the conditions at that place.
LookedUp ==
  {e \in Error :
     /\ e \in {"msfem_exact", "fem_exact", "coarse_fem_exact"} => exact
     /\ e \in {"msfem_exact", "msfem_coarse_fem", "msfem_fem"} => msfem
     /\ e \in {"fem_exact", "msfem_fem"} => fem}

\* What a function holds; the fine and the exact solution are not copied.
Holds(f) == IF f \in FineFunction THEN content[f] ELSE f

\* The value that the walk gave to an error that is looked up; at() throws for
\* one that was not registered.
Report ==
  /\ pc = "report"
  /\ IF LookedUp \subseteq DOMAIN registered
     THEN /\ csv' = [e \in LookedUp |-> [i \in {1, 2} |-> Holds(registered[e][i])]]
          /\ pc' = "write"
     ELSE /\ pc' = "thrown"
          /\ UNCHANGED csv
  /\ UNCHANGED <<settings, msfem, fem, solved, content, registered, written>>

\* The differences in the containers.
Written == IF vtk THEN DOMAIN registered ELSE {}

\* The differences are written for visualisation, then errors.csv; either may
\* throw, and then nothing is returned.
Write ==
  /\ pc = "write"
  /\ written' = Written
  /\ pc' = "done"
  /\ UNCHANGED <<settings, msfem, fem, solved, content, registered, csv>>

WriteThrows ==
  /\ pc = "write"
  /\ pc' = "thrown"
  /\ UNCHANGED <<settings, msfem, fem, solved, content, registered, csv, written>>

Next ==
  \/ GiveFem \/ GiveMsfem
  \/ SolveCoarse \/ CoarseFails \/ CoarseThrows \/ Project \/ ProjectThrows
  \/ RegisterAnalytical \/ RegisterDiscrete \/ Report \/ Write \/ WriteThrows

---------------------------------------------------------------------------
(* Properties                                                              *)

\* The solutions there are when a run returns: the multiscale one, the exact
\* one, and those whose solver returned.
Exists(f) == (f = "exact" /\ exact) \/ (f = "msfem" /\ msfem) \/ f \in solved

\* A run in which the coarse solution was found and no solution was forgotten
\* returns an error for every named pair of solutions that exist, and the
\* functions it was computed from held these solutions: neither the zero they
\* begin with nor anything else.  The differences that are written are those.
ErrorsOfAllSolutions ==
  (pc = "done" /\ "coarse_fem" \in solved /\ ("fem" \in solved => fem)) =>
    /\ DOMAIN csv = {e \in Error : \A i \in {1, 2} : Exists(Between(e)[i])}
    /\ csv = [e \in DOMAIN csv |-> Between(e)]
    /\ vtk => written = DOMAIN csv

\* print() never looks up an error that it has not registered, although the
\* conditions at the two places are written differently: at() does not throw.
LookupsSucceed == pc = "report" => LookedUp \subseteq DOMAIN registered
=============================================================================
