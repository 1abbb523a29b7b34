----------------------------- MODULE ErrorReport -----------------------------
(***************************************************************************)
(* The end of a run: ErrorCalculator's constructor and print() (ErrorCalc), *)
(* which calls MsFEMProjection::project() (FineProjection) to evaluate the *)
(* multiscale solution on the fine grid.  The walk of the projection is    *)
(* parallel, print() is not; what throws in print() does so before the     *)
(* walk (match_check) or after it (the output).                            *)
(***************************************************************************)
EXTENDS FineProjection

VARIABLES
  exact, vtk, comparison, msfem, fem, solved, content, registered, csv, written,
  step   \* ErrorCalc's pc

Calc == INSTANCE ErrorCalc WITH pc <- step

calcVars == <<exact, vtk, comparison, msfem, fem, solved, content, registered, csv, written, step>>
reportVars == <<vars, calcVars>>

ReportInit == Init /\ Calc!Init

NotBegun == todo = FineCells
Projecting == step = "project" /\ msfem

\* A statement of the calculator: none while the walk is under way, and
\* print() goes on when project() returns.
Calculate ==
  /\ Calc!Next
  /\ Projecting => stage = "done" \/ (NotBegun /\ step' = "thrown")
  /\ UNCHANGED vars

\* A step of project().
Within(A) == Projecting /\ A /\ UNCHANGED calcVars

ReportNext == Calculate \/ Within(Next)

\* The calling thread goes on, and so do the walk and its threads.
ReportFairness ==
  /\ WF_reportVars(Calculate)
  /\ \A t \in Threads : WF_reportVars(Within(Search(t) \/ Write(t) \/ Leave(t)))
  /\ WF_reportVars(\E t \in Threads, f \in FineCells : Within(Visit(t, f)))
  /\ WF_reportVars(Within(Postprocess))

ReportSpec == ReportInit /\ [][ReportNext]_reportVars /\ ReportFairness

---------------------------------------------------------------------------
\* print() looks up no error that it has not registered (error_calc.cc:255-311).
LookupsSucceed == Calc!LookupsSucceed

\* The errors that are returned and written are those of all solutions there
\* are, computed from functions that held them (error_calc.cc:190-321).
ErrorsOfAllSolutions == Calc!ErrorsOfAllSolutions

\* A run that is to report its errors returns them or throws: the projection
\* ends on every thread and print() goes on behind it.
ReportEnds == <>(step \in {"done", "thrown"})
=============================================================================
