--------------------------- MODULE MCMsfemSolver ---------------------------
(* A small instance of MsfemSolver for TLC. *)
EXTENDS MsfemSolver

CONSTANTS t1, t2, t3, c1, c2, c3

MCThreads == {t1, t2, t3}
MCCells == {c1, c2, c3}

\* c3 is the only cell away from the domain's boundary.
MCBoundary == {c1, c2}

=============================================================================
