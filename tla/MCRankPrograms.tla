--------------------------- MODULE MCRankPrograms ---------------------------
(* Three ranks of every run of the two programs.                            *)
EXTENDS RankPrograms
CONSTANTS r1, r2, r3
MCRanks == {r1, r2, r3}
MCMains == MsfemMains \cup CgfemMains
=============================================================================
