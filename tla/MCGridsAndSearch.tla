--------------------------- MODULE MCGridsAndSearch ---------------------------
(* Small instances of the local grids and the search through them for TLC.  *)
EXTENDS GridsAndSearch

\* Points inside one cell, on the face two neighbours share, on the vertex
\* four cells share, and points no interior cell contains.
MCQueries == { q \in SUBSET CoarseCells : q = CoarseCells \/ q = {} \/ \E c \in q : q \subseteq {c, c + 1} }
=============================================================================
