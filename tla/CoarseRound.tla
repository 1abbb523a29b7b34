----------------------------- MODULE CoarseRound -----------------------------
(***************************************************************************)
(* The interior coarse cells of a rank in the order their view iterates    *)
(* over them, gone round and round by the local grid search.               *)
(***************************************************************************)
EXTENDS Naturals

CONSTANT N  \* number of interior coarse cells

ASSUME NAssumption == N \in Nat \ {0}

CoarseCells == 1 .. N
NoCell == 0

\* The cell after c on the round.
Following(c) == IF c = N THEN 1 ELSE c + 1

\* How far it is on the round from cell p to cell c.
Distance(p, c) == IF c >= p THEN c - p ELSE (c + N) - p

\* c is the first cell of q met from p on.
FirstFrom(p, q, c) ==
  /\ c \in q
  /\ \A d \in q : Distance(p, c) <= Distance(p, d)
=============================================================================
