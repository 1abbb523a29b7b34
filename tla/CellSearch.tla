----------------------------- MODULE CellSearch -----------------------------
(***************************************************************************)
(* What a LocalGridSearch promises: one call finds, among the interior     *)
(* coarse cells that contain all its points, the first one met when going  *)
(* round from where the previous call stopped, and remembers it as the     *)
(* current cell.  Only points no cell contains make a call fail, and then  *)
(* nothing is remembered of it.                                            *)
(***************************************************************************)
EXTENDS CoarseRound

VARIABLES
  at,       \* the cell the next call looks at first
  current   \* the cell the last call found its points in

vars == <<at, current>>

Init ==
  /\ at = 1
  /\ current = NoCell

\* A search for points that exactly the cells of q contain.
Search(q) ==
  \E c \in CoarseCells :
    /\ FirstFrom(at, q, c)
    /\ current' = c
    /\ at' = Following(c)

Next == \E q \in SUBSET CoarseCells : Search(q)

Spec == Init /\ [][Next]_vars
=============================================================================
