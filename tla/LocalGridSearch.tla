--------------------------- MODULE LocalGridSearch ---------------------------
(***************************************************************************)
(* LocalGridSearch::operator(): the search of points in the local grids,   *)
(* one object, used by one thread (LocalsolutionProxy keeps one per        *)
(* thread).                                                                *)
(*                                                                         *)
(* The object keeps its iterator over the interior coarse cells from call  *)
(* to call and goes round.  A cell that contains ALL points is searched    *)
(* with its own EntityInlevelSearch, which finds every point because the   *)
(* cell's local grid covers the cell.  The iterator is advanced, and the   *)
(* rounds are counted, AFTER a cell was searched, also after a successful  *)
(* search.  A call whose rounds are used up throws, and the exception      *)
(* leaves the algorithm: the object is not called again.                   *)
(***************************************************************************)
EXTENDS CoarseRound

CONSTANTS
  ViewSize,   \* view.size(0): all cells of the grid, the overlap included
  Queries     \* the sets of cells that contain all points of some call

ASSUME ViewAssumption == ViewSize \in Nat /\ ViewSize >= N
ASSUME QueriesAssumption == Queries \subseteq SUBSET CoarseCells

VARIABLES
  pc,         \* "ready" for a call, in its "loop", or "thrown"
  query,      \* the cells that contain the points of the current call
  it,         \* *static_iterator_: a cell, End, or Unset before the first call
  steps,      \* rounds completed in this call
  null,       \* null_count > 0: points of this call are not found yet
  from,       \* the cell whose local grid the entities found belong to
  pointer,    \* current_coarse_entity_
  searches,   \* cells with an EntityInlevelSearch, coarse_searches_
  start,      \* history: the cell the last call looked at first
  before,     \* history: the current cell when it began
  looked      \* history: how many cells it has looked at, N + 1 if more than N

vars == <<pc, query, it, steps, null, from, pointer, searches, start, before, looked>>

Unset == 0
End == N + 1

Init ==
  /\ pc = "ready"
  /\ query = {}
  /\ it = Unset
  /\ steps = 0
  /\ null = FALSE
  /\ from = NoCell
  /\ pointer = NoCell
  /\ searches = {}
  /\ start = 1
  /\ before = NoCell
  /\ looked = 0

\* Wrong: every call begins with the first cell.
BeginsAnew == 1

\* Where a call begins; the first one makes the iterator.
Begins == IF it = Unset THEN 1 ELSE it

Call(q) ==
  /\ pc = "ready"
  /\ pc' = "loop"
  /\ query' = q
  /\ it' = Begins
  /\ start' = it'
  /\ before' = pointer
  /\ steps' = 0
  /\ null' = TRUE
  /\ from' = NoCell
  /\ looked' = 0
  /\ UNCHANGED <<pointer, searches>>

\* Wrong: a cell is only searched when it is met again.
CoversSearched == it \in query /\ it \in searches

\* covers_strict
Covers == it \in query

\* Wrong: the current cell is only set together with its search.
KeepsCurrent == pointer' = IF it \in searches THEN pointer ELSE it

MakesCurrent == pointer' = it

\* Wrong: no test for the end; rounds not counted; one round only.
AdvancePastEnd == it' = it + 1 /\ UNCHANGED <<pc, steps>>
AdvanceForever == it' = Following(it) /\ UNCHANGED <<pc, steps>>
AdvanceOnce ==
  IF it + 1 # End
  THEN it' = it + 1 /\ UNCHANGED <<pc, steps>>
  ELSE it' = End /\ steps' = steps + 1 /\ pc' = "thrown"

\* The iterator advances; at the end a round is completed, and the next one
\* begins or, when as many were made as there are cells, the call throws.
Advance ==
  IF it + 1 # End
  THEN it' = it + 1 /\ UNCHANGED <<pc, steps>>
  ELSE /\ steps' = steps + 1
       /\ it' = IF steps' < ViewSize THEN 1 ELSE End
       /\ pc' = IF steps' < ViewSize THEN pc ELSE "thrown"

\* One turn of the loop: the cell becomes the current one, is searched if it
\* contains all points, and the iterator advances.
Turn ==
  /\ pc = "loop"
  /\ null
  /\ MakesCurrent
  /\ searches' = searches \cup {it}
  /\ looked' = IF looked <= N THEN looked + 1 ELSE looked
  /\ null' = ~Covers
  /\ from' = IF Covers THEN it ELSE from
  /\ Advance
  /\ UNCHANGED <<query, start, before>>

\* All points are found: the entities are returned.
Return ==
  /\ pc = "loop"
  /\ ~null
  /\ pc' = "ready"
  /\ UNCHANGED <<query, it, steps, null, from, pointer, searches, start, before, looked>>

Next ==
  \/ \E q \in Queries : Call(q)
  \/ Turn
  \/ Return

Spec == Init /\ [][Next]_vars

---------------------------------------------------------------------------
TypeOK ==
  /\ pc \in {"ready", "loop", "thrown"}
  /\ query \in SUBSET CoarseCells
  /\ it \in Unset .. End
  /\ steps \in 0 .. ViewSize
  /\ null \in BOOLEAN
  /\ from \in NoCell .. N
  /\ pointer \in NoCell .. N
  /\ searches \in SUBSET CoarseCells
  /\ start \in CoarseCells
  /\ before \in NoCell .. N
  /\ looked \in 0 .. N + 1

\* assert(it != end) at the head of the loop, over all sequences of calls.
IteratorValid == pc = "loop" => it \in CoarseCells

\* What LocalsolutionProxy::local_function relies on: after a call the current
\* cell is the one whose local grid the returned entities belong to, and it
\* contains the points of that call, not of an earlier one.
CurrentCellMatches ==
  pc = "ready" /\ it # Unset => pointer = from /\ pointer \in query

\* A call throws only if no interior coarse cell contains its points.
SearchSucceeds == pc = "thrown" => query = {}

\* A search that can succeed never looks at a cell twice.
OneRoundSuffices == query # {} => looked <= N

\* Every call ends.
CallEnds == pc = "loop" ~> pc # "loop"

\* A call takes effect when its points are found.
Pending == pc = "thrown" \/ (pc = "loop" /\ null)

Abstract == INSTANCE CellSearch WITH
              at <- (IF Pending THEN start ELSE IF it = Unset THEN 1 ELSE it),
              current <- (IF Pending THEN before ELSE pointer)

\* A call is one atomic search that goes round from where the last one stopped.
ImplementsCellSearch == Abstract!Spec
=============================================================================
