------------------------------ MODULE Reservoir ------------------------------
(***************************************************************************)
(* The diffusion of the two reservoir problems, problems/spe10.cc and      *)
(* problems/tarbert.cc: both read a table of permeabilities, one part per  *)
(* direction, and evaluate() looks a point's block up in it.  The threads  *)
(* of an assembly evaluate at the same time.  SPE10 works on locals;       *)
(* Tarbert's evaluate() keeps its indices and its result in members that   *)
(* all threads share, and reads and writes them one number at a time.      *)
(*                                                                         *)
(* Coordinates are counted in parts of a block, blocks in parts of Ticks.  *)
(* An entry of the table is known by its place in it, from 0.              *)
(***************************************************************************)
EXTENDS Integers, FiniteSets

CONSTANTS
  Threads,    \* threads that may evaluate
  Blocks,     \* model2_x_elements, .._y_.., .._z_..: blocks per direction
  Ticks,      \* parts of a block
  Points,     \* bound: the points that are evaluated
  Files       \* bound: the numbers of entries a data file has

Dims == 0..2
Size == Blocks[0] * Blocks[1] * Blocks[2]     \* entries_per_dim

ASSUME ReservoirAssumption ==
  /\ IsFiniteSet(Threads)
  /\ Blocks \in [Dims -> Nat \ {0}] /\ Ticks \in Nat \ {0}
  /\ \A p \in Points : \A d \in Dims : p[d] \in 0 .. Ticks * Blocks[d]
  /\ Files \subseteq 0 .. 3 * Size

VARIABLES
  problem,     \* "SPE10" or "Tarbert"
  workers,     \* the threads of this run
  file,        \* entries in the data file; Missing if there is none, Broken if
               \* one of them is not a number
  permeability,\* entries read into permeability_; Missing for the null pointer
  stage,       \* of the diffusion: "construct", "ready", "thrown" or "crashed"
  intervals,   \* Tarbert's permIntervalls_
  matrix,      \* the diagonal of Tarbert's permMatrix_
  pc, dim, point, offset,  \* of each thread inside evaluate()
  value        \* what its last evaluation returned, nothing during the next one
shared == <<problem, workers, file, permeability, stage>>
vars == <<shared, intervals, matrix, pc, dim, point, offset, value>>

Missing == -1
Unset == -2       \* memory nothing was read into
Outside == -3     \* beyond the table
Broken == -4

Nothing == [d \in Dims |-> Unset]
Inner(p) == \A d \in Dims : p[d] < Ticks * Blocks[d]

ReservoirInit ==
  /\ problem \in {"SPE10", "Tarbert"}
  /\ workers \in (SUBSET Threads) \ {{}}
  /\ file \in Files \cup {Missing, Broken}
  /\ permeability = Missing
  /\ stage = "construct"
  /\ intervals = [d \in Dims |-> 0]
  /\ matrix = Nothing
  /\ pc = [t \in Threads |-> "idle"] /\ dim = [t \in Threads |-> 0]
  /\ point \in {[t \in Threads |-> p] : p \in {CHOOSE p \in Points : TRUE}}
  /\ offset = [t \in Threads |-> 0]
  /\ value = [t \in Threads |-> Nothing]

Complete(n) == n = 3 * Size

\* The constructors: SPE10's throws unless all entries are there.
ReadSPE10 ==
  /\ problem = "SPE10" /\ stage = "construct"
  /\ permeability' = file
  /\ stage' = IF Complete(file) THEN "ready" ELSE "thrown"
  /\ UNCHANGED <<problem, workers, file, intervals, matrix, pc, dim, point, offset, value>>

\* Tarbert's goes on without the file, and with as many entries as it has; it
\* drops the last one if reading that meets the end of the file.  At something that
\* is no number it stops reading before the end, and writes past the table.
ReadTarbert ==
  /\ problem = "Tarbert" /\ stage = "construct"
  /\ \/ /\ file # Broken
        /\ permeability' \in {file} \cup (IF file > 0 THEN {file - 1} ELSE {})
        /\ stage' = "ready"
     \/ /\ file = Broken
        /\ stage' = "crashed" /\ UNCHANGED permeability
  /\ UNCHANGED <<problem, workers, file, intervals, matrix, pc, dim, point, offset, value>>

Entry(i) == IF i >= 3 * Size THEN Outside ELSE IF i >= permeability THEN Unset ELSE i

\* Wrong: the strides of another order of the directions.
OtherStride(d) == IF d = 0 THEN 1 ELSE IF d = 1 THEN Blocks[1] ELSE Blocks[1] * Blocks[0]

\* How far apart the entries of neighbouring blocks are.
Stride(d) == IF d = 0 THEN 1 ELSE IF d = 1 THEN Blocks[0] ELSE Blocks[1] * Blocks[0]

\* The place of a block in the part of its direction.
Subdomain(b) == b[0] * Stride(0) + b[1] * Stride(1) + b[2] * Stride(2)

\* The permeability of direction d at a place.
InDirection(d, i) == Entry(i + d * Size)

---------------------------------------------------------------------------
(* SPE10::Diffusion::evaluate                                              *)

\* Wrong: a point on the upper right is given a block too much.
Uncapped(p) == [d \in Dims |-> p[d] \div Ticks]

WhichPartition(p) ==
  [d \in Dims |-> IF p[d] \div Ticks < Blocks[d] THEN p[d] \div Ticks ELSE Blocks[d] - 1]

Evaluate(t) ==
  /\ problem = "SPE10" /\ stage = "ready" /\ t \in workers
  /\ \E p \in Points :
       /\ point' = [point EXCEPT ![t] = p]
       /\ value' = [value EXCEPT ![t] =
                      [d \in Dims |-> InDirection(d, Subdomain(WhichPartition(p)))]]
  /\ UNCHANGED <<shared, intervals, matrix, pc, dim, offset>>

---------------------------------------------------------------------------
(* Tarbert::Diffusion::evaluate                                            *)

\* Without the table the first evaluation throws.
Enter(t) ==
  /\ problem = "Tarbert" /\ stage = "ready" /\ t \in workers /\ pc[t] = "idle"
  /\ IF permeability = Missing
     THEN /\ stage' = "thrown"
          /\ UNCHANGED <<pc, point, value>>
     ELSE \E p \in {q \in Points : Inner(q)} :
            /\ point' = [point EXCEPT ![t] = p]
            /\ pc' = [pc EXCEPT ![t] = "interval"]
            /\ value' = [value EXCEPT ![t] = Nothing]
            /\ UNCHANGED stage
  /\ UNCHANGED <<problem, workers, file, permeability, intervals, matrix, dim, offset>>

\* A statement touches the members of one direction after the other; next follows.
Statement(t, this, next) ==
  /\ pc[t] = this
  /\ pc' = [pc EXCEPT ![t] = IF dim[t] = 2 THEN next ELSE this]
  /\ dim' = [dim EXCEPT ![t] = IF dim[t] = 2 THEN 0 ELSE dim[t] + 1]

SetInterval(t) ==
  /\ Statement(t, "interval", "offset")
  /\ intervals' = [intervals EXCEPT ![dim[t]] = point[t][dim[t]] \div Ticks]
  /\ UNCHANGED <<shared, matrix, point, offset, value>>

SetOffset(t) ==
  /\ Statement(t, "offset", "entry")
  /\ offset' = [offset EXCEPT ![t] = offset[t] + intervals[dim[t]] * Stride(dim[t])]
  /\ UNCHANGED <<shared, intervals, matrix, point, value>>

SetEntry(t) ==
  /\ Statement(t, "entry", "copy")
  /\ matrix' = [matrix EXCEPT ![dim[t]] = InDirection(dim[t], offset[t])]
  /\ UNCHANGED <<shared, intervals, point, offset, value>>

\* y = permMatrix_; evaluate() returns after the last entry.
CopyOut(t) ==
  /\ Statement(t, "copy", "idle")
  /\ value' = [value EXCEPT ![t] = [value[t] EXCEPT ![dim[t]] = matrix[dim[t]]]]
  /\ offset' = [offset EXCEPT ![t] = IF dim[t] = 2 THEN 0 ELSE offset[t]]
  /\ UNCHANGED <<shared, intervals, matrix, point>>

ReservoirNext ==
  \/ ReadSPE10 \/ ReadTarbert
  \/ \E t \in Threads :
       Evaluate(t) \/ Enter(t) \/ SetInterval(t) \/ SetOffset(t) \/ SetEntry(t) \/ CopyOut(t)

-----------------------------------------------------------------------------
\* The block a point is in, by its geometry: the upper right belongs to the last.
Contains(b, p) == \A d \in Dims :
  /\ Ticks * b[d] <= p[d]
  /\ p[d] < Ticks * (b[d] + 1) \/ (b[d] = Blocks[d] - 1 /\ p[d] = Ticks * Blocks[d])
BlockOf(p) == CHOOSE b \in [Dims -> 0 .. Ticks * Size] :
                (\A d \in Dims : b[d] < Blocks[d]) /\ Contains(b, p)

(***************************************************************************)
(* An evaluation returns the three entries of the block its own point is   *)
(* in, all of them read from the file: SPE10's by any number of threads    *)
(* and with any file, Tarbert's by one thread (the default of              *)
(* threading.max_count) and with the whole table (spe10.cc:134,             *)
(* tarbert.cc:122).                                                        *)
(***************************************************************************)
OwnValue ==
  problem = "SPE10" \/ (Cardinality(workers) = 1 /\ Complete(permeability)) =>
    \A t \in workers : pc[t] = "idle" /\ value[t] # Nothing =>
      value[t] = [d \in Dims |-> Subdomain(BlockOf(point[t])) + d * Size]

(***************************************************************************)
(* What the threads that share Tarbert's members can mix up are the blocks *)
(* of their points: every value still comes from the table, and from the   *)
(* part of its own direction.                                              *)
(***************************************************************************)
DirectionsKept ==
  \A t \in workers : \A d \in Dims :
    value[t][d] = Unset \/ value[t][d] \in d * Size .. (d + 1) * Size - 1
=============================================================================
