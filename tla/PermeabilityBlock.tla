-------------------------- MODULE PermeabilityBlock --------------------------
(***************************************************************************)
(* One rank's block of the random permeability field                       *)
(* (problems/random_permeability.hh): which nodes it has (setRange), how   *)
(* they get from the layers of the other ranks into _perm (redistribute),  *)
(* and which of them a point reads (operator()).                           *)
(*                                                                         *)
(* The field lives on the nodes 0 .. N of each dimension; the transform    *)
(* computes 2N nodes per dimension, a layer of n0 values of the first      *)
(* coordinate on each rank.  Values are known by their nodes.  Points have *)
(* half-integer coordinates p = x * N, counted in halves.                  *)
(***************************************************************************)
EXTENDS Integers

CONSTANTS
  MaxLog2Seg, \* bound: log2 of N, for each value of DIM
  MaxLog2Proc,\* bound: log2 of the number of ranks, for each value of DIM
  Overlaps    \* bound: the overlaps looked at

VARIABLES
  DIM,     \* the template parameter: 2 or 3
  N, nProc, iProc, overlap,  \* arguments of init, and this rank
  iMin, iMax, size,          \* _iMin, _iMax, _size
  row,     \* leading coordinates of the row the next MPI_Get fetches
  perm,    \* _perm, in its order: the node whose value is there, or None
  dest,    \* the number of values fetched
  pc

conf == <<DIM, N, nProc, iProc, overlap>>
range == <<iMin, iMax, size>>
vars == <<conf, range, row, perm, dest, pc>>

Dims == 0 .. DIM - 1

None == << >>

\* 1 << n
PowerOf2[n \in Nat] == IF n = 0 THEN 1 ELSE 2 * PowerOf2[n - 1]

Zero == [d \in Dims |-> 0]

\* The assertions of init: more than one segment, and layers of equal size.
Init ==
  /\ DIM \in {2, 3}
  /\ N \in {PowerOf2[l] : l \in 1 .. MaxLog2Seg[DIM]}
  /\ nProc \in {PowerOf2[l] : l \in 0 .. MaxLog2Proc[DIM]}
  /\ nProc <= 2 * N
  /\ iProc \in 0 .. nProc - 1
  /\ overlap \in Overlaps
  /\ iMin = Zero /\ iMax = Zero /\ size = Zero
  /\ row = Zero
  /\ perm = << >>
  /\ dest = 0
  /\ pc = "init"

---------------------------------------------------------------------------
(* partition, gridPosition, setRange                                       *)

Log2(p) == CHOOSE l \in 0 .. MaxLog2Proc[DIM] : PowerOf2[l] = p

\* Wrong: the processors that are left go to no dimension.
EvenPartition(p) == [d \in Dims |-> PowerOf2[Log2(p) \div DIM]]

\* Processors per dimension; those that are left go to the first dimensions.
Partition(p) ==
  LET nAll == Log2(p) \div DIM
      nMore == Log2(p) - nAll * DIM
  IN [d \in Dims |-> PowerOf2[nAll + (IF d < nMore THEN 1 ELSE 0)]]

\* off[d]: the number of processors in the dimensions below d.
Off(perDim, d) == (IF d > 0 THEN perDim[0] ELSE 1) * (IF d > 1 THEN perDim[1] ELSE 1)

\* The position on the grid of processors, first coordinate fastest.
GridPosition(i, perDim) == [d \in Dims |-> (i \div Off(perDim, d)) % perDim[d]]

\* Segments of a block in dimension d.
BlockLen(d) == N \div Partition(nProc)[d]

max(a, b) == IF a < b THEN b ELSE a
min(a, b) == IF b < a THEN b ELSE a

\* First and last node of the block of rank i.
BlockRange(i) ==
  LET pos == GridPosition(i, Partition(nProc)) IN
  [lo |-> [d \in Dims |-> max(0, BlockLen(d) * pos[d] - overlap)],
   hi |-> [d \in Dims |-> min(N, BlockLen(d) * (pos[d] + 1) + overlap)]]

Product(f) == f[0] * f[1] * (IF DIM = 3 THEN f[2] ELSE 1)

SetRange ==
  /\ pc = "init"
  /\ LET b == BlockRange(iProc) IN
     /\ iMin' = b.lo
     /\ iMax' = b.hi
     /\ size' = [d \in Dims |-> b.hi[d] - b.lo[d] + 1]
     /\ row' = [b.lo EXCEPT ![DIM - 1] = 0]
  /\ perm' = [k \in 1 .. Product(size') |-> None]
  /\ dest' = 0
  /\ pc' = "fetch"
  /\ UNCHANGED <<conf>>

---------------------------------------------------------------------------
(* redistribute                                                            *)

n0 == (2 * N) \div nProc

\* The values a layer has per first coordinate: stepSource.
PlaneSize == IF DIM = 2 THEN 2 * N ELSE (2 * N) * (2 * N)

\* Where a row begins in the layer of its rank.
Source(r) == (r[0] % n0) * PlaneSize + (IF DIM = 3 THEN 2 * N * r[1] ELSE 0)

\* The rank whose layer has the row.
RankSource(r) == r[0] \div n0

\* The layer of rank q, in the order of the transform.
NodeAt(q, off) ==
  [d \in Dims |->
    IF d = 0 THEN q * n0 + off \div PlaneSize
    ELSE IF d = DIM - 1 THEN off % (2 * N)
    ELSE (off \div (2 * N)) % (2 * N)]

LayerSize == n0 * PlaneSize

\* The row after r: the last leading coordinate first.
NextRow(r) ==
  IF DIM = 2 THEN [r EXCEPT ![0] = @ + 1]
  ELSE IF r[1] = iMax[1] THEN [r EXCEPT ![0] = @ + 1, ![1] = iMin[1]]
  ELSE [r EXCEPT ![1] = @ + 1]

\* One MPI_Get.
FetchRow ==
  /\ pc = "fetch"
  /\ row[0] <= iMax[0]
  /\ LET step == size[DIM - 1]
         from == Source(row) + iMin[DIM - 1]
     IN /\ perm' = [k \in DOMAIN perm |->
                     IF k \in dest + 1 .. dest + step
                     THEN NodeAt(RankSource(row), from + k - dest - 1) ELSE perm[k]]
        /\ dest' = dest + step
  /\ row' = NextRow(row)
  /\ UNCHANGED <<conf, range, pc>>

FetchDone ==
  /\ pc = "fetch"
  /\ row[0] > iMax[0]
  /\ pc' = "ready"
  /\ UNCHANGED <<conf, range, row, perm, dest>>

---------------------------------------------------------------------------
(* operator()                                                              *)

\* Points of the unit cube in halves of a segment.
HalfPoints == [Dims -> 0 .. 2 * N]

InRange(p) == \A d \in Dims : 2 * iMin[d] <= p[d] /\ p[d] <= 2 * iMax[d]

\* j and t of the code; t in halves.
Segment(p) == [d \in Dims |-> (p[d] - 2 * iMin[d]) \div 2]
Fraction(p) == [d \in Dims |-> (p[d] - 2 * iMin[d]) % 2]

\* Wrong: the first coordinate is the fastest.
FirstFastest(j) == IF DIM = 2 THEN j[0] + size[0] * j[1] ELSE j[0] + size[0] * (j[1] + size[1] * j[2])

\* Where the value of node iMin + j is in _perm, from 0: the last coordinate is
\* the fastest.
Cell(j) == IF DIM = 2 THEN size[1] * j[0] + j[1] ELSE size[2] * (size[1] * j[0] + j[1]) + j[2]

Corners == [Dims -> {0, 1}]

\* How far the corner b of a segment is behind its first one: c01, c10, ...
CornerOffset(b) ==
  IF DIM = 2 THEN b[0] * size[1] + b[1] ELSE b[0] * (size[1] * size[2]) + b[1] * size[2] + b[2]

\* The index in _perm of a corner of the segment a point is in, from 1, and
\* its weight, in units of 1 / 2 ^ DIM.
IndexOf(p, b) == 1 + Cell(Segment(p)) + CornerOffset(b)
Weight(p, b) == Product([d \in Dims |-> IF b[d] = 1 THEN Fraction(p)[d] ELSE 2 - Fraction(p)[d]])

Next == SetRange \/ FetchRow \/ FetchDone

Spec == Init /\ [][Next]_vars

---------------------------------------------------------------------------
\* When the rows are fetched, every value that counts in an evaluation is the
\* one the field has at that corner of the segment the point is in, so that the
\* result is the multilinear interpolation: the layout of the layers, the order
\* of the gets and the strides of the evaluation agree.
Interpolates ==
  pc = "ready" =>
    \A p \in HalfPoints : \A b \in Corners :
      InRange(p) /\ Weight(p, b) > 0 =>
        /\ IndexOf(p, b) \in DOMAIN perm
        /\ perm[IndexOf(p, b)] = [d \in Dims |-> p[d] \div 2 + b[d]]

\* The ranks a segment is given to.
Given(s) ==
  {i \in 0 .. nProc - 1 :
     \A d \in Dims : s[d] \div BlockLen(d) = GridPosition(i, Partition(nProc))[d]}

\* Every segment of the unit cube is given to one rank, and the block of that
\* rank has its corners.
SegmentsDistributed ==
  pc = "init" =>
    \A s \in [Dims -> 0 .. N - 1] : \E i \in 0 .. nProc - 1 :
      /\ Given(s) = {i}
      /\ \A d \in Dims : BlockRange(i).lo[d] <= s[d] /\ s[d] + 1 <= BlockRange(i).hi[d]
=============================================================================
