--------------------------- MODULE Diffusions_proofs ---------------------------
(***************************************************************************)
(* Proofs about Diffusions: about the reservoirs for any blocks, points,   *)
(* files and threads, about the block of "Random" for any powers of two of *)
(* segments and ranks, any overlap, in two dimensions and in three.        *)
(*                                                                         *)
(* Reservoir: whatever the threads do to Tarbert's members, an index stays *)
(* inside the part of its direction (InParts).  A thread that works alone  *)
(* finds in the members what it wrote there (Progress), and the block it   *)
(* computes is the only one that contains its point (BlockOfPoint).        *)
(*                                                                         *)
(* PermeabilityBlock: the processors per dimension divide the segments     *)
(* (PartitionDivides), and places of the grid of processors are numbers in *)
(* mixed radix (OneRankPerPlace).  The rows before the current one are     *)
(* where the evaluation looks for them (Fetched): the next get writes the  *)
(* next line (FetchRowStep), from where the layers have it (RowFromLayer). *)
(***************************************************************************)
EXTENDS Diffusions, FiniteSetTheorems, WellFoundedInduction, TLAPS

---------------------------------------------------------------------------
(* The reservoirs                                                         *)

\* The entries of a direction, and memory nothing was read into.
Part(d) == {Unset} \cup d * Size .. (d + 1) * Size - 1
Place == 0 .. Size - 1
Labels == {"interval", "offset", "entry", "copy"}

\* What a place stays below while the indices are summed up to it.
Reach(s, d) == IF s = "offset" THEN Stride(d) ELSE IF s \in {"entry", "copy"} THEN Size ELSE 1

InParts ==
  /\ DOMAIN intervals = Dims /\ \A d \in Dims : intervals[d] \in 0 .. Blocks[d] - 1
  /\ DOMAIN offset = Threads /\ \A t \in Threads : offset[t] \in 0 .. Reach(pc[t], dim[t]) - 1
  /\ matrix \in [Dims -> Int] /\ \A d \in Dims : matrix[d] \in Part(d)
  /\ value \in [Threads -> [Dims -> Int]] /\ \A t \in Threads : \A d \in Dims : value[t][d] \in Part(d)

\* Who is where: nobody evaluates before the constructor is done, and SPE10's
\* refuses a table that is not complete.
Located ==
  /\ workers \subseteq Threads /\ DOMAIN point = Threads
  /\ pc \in [Threads -> Labels \cup {"idle"}] /\ dim \in [Threads -> Dims]
  /\ \A t \in Threads : pc[t] = "idle" => dim[t] = 0
  /\ \A t \in Threads : pc[t] # "idle" =>
       t \in workers /\ problem = "Tarbert" /\ stage # "construct" /\ point[t] \in Points /\ Inner(point[t])
  /\ stage = "construct" => \A t \in Threads : value[t] = Nothing
  /\ problem = "SPE10" /\ stage = "ready" => Complete(permeability)

\* Nobody disturbs an evaluation, and the table is complete.
Alone == problem = "SPE10" \/ (Cardinality(workers) = 1 /\ Complete(permeability))

\* The directions whose interval, whose entry, and whose value are written when
\* statement s comes to direction d.
Before(d) == {e \in Dims : e < d}
IntervalsSet(s, d) == IF s = "interval" THEN Before(d) ELSE Dims
EntriesSet(s, d) == IF s = "entry" THEN Before(d) ELSE IF s = "copy" THEN Dims ELSE {}
CopiedSet(s, d) == IF s = "copy" THEN Before(d) ELSE {}

\* The part of a block's place that belongs to the directions before d.
Summed(b, d) == IF d = 0 THEN 0 ELSE IF d = 1 THEN b[0] * Stride(0) ELSE b[0] * Stride(0) + b[1] * Stride(1)
Wanted(p) == Subdomain(WhichPartition(p))

\* What a thread alone has computed of its point's block.
OnItsWay(t) ==
  /\ pc[t] = "idle" /\ value[t] # Nothing =>
       point[t] \in Points /\ value[t] = [d \in Dims |-> Wanted(point[t]) + d * Size]
  /\ pc[t] # "idle" => \A d \in IntervalsSet(pc[t], dim[t]) : intervals[d] = WhichPartition(point[t])[d]
  /\ pc[t] = "offset" => offset[t] = Summed(WhichPartition(point[t]), dim[t])
  /\ pc[t] \in {"entry", "copy"} => offset[t] = Wanted(point[t])
  /\ \A d \in EntriesSet(pc[t], dim[t]) : matrix[d] = Wanted(point[t]) + d * Size
  /\ \A d \in CopiedSet(pc[t], dim[t]) : value[t][d] = Wanted(point[t]) + d * Size
Progress == Alone => \A t \in workers : OnItsWay(t)

IInv == InParts /\ Located /\ Progress

---------------------------------------------------------------------------
\* There are blocks in every direction.
LEMMA Sizes ==
  /\ Dims = {0, 1, 2} /\ \A d \in Dims : Blocks[d] \in Nat \ {0}
  /\ Ticks \in Nat \ {0} /\ Size \in Nat \ {0} /\ \A d \in Dims : Blocks[d] <= Size
<1> DEFINE a == Blocks[0]  b == Blocks[1]  c == Blocks[2]
<1>1. Dims = {0, 1, 2}
  BY DEF Dims
<1>2. a \in Nat \ {0} /\ b \in Nat \ {0} /\ c \in Nat \ {0} /\ Ticks \in Nat \ {0}
  BY <1>1, ReservoirAssumption
<1>3. \A x, y \in Nat \ {0} : x * y \in Nat \ {0} /\ x <= x * y /\ y <= x * y
  <2> SUFFICES ASSUME NEW x \in Nat \ {0}, NEW y \in Nat \ {0}
               PROVE x * y \in Nat \ {0} /\ x <= x * y /\ y <= x * y
    OBVIOUS
  <2>1. x * y = x + x * (y - 1) /\ x * y = y + (x - 1) * y /\ x * (y - 1) >= 0 /\ (x - 1) * y >= 0
    OBVIOUS
  <2>2. QED
    BY <2>1
<1>4. Size = (a * b) * c
  BY DEF Size
<1> HIDE DEF a, b, c
<1>5. a * b \in Nat \ {0} /\ a <= a * b /\ b <= a * b
  BY <1>2, <1>3
<1>6. (a * b) * c \in Nat \ {0} /\ a * b <= (a * b) * c /\ c <= (a * b) * c
  BY <1>2, <1>3, <1>5
<1>7. a <= Size /\ b <= Size /\ c <= Size /\ Size \in Nat \ {0}
  BY <1>2, <1>4, <1>5, <1>6
<1>8. QED
  BY <1>1, <1>2, <1>7 DEF a, b, c

\* Strides multiply up to the size of a part, and a place that is summed up stays
\* below the stride of the next direction.
LEMMA NextPlace ==
  ASSUME NEW d \in Dims, NEW a \in 0 .. Stride(d) - 1, NEW i \in 0 .. Blocks[d] - 1
  PROVE  /\ a + i * Stride(d) \in 0 .. Stride(d) * Blocks[d] - 1
         /\ d = 0 => Stride(d) * Blocks[d] = Stride(1)
         /\ d = 1 => Stride(d) * Blocks[d] = Stride(2)
         /\ d = 2 => Stride(d) * Blocks[d] = Size
         /\ Stride(d) \in Nat /\ Stride(0) = 1
<1> DEFINE s == Stride(d)  n == Blocks[d]
           x == Blocks[0]  y == Blocks[1]  z == Blocks[2]
<1>1. /\ d \in {0, 1, 2} /\ n \in Nat \ {0}
      /\ x \in Nat \ {0} /\ y \in Nat \ {0} /\ z \in Nat \ {0}
  BY Sizes
<1>2. /\ Stride(0) = 1 /\ Stride(1) = x /\ Stride(2) = y * x /\ Size = (x * y) * z
      /\ s = IF d = 0 THEN 1 ELSE IF d = 1 THEN x ELSE y * x
  BY DEF Stride, Size
<1>3. n = IF d = 0 THEN x ELSE IF d = 1 THEN y ELSE z
  BY <1>1
<1> HIDE DEF s, n, x, y, z
<1>4. y * x \in Nat /\ y * x = x * y
  BY <1>1
<1>5. s \in Nat
  BY <1>1, <1>2, <1>4
<1>6. /\ d = 0 => s * n = x
      /\ d = 1 => s * n = y * x
      /\ d = 2 => s * n = (x * y) * z
  BY <1>1, <1>2, <1>3, <1>4
<1>7. a + i * s \in 0 .. s * n - 1
  <2>1. a \in 0 .. s - 1 /\ i \in 0 .. n - 1
    BY DEF s, n
  <2>2. s * n = i * s + s + (n - 1 - i) * s /\ (n - 1 - i) * s >= 0 /\ i * s >= 0 /\ i * s \in Int /\ s * n \in Int
    BY <1>1, <1>5, <2>1
  <2> DEFINE q == i * s  r == (n - 1 - i) * s  m == s * n
  <2> HIDE DEF q, r, m
  <2>3. m = q + s + r /\ r >= 0 /\ q >= 0 /\ q \in Int /\ m \in Int
    BY <2>2 DEF q, r, m
  <2>4. r \in Int
    BY <1>1, <1>5, <2>1 DEF r
  <2>5. a + q \in 0 .. m - 1
    BY <1>5, <2>1, <2>3, <2>4
  <2> QED BY <2>5 DEF q, m
<1> QED BY <1>2, <1>5, <1>6, <1>7 DEF s, n

\* The place of a block is inside the part of a direction (subdomain of
\* spe10.cc, offset of tarbert.cc).
LEMMA PlaceOfBlock ==
  ASSUME NEW b, \A d \in Dims : b[d] \in 0 .. Blocks[d] - 1
  PROVE  Subdomain(b) \in Place
<1> DEFINE u == b[0] * Stride(0)  v == u + b[1] * Stride(1)  w == v + b[2] * Stride(2)
<1>1. 0 \in Dims /\ 1 \in Dims /\ 2 \in Dims
  BY Sizes
<1>2. 0 \in 0 .. Stride(0) - 1
  BY DEF Stride
<1>3. 0 + u \in 0 .. Stride(0) * Blocks[0] - 1 /\ Stride(0) * Blocks[0] = Stride(1)
  BY <1>1, <1>2, NextPlace
<1>4. u \in 0 .. Stride(1) - 1
  <2>1. b[0] \in Int /\ Stride(0) = 1
    BY <1>1 DEF Stride
  <2> QED BY <1>3, <2>1
<1> HIDE DEF u
<1>5. v \in 0 .. Stride(1) * Blocks[1] - 1 /\ Stride(1) * Blocks[1] = Stride(2)
  BY <1>1, <1>4, NextPlace
<1>6. v \in 0 .. Stride(2) - 1
  BY <1>5
<1> HIDE DEF v
<1>7. w \in 0 .. Stride(2) * Blocks[2] - 1 /\ Stride(2) * Blocks[2] = Size
  BY <1>1, <1>6, NextPlace
<1>8. Subdomain(b) = w
  BY DEF Subdomain, u, v, w
<1> QED BY <1>7, <1>8 DEF Place

\* The block which_partition computes is a block of the reservoir that contains
\* the point.
LEMMA PartitionContains ==
  ASSUME NEW p \in Points
  PROVE  /\ WhichPartition(p) \in [Dims -> Nat]
         /\ \A d \in Dims : WhichPartition(p)[d] \in 0 .. Blocks[d] - 1
         /\ Contains(WhichPartition(p), p)
<1>1. ASSUME NEW d \in Dims
      PROVE  /\ WhichPartition(p)[d] \in 0 .. Blocks[d] - 1
             /\ Ticks * WhichPartition(p)[d] <= p[d]
             /\ \/ p[d] < Ticks * (WhichPartition(p)[d] + 1)
                \/ WhichPartition(p)[d] = Blocks[d] - 1 /\ p[d] = Ticks * Blocks[d]
  <2> DEFINE n == Blocks[d]
             k == Ticks
             x == p[d]
             w == WhichPartition(p)[d]
  <2>1. n \in Nat \ {0} /\ k \in Nat \ {0} /\ x \in 0 .. k * n
    BY Sizes, ReservoirAssumption
  <2>2. w = IF x \div k < n THEN x \div k ELSE n - 1
    BY DEF WhichPartition
  <2> HIDE DEF n, k, x, w
  <2>3. k * n \in Nat /\ x \in Nat
    BY <2>1
  <2>4. x \div k \in Nat /\ k * (x \div k) <= x /\ x < k * ((x \div k) + 1)
    BY <2>1, <2>3
  <2>5. CASE x \div k < n
    BY <2>1, <2>2, <2>4, <2>5 DEF n, k, x, w
  <2>6. CASE ~(x \div k < n)
    <3>1. k * (x \div k) = k * n + k * ((x \div k) - n) /\ k * ((x \div k) - n) >= 0
      BY <2>1, <2>4, <2>6
    <3>2. x = k * n
      BY <2>1, <2>3, <2>4, <3>1
    <3>3. w = n - 1 /\ k * (n - 1) = k * n - k
      BY <2>1, <2>2, <2>6
    <3>4. QED
      BY <2>1, <2>3, <3>2, <3>3 DEF n, k, x, w
  <2>7. QED
    BY <2>5, <2>6
<1>2. WhichPartition(p) \in [Dims -> Nat]
  <2>1. \A d \in Dims : WhichPartition(p)[d] \in Nat
    BY <1>1, Sizes
  <2>2. QED
    BY <2>1 DEF WhichPartition
<1>3. QED
  BY <1>1, <1>2 DEF Contains

\* No other block contains it: the one the code computes is the one the point is in.
LEMMA BlockOfPoint ==
  ASSUME NEW p \in Points
  PROVE  BlockOf(p) = WhichPartition(p)
<1> DEFINE w == WhichPartition(p)
           B == [Dims -> 0 .. Ticks * Size]
           Is(b) == (\A d \in Dims : b[d] < Blocks[d]) /\ Contains(b, p)
<1>1. w \in [Dims -> Nat] /\ Contains(w, p) /\ \A d \in Dims : w[d] \in 0 .. Blocks[d] - 1
  BY PartitionContains
<1>2. w \in B /\ Is(w)
  <2>1. Size <= Ticks * Size
    <3>1. Ticks * Size = Size + (Ticks - 1) * Size /\ (Ticks - 1) * Size >= 0
      BY Sizes
    <3>2. QED
      BY Sizes, <3>1
  <2>2. \A d \in Dims : w[d] \in 0 .. Ticks * Size /\ w[d] < Blocks[d]
    BY <1>1, <2>1, Sizes
  <2>3. QED
    BY <1>1, <2>2
<1>3. ASSUME NEW b \in B, Is(b) PROVE b = w
  <2>1. ASSUME NEW d \in Dims PROVE b[d] = w[d]
    <3> DEFINE k == Ticks  x == p[d]  n == Blocks[d]  v == b[d]  u == w[d]
    <3>1. k \in Nat \ {0} /\ x \in 0 .. k * n /\ n \in Nat \ {0}
      BY Sizes, ReservoirAssumption
    <3>2. /\ v \in Int /\ v < n /\ k * v <= x
          /\ x < k * (v + 1) \/ (v = n - 1 /\ x = k * n)
      BY <1>3, Sizes DEF Contains
    <3>3. /\ u \in Int /\ u < n /\ k * u <= x
          /\ x < k * (u + 1) \/ (u = n - 1 /\ x = k * n)
      BY <1>1, Sizes DEF Contains
    <3> HIDE DEF k, x, n, v, u
    <3>4. x \in Int
      BY <3>1
    <3>5. \A i, j \in Int : i < j => k * (i + 1) <= k * j
      <4> SUFFICES ASSUME NEW i \in Int, NEW j \in Int, i < j PROVE k * (i + 1) <= k * j
        OBVIOUS
      <4>1. k * j = k * (i + 1) + k * (j - (i + 1)) /\ k * (j - (i + 1)) >= 0
        BY <3>1
      <4>2. QED
        BY <3>1, <4>1
    <3>6. ~(v < u) /\ ~(u < v)
      <4>1. v < u => k * (v + 1) <= k * u
        BY <3>2, <3>3, <3>5
      <4>2. u < v => k * (u + 1) <= k * v
        BY <3>2, <3>3, <3>5
      <4>3. {k * (v + 1), k * u, k * (u + 1), k * v} \subseteq Int
        BY <3>1, <3>2, <3>3
      <4>4. QED
        BY <3>1, <3>2, <3>3, <3>4, <4>1, <4>2, <4>3
    <3>7. QED
      BY <3>2, <3>3, <3>6 DEF v, u
  <2>2. QED
    BY <1>1, <2>1
<1>4. BlockOf(p) = CHOOSE b \in B : Is(b)
  BY DEF BlockOf
<1> HIDE DEF B, Is
<1>5. QED
  BY <1>2, <1>3, <1>4

\* A place inside the part of a direction never leads to another direction's entry
\* or beyond the table, and to its own entry when the table is complete.
LEMMA EntryInPart ==
  ASSUME NEW d \in Dims, NEW i \in Place
  PROVE  /\ InDirection(d, i) \in Part(d)
         /\ Complete(permeability) => InDirection(d, i) = i + d * Size
<1>1. /\ d \in {0, 1, 2} /\ Size \in Nat \ {0} /\ i \in 0 .. Size - 1
      /\ i + d * Size \in d * Size .. (d + 1) * Size - 1 /\ i + d * Size < 3 * Size
  BY Sizes DEF Place
<1>2. InDirection(d, i) = IF i + d * Size >= permeability THEN Unset ELSE i + d * Size
  BY <1>1 DEF InDirection, Entry
<1>3. Complete(permeability) => ~(i + d * Size >= permeability)
  BY <1>1 DEF Complete
<1>4. QED
  BY <1>1, <1>2, <1>3 DEF Part

\* A thread that works alone is the only one (threading.max_count is 1).
LEMMA OneWorker ==
  ASSUME Located, Alone, problem = "Tarbert", NEW t \in workers, NEW u \in workers
  PROVE  t = u
<1>1. IsFiniteSet(workers) /\ Cardinality(workers) = 1
  BY FS_Subset, ReservoirAssumption DEF Located, Alone
<1>2. QED
  BY <1>1, FS_Singleton

---------------------------------------------------------------------------
\* The diffusion starts with members of zero and nothing evaluated.
LEMMA InitReservoir == ReservoirInit => IInv
<1> SUFFICES ASSUME ReservoirInit PROVE IInv
  OBVIOUS
<1>1. /\ intervals = [d \in Dims |-> 0] /\ matrix = Nothing
      /\ offset = [t \in Threads |-> 0] /\ value = [t \in Threads |-> Nothing]
      /\ pc = [t \in Threads |-> "idle"] /\ dim = [t \in Threads |-> 0]
      /\ stage = "construct" /\ workers \subseteq Threads /\ DOMAIN point = Threads
  BY DEF ReservoirInit
<1>2. InParts
  <2>1. Nothing \in [Dims -> Int] /\ \A d \in Dims : Nothing[d] = Unset
    BY DEF Nothing, Unset
  <2>2. QED
    BY <1>1, <2>1, Sizes DEF InParts, Part, Reach
<1>3. Located
  BY <1>1, Sizes DEF Located
<1>4. Progress
  BY <1>1 DEF Progress, OnItsWay, EntriesSet, CopiedSet, Located
<1>5. QED
  BY <1>2, <1>3, <1>4 DEF IInv

\* The constructors read the table, before any evaluation.
LEMMA ReadStep == ASSUME IInv, ReadSPE10 \/ ReadTarbert PROVE IInv'
<1>1. /\ stage = "construct" /\ stage' \in {"ready", "thrown", "crashed"}
      /\ UNCHANGED <<problem, workers, intervals, matrix, pc, dim, point, offset, value>>
      /\ problem = "SPE10" /\ stage' = "ready" => Complete(permeability')
  BY DEF ReadSPE10, ReadTarbert
<1>2. InParts'
  BY <1>1 DEF IInv, InParts, Part, Reach, Stride
<1>3. workers \subseteq Threads /\ \A t \in Threads : pc[t] = "idle" /\ value[t] = Nothing
  BY <1>1 DEF IInv, Located
<1>4. Located'
  <2>1. Complete(permeability)' <=> Complete(permeability')
    BY DEF Complete
  <2>2. QED
    BY <1>1, <1>3, <2>1 DEF IInv, Located
<1>5. Progress'
  BY <1>1, <1>3 DEF Progress, OnItsWay, EntriesSet, CopiedSet
<1>6. QED
  BY <1>2, <1>4, <1>5 DEF IInv

\* SPE10's evaluate() touches nothing but its own value.
LEMMA EvaluateStep == ASSUME IInv, NEW t \in Threads, Evaluate(t) PROVE IInv'
<1>1. PICK p \in Points :
        /\ point' = [point EXCEPT ![t] = p]
        /\ value' = [value EXCEPT ![t] = [d \in Dims |-> InDirection(d, Wanted(p))]]
  BY DEF Evaluate, Wanted
<1>2. /\ problem = "SPE10" /\ stage = "ready" /\ t \in workers
      /\ UNCHANGED <<problem, workers, file, permeability, stage, intervals, matrix, pc, dim, offset>>
  BY DEF Evaluate, shared
<1>3. Wanted(p) \in Place
  BY PartitionContains, PlaceOfBlock DEF Wanted
<1>4. \A d \in Dims : InDirection(d, Wanted(p)) \in Part(d) /\ InDirection(d, Wanted(p)) = Wanted(p) + d * Size
  BY <1>2, <1>3, EntryInPart DEF IInv, Located
<1>5. [d \in Dims |-> InDirection(d, Wanted(p))] = [d \in Dims |-> Wanted(p) + d * Size]
  BY <1>4
<1>6. InParts'
  <2> DEFINE new == [d \in Dims |-> InDirection(d, Wanted(p))]
  <2>1. new \in [Dims -> Int] /\ \A d \in Dims : new[d] \in Part(d)
    BY <1>4, Sizes DEF Part, Unset
  <2>2. value' = [value EXCEPT ![t] = new]
    BY <1>1
  <2> HIDE DEF new
  <2>3. value' \in [Threads -> [Dims -> Int]] /\ \A u \in Threads : \A d \in Dims : value'[u][d] \in Part(d)
    BY <2>1, <2>2 DEF IInv, InParts
  <2>4. QED
    BY <1>2, <2>3 DEF IInv, InParts, Part, Reach, Stride
<1>7. \A u \in Threads : pc[u] = "idle"
  BY <1>2 DEF IInv, Located
<1>8. Located'
  BY <1>1, <1>2, <1>7 DEF IInv, Located, Complete
<1>9. Progress'
  <2> SUFFICES ASSUME NEW u \in workers
               PROVE  /\ value'[u] # Nothing => point'[u] \in Points /\ value'[u] = [d \in Dims |-> Wanted(point'[u]) + d * Size]
                      /\ pc'[u] = "idle"
    BY <1>2 DEF Progress, OnItsWay, EntriesSet, CopiedSet, Wanted, Subdomain, Stride, WhichPartition
  <2>2. u \in Threads /\ pc'[u] = "idle"
    BY <1>2, <1>7 DEF IInv, Located
  <2>3. CASE u = t
    BY <1>1, <1>5, <2>2, <2>3 DEF IInv, InParts, Located
  <2>4. CASE u # t
    <3>1. value'[u] = value[u] /\ point'[u] = point[u]
      BY <1>1, <2>2, <2>4 DEF IInv, InParts, Located
    <3>2. value[u] # Nothing => point[u] \in Points /\ value[u] = [d \in Dims |-> Wanted(point[u]) + d * Size]
      BY <1>2, <1>7, <2>2 DEF IInv, Progress, OnItsWay, Alone
    <3>3. QED
      BY <2>2, <3>1, <3>2
  <2>5. QED
    BY <2>3, <2>4
<1>10. QED
  BY <1>6, <1>8, <1>9 DEF IInv

\* Only the thread that takes a step of Tarbert's evaluate() has anything to show.
LEMMA TarbertFrame ==
  ASSUME IInv, NEW t \in workers, problem = "Tarbert",
         UNCHANGED <<problem, workers, permeability>>,
         Alone => OnItsWay(t)'
  PROVE  Progress'
<1>1. Alone' = Alone
  BY DEF Alone, Complete
<1>2. Alone => \A u \in workers : u = t
  BY OneWorker DEF IInv
<1>3. ASSUME Alone, NEW u \in workers PROVE OnItsWay(u)'
  BY <1>2, <1>3
<1>4. QED
  BY <1>1, <1>3 DEF Progress

\* Steps that change nothing an evaluation has computed.
LEMMA SameProgress ==
  ASSUME IInv, UNCHANGED <<problem, workers, permeability, intervals, matrix, pc, dim, point, offset, value>>
  PROVE  Progress'
<1>1. Alone' = Alone
  BY DEF Alone, Complete
<1>2. ASSUME NEW u, OnItsWay(u) PROVE OnItsWay(u)'
  <2>1. point' = point /\ pc' = pc /\ dim' = dim
    OBVIOUS
  <2>2. WhichPartition(point[u])' = WhichPartition(point[u])
    BY <2>1 DEF WhichPartition
  <2>3. Wanted(point[u])' = Wanted(point[u])
    BY <2>1 DEF Wanted, Subdomain, Stride, WhichPartition
  <2>4. Summed(WhichPartition(point[u]), dim[u])' = Summed(WhichPartition(point[u]), dim[u])
    BY <2>1 DEF Summed, Stride, WhichPartition
  <2>5. /\ IntervalsSet(pc[u], dim[u])' = IntervalsSet(pc[u], dim[u])
        /\ EntriesSet(pc[u], dim[u])' = EntriesSet(pc[u], dim[u])
        /\ CopiedSet(pc[u], dim[u])' = CopiedSet(pc[u], dim[u])
    BY <2>1 DEF IntervalsSet, EntriesSet, CopiedSet, Before
  <2>6. /\ (\A d \in IntervalsSet(pc[u], dim[u]) : intervals[d] = WhichPartition(point[u])[d])' <=>
             \A d \in IntervalsSet(pc[u], dim[u]) : intervals[d] = WhichPartition(point[u])[d]
        /\ (\A d \in EntriesSet(pc[u], dim[u]) : matrix[d] = Wanted(point[u]) + d * Size)' <=>
             \A d \in EntriesSet(pc[u], dim[u]) : matrix[d] = Wanted(point[u]) + d * Size
        /\ (\A d \in CopiedSet(pc[u], dim[u]) : value[u][d] = Wanted(point[u]) + d * Size)' <=>
             \A d \in CopiedSet(pc[u], dim[u]) : value[u][d] = Wanted(point[u]) + d * Size
    BY <2>1, <2>2, <2>3, <2>5 DEF IntervalsSet, EntriesSet, CopiedSet, Before
  <2>7. (value[u] = [d \in Dims |-> Wanted(point[u]) + d * Size])' <=>
          value[u] = [d \in Dims |-> Wanted(point[u]) + d * Size]
    BY <2>1 DEF Wanted, Subdomain, Stride, WhichPartition
  <2>8. QED
    BY <1>2, <2>1, <2>3, <2>4, <2>6, <2>7 DEF OnItsWay
<1>3. QED
  BY <1>1, <1>2 DEF IInv, Progress

\* A point enters the evaluation; without a table the first one throws.
LEMMA EnterStep == ASSUME IInv, NEW t \in Threads, Enter(t) PROVE IInv'
<1>1. /\ problem = "Tarbert" /\ stage = "ready" /\ t \in workers /\ pc[t] = "idle"
      /\ UNCHANGED <<problem, workers, file, permeability, intervals, matrix, dim, offset>>
  BY DEF Enter
<1>2. CASE stage' = "thrown" /\ UNCHANGED <<pc, point, value>>
  <2>1. InParts' /\ Located'
    BY <1>1, <1>2 DEF IInv, InParts, Located, Part, Reach, Stride
  <2>2. Progress'
    BY <1>1, <1>2, SameProgress
  <2>3. QED
    BY <2>1, <2>2 DEF IInv
<1>3. CASE \E p \in {q \in Points : Inner(q)} :
             /\ point' = [point EXCEPT ![t] = p]
             /\ pc' = [pc EXCEPT ![t] = "interval"]
             /\ value' = [value EXCEPT ![t] = Nothing]
             /\ UNCHANGED stage
  <2>1. PICK p \in Points :
          /\ Inner(p) /\ point' = [point EXCEPT ![t] = p] /\ pc' = [pc EXCEPT ![t] = "interval"]
          /\ value' = [value EXCEPT ![t] = Nothing] /\ stage' = stage
    BY <1>3
  <2>2. pc'[t] = "interval" /\ \A u \in Threads : u # t => pc'[u] = pc[u]
    BY <1>1, <2>1 DEF IInv, Located
  <2>3. InParts'
    <3>1. \A u \in Threads : Reach(pc'[u], dim[u]) = Reach(pc[u], dim[u])
      BY <1>1, <2>2 DEF Reach
    <3>2. Nothing \in [Dims -> Int] /\ \A d \in Dims : Nothing[d] \in Part(d)
      BY DEF Nothing, Unset, Part
    <3>3. value' \in [Threads -> [Dims -> Int]] /\ \A u \in Threads : \A d \in Dims : value'[u][d] \in Part(d)
      BY <2>1, <3>2 DEF IInv, InParts
    <3>4. \A u \in Threads : offset'[u] \in 0 .. Reach(pc'[u], dim'[u]) - 1
      BY <1>1, <3>1 DEF IInv, InParts
    <3>5. QED
      BY <1>1, <3>3, <3>4 DEF IInv, InParts, Part, Reach, Stride
  <2>4. Located'
    BY <1>1, <2>1, <2>2 DEF IInv, Located, Labels, Inner
  <2>5. dim'[t] = 0
    BY <1>1 DEF IInv, Located
  <2>6. OnItsWay(t)'
    BY <2>2, <2>5, Sizes DEF OnItsWay, IntervalsSet, EntriesSet, CopiedSet, Before
  <2>7. Progress'
    BY <1>1, <2>6, TarbertFrame
  <2>8. QED
    BY <2>3, <2>4, <2>7 DEF IInv
<1>4. QED
  BY <1>2, <1>3 DEF Enter

\* A thread goes from direction to direction, and then to the next statement.
LEMMA StatementMoves ==
  ASSUME Located, NEW t \in Threads, NEW this \in Labels, NEW next \in Labels \cup {"idle"},
         Statement(t, this, next), UNCHANGED <<problem, workers, permeability, stage, point>>
  PROVE  /\ Located'
         /\ t \in workers /\ problem = "Tarbert" /\ point[t] \in Points /\ Inner(point[t])
         /\ pc[t] = this /\ dim[t] \in Dims
         /\ pc'[t] = IF dim[t] = 2 THEN next ELSE this
         /\ dim'[t] = IF dim[t] = 2 THEN 0 ELSE dim[t] + 1
         /\ \A u \in Threads : u # t => pc'[u] = pc[u] /\ dim'[u] = dim[u]
<1>1. this # "idle" /\ pc[t] = this
  BY DEF Labels, Statement
<1>2. /\ t \in workers /\ problem = "Tarbert" /\ stage # "construct"
      /\ point[t] \in Points /\ Inner(point[t]) /\ dim[t] \in Dims
  BY <1>1 DEF Located
<1>3. /\ pc'[t] = IF dim[t] = 2 THEN next ELSE this
      /\ dim'[t] = IF dim[t] = 2 THEN 0 ELSE dim[t] + 1
      /\ \A u \in Threads : u # t => pc'[u] = pc[u] /\ dim'[u] = dim[u]
  BY DEF Statement, Located
<1>4. (IF dim[t] = 2 THEN 0 ELSE dim[t] + 1) \in Dims
  BY <1>2, Sizes
<1>5. pc' \in [Threads -> Labels \cup {"idle"}] /\ dim' \in [Threads -> Dims]
  BY <1>4, Sizes DEF Statement, Located
<1>6. \A u \in Threads : pc'[u] = "idle" => dim'[u] = 0
  BY <1>1, <1>3 DEF Located
<1>7. \A u \in Threads : pc'[u] # "idle" =>
        u \in workers /\ problem = "Tarbert" /\ stage # "construct" /\ point[u] \in Points /\ Inner(point[u])
  BY <1>2, <1>3 DEF Located
<1>8. Located'
  BY <1>2, <1>5, <1>6, <1>7 DEF Located, Inner, Complete
<1>9. QED
  BY <1>1, <1>2, <1>3, <1>8

\* The directions behind a thread after one more, and after the last.
LEMMA BeforeGrows ==
  ASSUME NEW d \in Dims
  PROVE  /\ d # 2 => Before(d + 1) = Before(d) \cup {d}
         /\ d = 2 => Dims = Before(d) \cup {d}
         /\ Before(d) \subseteq Dims /\ Before(0) = {}
BY Sizes DEF Before

\* One index is written: the one of the thread's own point.
LEMMA SetIntervalStep == ASSUME IInv, NEW t \in Threads, SetInterval(t) PROVE IInv'
<1> DEFINE d == dim[t]  n == IF d = 2 THEN 0 ELSE d + 1
<1>1. /\ Statement(t, "interval", "offset")
      /\ intervals' = [intervals EXCEPT ![d] = point[t][d] \div Ticks]
      /\ UNCHANGED <<problem, workers, file, permeability, stage, matrix, point, offset, value>>
  BY DEF SetInterval, shared
<1>2. /\ Located' /\ t \in workers /\ problem = "Tarbert" /\ point[t] \in Points /\ Inner(point[t])
      /\ pc[t] = "interval" /\ d \in Dims
      /\ pc'[t] = (IF d = 2 THEN "offset" ELSE "interval") /\ dim'[t] = n
      /\ \A u \in Threads : u # t => pc'[u] = pc[u] /\ dim'[u] = dim[u]
  BY <1>1, StatementMoves DEF IInv, Labels
<1> HIDE DEF d
<1>3. WhichPartition(point[t])[d] = point[t][d] \div Ticks /\ point[t][d] \div Ticks \in 0 .. Blocks[d] - 1
  <2>1. WhichPartition(point[t])[d] \in 0 .. Blocks[d] - 1
    BY <1>2, PartitionContains
  <2>2. point[t][d] \div Ticks < Blocks[d]
    <3> DEFINE x == point[t][d]  m == Blocks[d]  k == Ticks
    <3>1. k \in Nat \ {0} /\ m \in Nat \ {0} /\ x \in 0 .. k * m /\ x < k * m
      BY <1>2, Sizes, ReservoirAssumption DEF Inner
    <3> HIDE DEF x, m, k
    <3>2. k * m \in Nat /\ x \in Nat
      BY <3>1
    <3>3. x \div k \in Nat /\ k * (x \div k) <= x
      BY <3>1, <3>2
    <3>4. x \div k >= m => k * (x \div k) = k * m + k * ((x \div k) - m) /\ k * ((x \div k) - m) >= 0
      BY <3>1, <3>3
    <3>5. x \div k < m
      BY <3>1, <3>2, <3>3, <3>4
    <3>6. QED
      BY <3>5 DEF x, m, k
  <2>3. QED
    BY <1>2, <2>1, <2>2 DEF WhichPartition
<1>4. /\ DOMAIN intervals' = Dims /\ intervals'[d] = WhichPartition(point[t])[d]
      /\ \A e \in Dims : e # d => intervals'[e] = intervals[e]
  BY <1>1, <1>2, <1>3 DEF IInv, InParts
<1>5. InParts'
  <2>1. \A u \in Threads : offset[u] \in 0 .. Reach(pc'[u], dim'[u]) - 1
    <3> SUFFICES ASSUME NEW u \in Threads PROVE offset[u] \in 0 .. Reach(pc'[u], dim'[u]) - 1
      OBVIOUS
    <3>1. offset[u] \in 0 .. Reach(pc[u], dim[u]) - 1
      BY DEF IInv, InParts
    <3>2. CASE u = t
      BY <1>2, <3>1, <3>2 DEF Reach, Stride
    <3>3. CASE u # t
      BY <1>2, <3>1, <3>3
    <3>4. QED
      BY <3>2, <3>3
  <2>2. \A e \in Dims : intervals'[e] \in 0 .. Blocks[e] - 1
    BY <1>3, <1>4 DEF IInv, InParts
  <2>3. QED
    BY <1>1, <1>4, <2>1, <2>2 DEF IInv, InParts, Part, Reach, Stride
<1>6. ASSUME Alone PROVE OnItsWay(t)'
  <2>1. \A e \in Before(d) : intervals[e] = WhichPartition(point[t])[e]
    BY <1>2, <1>6 DEF IInv, Progress, OnItsWay, IntervalsSet, d
  <2>2. \A e \in Before(d) \cup {d} : intervals'[e] = WhichPartition(point[t])[e]
    BY <1>2, <1>4, <2>1, BeforeGrows
  <2>3. IntervalsSet(pc'[t], dim'[t]) = Before(d) \cup {d} /\ EntriesSet(pc'[t], dim'[t]) = {}
        /\ CopiedSet(pc'[t], dim'[t]) = {}
    BY <1>2, BeforeGrows DEF IntervalsSet, EntriesSet, CopiedSet
  <2>4. pc'[t] = "offset" => offset'[t] = 0 /\ dim'[t] = 0
    BY <1>1, <1>2 DEF IInv, InParts, Reach
  <2>5. point' = point /\ pc'[t] \in {"interval", "offset"}
    BY <1>1, <1>2
  <2>6. (\A e \in IntervalsSet(pc[t], dim[t]) : intervals[e] = WhichPartition(point[t])[e])'
    BY <2>2, <2>3, <2>5 DEF IntervalsSet, Before, WhichPartition
  <2>7. QED
    BY <2>3, <2>4, <2>5, <2>6 DEF OnItsWay, Summed, EntriesSet, CopiedSet, Before
<1>7. Progress'
  BY <1>1, <1>2, <1>6, TarbertFrame
<1>8. QED
  BY <1>2, <1>5, <1>7 DEF IInv

\* The indices are summed up to a place in the table.
LEMMA SetOffsetStep == ASSUME IInv, NEW t \in Threads, SetOffset(t) PROVE IInv'
<1> DEFINE d == dim[t]  n == IF d = 2 THEN 0 ELSE d + 1
<1>1. /\ Statement(t, "offset", "entry")
      /\ offset' = [offset EXCEPT ![t] = offset[t] + intervals[d] * Stride(d)]
      /\ UNCHANGED <<problem, workers, file, permeability, stage, intervals, matrix, point, value>>
  BY DEF SetOffset, shared
<1>2. /\ Located' /\ t \in workers /\ problem = "Tarbert" /\ point[t] \in Points /\ Inner(point[t])
      /\ pc[t] = "offset" /\ d \in Dims
      /\ pc'[t] = (IF d = 2 THEN "entry" ELSE "offset") /\ dim'[t] = n
      /\ \A u \in Threads : u # t => pc'[u] = pc[u] /\ dim'[u] = dim[u]
  BY <1>1, StatementMoves DEF IInv, Labels
<1>3. /\ offset[t] \in 0 .. Stride(d) - 1 /\ intervals[d] \in 0 .. Blocks[d] - 1
      /\ offset'[t] = offset[t] + intervals[d] * Stride(d)
      /\ DOMAIN offset' = Threads /\ \A u \in Threads : u # t => offset'[u] = offset[u]
  BY <1>1, <1>2 DEF IInv, InParts, Reach
<1> HIDE DEF d
<1>4. offset'[t] \in 0 .. Reach(pc'[t], dim'[t]) - 1
  <2>1. /\ offset'[t] \in 0 .. Stride(d) * Blocks[d] - 1
        /\ d = 0 => Stride(d) * Blocks[d] = Stride(1)
        /\ d = 1 => Stride(d) * Blocks[d] = Stride(2)
        /\ d = 2 => Stride(d) * Blocks[d] = Size
    BY <1>2, <1>3, NextPlace
  <2>2. /\ d = 0 => Reach(pc'[t], dim'[t]) = Stride(1)
        /\ d = 1 => Reach(pc'[t], dim'[t]) = Stride(2)
        /\ d = 2 => Reach(pc'[t], dim'[t]) = Size
    BY <1>2 DEF Reach
  <2>3. d = 0 \/ d = 1 \/ d = 2
    BY <1>2, Sizes
  <2>4. QED
    BY <2>1, <2>2, <2>3
<1>5. InParts'
  <2>1. \A u \in Threads : offset'[u] \in 0 .. Reach(pc'[u], dim'[u]) - 1
    BY <1>2, <1>3, <1>4 DEF IInv, InParts
  <2>2. QED
    BY <1>1, <1>3, <2>1 DEF IInv, InParts, Part, Reach, Stride
<1>6. ASSUME Alone PROVE OnItsWay(t)'
  <2> DEFINE b == WhichPartition(point[t])
  <2>1. offset[t] = Summed(b, d) /\ \A e \in Dims : intervals[e] = b[e]
    BY <1>2, <1>6 DEF IInv, Progress, OnItsWay, IntervalsSet, d
  <2>2. b[0] * Stride(0) \in Int
    <3>1. b[0] \in Int /\ Stride(0) = 1
      BY <1>2, Sizes, PartitionContains DEF Stride
    <3>2. QED
      BY <3>1
  <2> HIDE DEF b
  <2>3. offset'[t] = Summed(b, d) + b[d] * Stride(d)
    BY <1>2, <1>3, <2>1
  <2>4. /\ d # 2 => offset'[t] = Summed(b, d + 1)
        /\ d = 2 => offset'[t] = Subdomain(b)
    <3>1. CASE d = 0
      BY <2>2, <2>3, <3>1 DEF Summed
    <3>2. CASE d = 1
      BY <2>3, <3>2 DEF Summed
    <3>3. CASE d = 2
      BY <2>3, <3>3 DEF Summed, Subdomain
    <3>4. QED
      BY <1>2, <3>1, <3>2, <3>3, Sizes
  <2>5. point' = point /\ intervals' = intervals
    BY <1>1
  <2>6. /\ pc'[t] = "offset" => offset'[t] = Summed(b, dim'[t])
        /\ pc'[t] = "entry" => offset'[t] = Subdomain(b) /\ dim'[t] = 0
        /\ pc'[t] \in {"offset", "entry"}
    BY <1>2, <2>4
  <2>7. /\ (pc[t] = "offset" => offset[t] = Summed(WhichPartition(point[t]), dim[t]))'
        /\ (pc[t] \in {"entry", "copy"} => offset[t] = Wanted(point[t]))'
        /\ (pc[t] # "idle" => \A e \in IntervalsSet(pc[t], dim[t]) : intervals[e] = WhichPartition(point[t])[e])'
    BY <2>1, <2>5, <2>6 DEF b, Summed, Stride, Wanted, Subdomain, WhichPartition, IntervalsSet, Before
  <2>8. (EntriesSet(pc[t], dim[t]) = {} /\ CopiedSet(pc[t], dim[t]) = {})'
    BY <2>6, Sizes DEF EntriesSet, CopiedSet, Before
  <2>9. (pc[t] # "idle")'
    BY <2>6
  <2>10. QED
    BY <2>7, <2>8, <2>9 DEF OnItsWay
<1>7. Progress'
  BY <1>1, <1>2, <1>6, TarbertFrame
<1>8. QED
  BY <1>2, <1>5, <1>7 DEF IInv

\* One entry is read into the matrix.
LEMMA SetEntryStep == ASSUME IInv, NEW t \in Threads, SetEntry(t) PROVE IInv'
<1> DEFINE d == dim[t]  n == IF d = 2 THEN 0 ELSE d + 1
<1>1. /\ Statement(t, "entry", "copy")
      /\ matrix' = [matrix EXCEPT ![d] = InDirection(d, offset[t])]
      /\ UNCHANGED <<problem, workers, file, permeability, stage, intervals, point, offset, value>>
  BY DEF SetEntry, shared
<1>2. /\ Located' /\ t \in workers /\ problem = "Tarbert" /\ point[t] \in Points /\ Inner(point[t])
      /\ pc[t] = "entry" /\ d \in Dims
      /\ pc'[t] = (IF d = 2 THEN "copy" ELSE "entry") /\ dim'[t] = n
      /\ \A u \in Threads : u # t => pc'[u] = pc[u] /\ dim'[u] = dim[u]
  BY <1>1, StatementMoves DEF IInv, Labels
<1>3. offset[t] \in Place
  BY <1>2 DEF IInv, InParts, Reach, Place
<1> HIDE DEF d
<1>4. InDirection(d, offset[t]) \in Part(d) /\ (Alone => InDirection(d, offset[t]) = offset[t] + d * Size)
  BY <1>2, <1>3, EntryInPart DEF Alone
<1>5. /\ matrix' \in [Dims -> Int] /\ matrix'[d] = InDirection(d, offset[t])
      /\ \A e \in Dims : e # d => matrix'[e] = matrix[e]
  <2>1. InDirection(d, offset[t]) \in Int
    BY <1>2, <1>4, Sizes DEF Part, Unset
  <2>2. QED
    BY <1>1, <1>2, <2>1 DEF IInv, InParts
<1>6. InParts'
  <2>1. \A u \in Threads : offset[u] \in 0 .. Reach(pc'[u], dim'[u]) - 1
    <3> SUFFICES ASSUME NEW u \in Threads PROVE offset[u] \in 0 .. Reach(pc'[u], dim'[u]) - 1
      OBVIOUS
    <3>1. offset[u] \in 0 .. Reach(pc[u], dim[u]) - 1
      BY DEF IInv, InParts
    <3>2. CASE u = t
      BY <1>2, <3>1, <3>2 DEF Reach
    <3>3. CASE u # t
      BY <1>2, <3>1, <3>3
    <3>4. QED
      BY <3>2, <3>3
  <2>2. \A e \in Dims : matrix'[e] \in Part(e)
    BY <1>4, <1>5 DEF IInv, InParts
  <2>3. QED
    BY <1>1, <1>5, <2>1, <2>2 DEF IInv, InParts, Part, Reach, Stride
<1>7. ASSUME Alone PROVE OnItsWay(t)'
  <2> DEFINE w == Wanted(point[t])
  <2>1. /\ offset[t] = w
        /\ \A e \in Dims : intervals[e] = WhichPartition(point[t])[e]
        /\ \A e \in Before(d) : matrix[e] = w + e * Size
    BY <1>2, <1>7 DEF IInv, Progress, OnItsWay, IntervalsSet, EntriesSet, d
  <2>2. \A e \in Before(d) \cup {d} : matrix'[e] = w + e * Size
    BY <1>2, <1>4, <1>5, <1>7, <2>1, BeforeGrows
  <2>3. EntriesSet(pc'[t], dim'[t]) = Before(d) \cup {d} /\ CopiedSet(pc'[t], dim'[t]) = {}
    BY <1>2, BeforeGrows DEF EntriesSet, CopiedSet
  <2>4. point' = point /\ intervals' = intervals /\ offset' = offset /\ pc'[t] \in {"entry", "copy"}
    BY <1>1, <1>2
  <2>5. Wanted(point[t])' = w
    BY <2>4 DEF Wanted, Subdomain, Stride, WhichPartition
  <2> HIDE DEF w
  <2>6. (pc[t] # "idle" => \A e \in IntervalsSet(pc[t], dim[t]) : intervals[e] = WhichPartition(point[t])[e])'
    BY <2>1, <2>4 DEF WhichPartition, IntervalsSet, Before
  <2>7. (\A e \in EntriesSet(pc[t], dim[t]) : matrix[e] = Wanted(point[t]) + e * Size)'
    BY <2>2, <2>3, <2>5 DEF EntriesSet, Before
  <2>8. (CopiedSet(pc[t], dim[t]) = {})'
    BY <2>3 DEF CopiedSet, Before
  <2>9. (pc[t] # "idle" /\ pc[t] # "offset" /\ offset[t] = Wanted(point[t]))'
    BY <2>1, <2>4, <2>5
  <2>10. QED
    BY <2>6, <2>7, <2>8, <2>9 DEF OnItsWay
<1>8. Progress'
  BY <1>1, <1>2, <1>7, TarbertFrame
<1>9. QED
  BY <1>2, <1>6, <1>8 DEF IInv

\* The matrix is copied to the result.
LEMMA CopyOutStep == ASSUME IInv, NEW t \in Threads, CopyOut(t) PROVE IInv'
<1> DEFINE d == dim[t]  n == IF d = 2 THEN 0 ELSE d + 1
<1>1. /\ Statement(t, "copy", "idle")
      /\ value' = [value EXCEPT ![t] = [value[t] EXCEPT ![d] = matrix[d]]]
      /\ offset' = [offset EXCEPT ![t] = IF d = 2 THEN 0 ELSE offset[t]]
      /\ UNCHANGED <<problem, workers, file, permeability, stage, intervals, matrix, point>>
  BY DEF CopyOut, shared
<1>2. /\ Located' /\ t \in workers /\ problem = "Tarbert" /\ point[t] \in Points /\ Inner(point[t])
      /\ pc[t] = "copy" /\ d \in Dims
      /\ pc'[t] = (IF d = 2 THEN "idle" ELSE "copy") /\ dim'[t] = n
      /\ \A u \in Threads : u # t => pc'[u] = pc[u] /\ dim'[u] = dim[u]
  BY <1>1, StatementMoves DEF IInv, Labels
<1> HIDE DEF d
<1>3. /\ value' \in [Threads -> [Dims -> Int]]
      /\ value'[t][d] = matrix[d] /\ \A e \in Dims : e # d => value'[t][e] = value[t][e]
      /\ \A u \in Threads : u # t => value'[u] = value[u]
  <2> DEFINE old == value[t]  new == [old EXCEPT ![d] = matrix[d]]
  <2>1. old \in [Dims -> Int] /\ matrix[d] \in Int
    BY <1>2 DEF IInv, InParts
  <2> HIDE DEF old
  <2>2. new \in [Dims -> Int] /\ new[d] = matrix[d] /\ \A e \in Dims : e # d => new[e] = old[e]
    BY <1>2, <2>1
  <2>3. value' = [value EXCEPT ![t] = new] /\ value \in [Threads -> [Dims -> Int]]
    BY <1>1 DEF IInv, InParts, old
  <2> HIDE DEF new
  <2>4. QED
    BY <2>2, <2>3 DEF old
<1>4. InParts'
  <2>1. \A u \in Threads : offset'[u] \in 0 .. Reach(pc'[u], dim'[u]) - 1
    <3> SUFFICES ASSUME NEW u \in Threads PROVE offset'[u] \in 0 .. Reach(pc'[u], dim'[u]) - 1
      OBVIOUS
    <3>1. offset[u] \in 0 .. Reach(pc[u], dim[u]) - 1 /\ DOMAIN offset = Threads
      BY DEF IInv, InParts
    <3>2. CASE u = t
      BY <1>1, <1>2, <3>1, <3>2 DEF Reach
    <3>3. CASE u # t
      BY <1>1, <1>2, <3>1, <3>3
    <3>4. QED
      BY <3>2, <3>3
  <2>2. DOMAIN offset' = Threads
    BY <1>1 DEF IInv, InParts
  <2>3. \A u \in Threads : \A e \in Dims : value'[u][e] \in Part(e)
    BY <1>3 DEF IInv, InParts
  <2>4. QED
    BY <1>1, <1>3, <2>1, <2>2, <2>3 DEF IInv, InParts, Part, Reach, Stride
<1>5. ASSUME Alone PROVE OnItsWay(t)'
  <2> DEFINE w == Wanted(point[t])
  <2>1. /\ offset[t] = w
        /\ \A e \in Dims : intervals[e] = WhichPartition(point[t])[e]
        /\ \A e \in Dims : matrix[e] = w + e * Size
        /\ \A e \in Before(d) : value[t][e] = w + e * Size
    BY <1>2, <1>5 DEF IInv, Progress, OnItsWay, IntervalsSet, EntriesSet, CopiedSet, d
  <2>2. \A e \in Before(d) \cup {d} : value'[t][e] = w + e * Size
    BY <1>2, <1>3, <2>1, BeforeGrows
  <2>3. point' = point /\ intervals' = intervals /\ matrix' = matrix
    BY <1>1
  <2>4. Wanted(point[t])' = w
    BY <2>3 DEF Wanted, Subdomain, Stride, WhichPartition
  <2>5. CASE d = 2
    <3>1. \A e \in Dims : value'[t][e] = w + e * Size
      BY <1>2, <2>2, <2>5, BeforeGrows
    <3> HIDE DEF w
    <3>2. value'[t] = [e \in Dims |-> w + e * Size]
      BY <1>3, <3>1
    <3>3. (value[t] = [e \in Dims |-> Wanted(point[t]) + e * Size] /\ pc[t] = "idle" /\ point[t] \in Points)'
      BY <1>2, <2>3, <2>4, <2>5, <3>2
    <3>4. (EntriesSet(pc[t], dim[t]) = {} /\ CopiedSet(pc[t], dim[t]) = {})'
      BY <3>3 DEF EntriesSet, CopiedSet
    <3>5. QED
      BY <3>3, <3>4 DEF OnItsWay
  <2>6. CASE d # 2
    <3>1. pc'[t] = "copy" /\ dim'[t] = d + 1 /\ offset'[t] = offset[t]
      BY <1>1, <1>2, <2>6 DEF IInv, InParts
    <3>2. CopiedSet(pc'[t], dim'[t]) = Before(d) \cup {d}
      BY <1>2, <2>6, <3>1, BeforeGrows DEF CopiedSet
    <3> HIDE DEF w
    <3>3. (\A e \in CopiedSet(pc[t], dim[t]) : value[t][e] = Wanted(point[t]) + e * Size)'
      BY <2>2, <2>4, <3>2 DEF CopiedSet, Before
    <3>4. EntriesSet(pc'[t], dim'[t]) = Dims /\ IntervalsSet(pc'[t], dim'[t]) = Dims
      BY <3>1 DEF EntriesSet, IntervalsSet
    <3>5. (\A e \in EntriesSet(pc[t], dim[t]) : matrix[e] = Wanted(point[t]) + e * Size)'
      BY <2>1, <2>3, <2>4, <3>4 DEF EntriesSet, Before
    <3>6. (\A e \in IntervalsSet(pc[t], dim[t]) : intervals[e] = WhichPartition(point[t])[e])'
      BY <2>1, <2>3, <3>4 DEF IntervalsSet, Before, WhichPartition
    <3>7. (pc[t] = "copy" /\ offset[t] = Wanted(point[t]))'
      BY <2>1, <2>4, <3>1
    <3>8. QED
      BY <3>3, <3>5, <3>6, <3>7 DEF OnItsWay
  <2>7. QED
    BY <2>5, <2>6
<1>6. Progress'
  BY <1>1, <1>2, <1>5, TarbertFrame
<1>7. QED
  BY <1>2, <1>4, <1>6 DEF IInv

\* Members and values stay in the parts of their directions, and a thread alone
\* finds in the members what it wrote.
LEMMA ReservoirStep == IInv /\ [ReservoirNext]_vars => IInv'
<1>1. ASSUME IInv, UNCHANGED vars PROVE IInv'
  <2>1. UNCHANGED <<problem, workers, file, permeability, stage, intervals, matrix, pc, dim, point, offset, value>>
    BY <1>1 DEF vars, shared
  <2>2. InParts' /\ Located'
    BY <1>1, <2>1 DEF IInv, InParts, Located, Part, Reach, Stride, Inner, Complete
  <2>3. Progress'
    BY <1>1, <2>1, SameProgress
  <2>4. QED
    BY <2>2, <2>3 DEF IInv
<1>2. QED
  BY <1>1, ReadStep, EvaluateStep, EnterStep, SetIntervalStep, SetOffsetStep, SetEntryStep, CopyOutStep
     DEF ReservoirNext

\* The problem is never exchanged.
LEMMA ProblemKept == ReservoirNext => UNCHANGED problem
<1>1. \A t \in Threads : Evaluate(t) \/ Enter(t) \/ SetInterval(t) => UNCHANGED problem
  BY DEF Evaluate, Enter, SetInterval, shared
<1>2. \A t \in Threads : SetOffset(t) \/ SetEntry(t) \/ CopyOut(t) => UNCHANGED problem
  BY DEF SetOffset, SetEntry, CopyOut, shared
<1>3. ReadSPE10 \/ ReadTarbert => UNCHANGED problem
  BY DEF ReadSPE10, ReadTarbert
<1>4. QED
  BY <1>1, <1>2, <1>3 DEF ReservoirNext

---------------------------------------------------------------------------
(* Powers of two                                                          *)

\* A set of numbers that is not empty has a least one.
LEMMA LeastNumber ==
  ASSUME NEW T, T \subseteq Nat, T # {}
  PROVE  \E x \in T : \A y \in T : x <= y
<1> DEFINE R == OpToRel(<, Nat)
<1>1. IsWellFoundedOn(R, Nat)
  BY NatLessThanWellFounded
<1>2. \A x, y \in Nat : y < x => <<y, x>> \in R
  BY DEF OpToRel
<1> HIDE DEF R
<1>3. PICK x \in T : \A y \in T : ~(<<y, x>> \in R)
  BY <1>1, WFMin
<1>4. \A y \in T : x <= y
  <2> SUFFICES ASSUME NEW y \in T PROVE x <= y
    OBVIOUS
  <2>1. x \in Nat /\ y \in Nat /\ ~(y < x)
    BY <1>2, <1>3
  <2>2. QED
    BY <2>1
<1>5. QED
  BY <1>4

\* A recursion with a step function has the function it says, on every number.
LEMMA RecursionOnNat ==
  ASSUME NEW S, NEW base \in S, NEW step \in [S -> S]
  PROVE  \E f \in [Nat -> S] : \A n \in Nat : f[n] = IF n = 0 THEN base ELSE step[f[n - 1]]
<1> DEFINE Begins(f, n) == f \in [0 .. n -> S] /\ f[0] = base /\ \A i \in 1 .. n : f[i] = step[f[i - 1]]
           Without == {n \in Nat : ~\E f : Begins(f, n)}
           Two == {n \in Nat : \E f, g : \E m \in Nat : m >= n /\ Begins(f, n) /\ Begins(g, m) /\ f[n] # g[n]}
<1>1. \A n \in Nat : \E f : Begins(f, n)
  <2> SUFFICES ASSUME Without # {} PROVE FALSE
    OBVIOUS
  <2>1. PICK n \in Without : \A y \in Without : n <= y
    BY LeastNumber
  <2>2. n \in Nat
    OBVIOUS
  <2>3. n # 0
    <3> DEFINE f == [i \in 0 .. 0 |-> base]
    <3>1. Begins(f, 0)
      OBVIOUS
    <3>2. QED
      BY <3>1
  <2>4. n - 1 \in Nat /\ ~(n <= n - 1)
    BY <2>2, <2>3
  <2>5. PICK f : Begins(f, n - 1)
    BY <2>1, <2>4
  <2> DEFINE g == [i \in 0 .. n |-> IF i = n THEN step[f[n - 1]] ELSE f[i]]
  <2>6. f[n - 1] \in S
    BY <2>4, <2>5
  <2>7. g \in [0 .. n -> S]
    BY <2>2, <2>3, <2>5, <2>6
  <2>8. g[0] = base /\ \A i \in 1 .. n : g[i] = step[g[i - 1]]
    BY <2>2, <2>3, <2>5, <2>6
  <2>9. QED
    BY <2>2, <2>7, <2>8
<1>2. ASSUME NEW n \in Nat, NEW m \in Nat, m >= n, NEW f, NEW g, Begins(f, n), Begins(g, m)
      PROVE  f[n] = g[n]
  <2> SUFFICES ASSUME Two # {} PROVE FALSE
    BY <1>2
  <2>1. PICK z \in Two : \A y \in Two : z <= y
    BY LeastNumber
  <2>2. PICK p, q : \E l \in Nat : l >= z /\ Begins(p, z) /\ Begins(q, l) /\ p[z] # q[z]
    BY <2>1
  <2>3. PICK l \in Nat : l >= z /\ Begins(p, z) /\ Begins(q, l) /\ p[z] # q[z]
    BY <2>2
  <2>4. z \in Nat /\ z # 0
    BY <2>3
  <2> DEFINE r == [i \in 0 .. z - 1 |-> p[i]]
  <2>5. Begins(r, z - 1)
    BY <2>3, <2>4
  <2>6. r[z - 1] = p[z - 1]
    BY <2>4
  <2>7. z - 1 \in Nat /\ z - 1 \notin Two /\ l >= z - 1
    <3>1. \A y \in Two : z <= y
      BY <2>1
    <3> HIDE DEF Two
    <3>2. QED
      BY <2>3, <2>4, <3>1
  <2>8. p[z] = step[p[z - 1]] /\ q[z] = step[q[z - 1]]
    BY <2>3, <2>4
  <2> HIDE DEF Begins, r
  <2>9. r[z - 1] = q[z - 1]
    BY <2>3, <2>5, <2>7
  <2>10. QED
    BY <2>3, <2>6, <2>8, <2>9
<1> DEFINE h == [n \in Nat |-> (CHOOSE f : Begins(f, n))[n]]
<1>3. \A n \in Nat : Begins(CHOOSE f : Begins(f, n), n)
  BY <1>1
<1> HIDE DEF Begins
<1>4. ASSUME NEW n \in Nat PROVE h[n] \in S /\ h[n] = IF n = 0 THEN base ELSE step[h[n - 1]]
  <2> DEFINE c == CHOOSE f : Begins(f, n)
  <2>1. Begins(c, n) /\ h[n] = c[n]
    BY <1>3
  <2> HIDE DEF c, h
  <2>2. h[n] \in S
    BY <2>1 DEF Begins
  <2>3. CASE n = 0
    BY <2>1, <2>2, <2>3 DEF Begins
  <2>4. CASE n # 0
    <3> DEFINE d == CHOOSE f : Begins(f, n - 1)
    <3>1. n - 1 \in Nat /\ n >= n - 1
      BY <2>4
    <3>2. Begins(d, n - 1) /\ h[n - 1] = d[n - 1]
      BY <1>3, <3>1 DEF h
    <3> HIDE DEF d
    <3>3. d[n - 1] = c[n - 1]
      BY <1>2, <2>1, <3>1, <3>2
    <3>4. c[n] = step[c[n - 1]]
      BY <2>1, <2>4 DEF Begins
    <3>5. QED
      BY <2>1, <2>2, <2>4, <3>2, <3>3, <3>4
  <2>5. QED
    BY <2>3, <2>4
<1>5. h \in [Nat -> S]
  BY <1>4
<1> HIDE DEF h
<1>6. QED
  BY <1>4, <1>5

P == Block!PowerOf2

\* 1 << n doubles with every n.
LEMMA PowerDoubles ==
  /\ P[0] = 1
  /\ \A n \in Nat : P[n] \in Nat /\ P[n + 1] = 2 * P[n]
<1> DEFINE double == [m \in Nat |-> 2 * m]
           one == 1
           Values == Nat
<1>1. double \in [Values -> Values] /\ one \in Values
  OBVIOUS
<1> HIDE DEF double, one, Values
<1>2. \E f \in [Nat -> Values] : \A n \in Nat : f[n] = IF n = 0 THEN one ELSE double[f[n - 1]]
  BY <1>1, RecursionOnNat
<1>11. PICK f \in [Nat -> Nat] : \A n \in Nat : f[n] = IF n = 0 THEN 1 ELSE double[f[n - 1]]
  BY <1>2 DEF one, Values
<1>3. \A n \in Nat : f[n] = IF n = 0 THEN 1 ELSE 2 * f[n - 1]
  <2> SUFFICES ASSUME NEW n \in Nat PROVE f[n] = IF n = 0 THEN 1 ELSE 2 * f[n - 1]
    OBVIOUS
  <2>1. CASE n = 0
    BY <1>11, <2>1
  <2>2. CASE n # 0
    <3>1. n - 1 \in Nat
      BY <2>2
    <3>2. f[n - 1] \in Nat
      BY <3>1
    <3>3. double[f[n - 1]] = 2 * f[n - 1]
      BY <3>2 DEF double
    <3>4. QED
      BY <1>11, <2>2, <3>3
  <2>3. QED
    BY <2>1, <2>2
<1>4. f = [n \in Nat |-> IF n = 0 THEN 1 ELSE 2 * f[n - 1]]
  BY <1>3
<1>5. \E g : g = [n \in Nat |-> IF n = 0 THEN 1 ELSE 2 * g[n - 1]]
  BY <1>4
<1>6. P = [n \in Nat |-> IF n = 0 THEN 1 ELSE 2 * P[n - 1]]
  BY <1>5 DEF P, Block!PowerOf2
<1>7. \A n \in Nat : P[n] = IF n = 0 THEN 1 ELSE 2 * P[n - 1]
  BY <1>6
<1>8. \A n \in Nat : P[n + 1] = 2 * P[n]
  <2> SUFFICES ASSUME NEW n \in Nat PROVE P[n + 1] = 2 * P[n]
    OBVIOUS
  <2>1. n + 1 \in Nat /\ n + 1 # 0 /\ (n + 1) - 1 = n
    OBVIOUS
  <2>2. QED
    BY <1>7, <2>1
<1>9. \A n \in Nat : P[n] \in Nat
  <2> DEFINE T == {n \in Nat : P[n] \notin Nat}
  <2> SUFFICES ASSUME T # {} PROVE FALSE
    OBVIOUS
  <2>1. PICK n \in T : \A y \in T : n <= y
    BY LeastNumber
  <2>2. n # 0
    BY <1>7
  <2>3. n - 1 \in Nat /\ n - 1 \notin T
    BY <2>1, <2>2
  <2>4. P[n - 1] \in Nat
    BY <2>3
  <2>5. QED
    BY <1>7, <2>1, <2>2, <2>4
<1>10. QED
  BY <1>7, <1>8, <1>9

\* A shift by the sum is the product of the shifts, and no shift is zero.
LEMMA PowerOfSum ==
  ASSUME NEW a \in Nat, NEW b \in Nat
  PROVE  P[a + b] = P[a] * P[b] /\ P[a] >= 1
<1>1. \A n \in Nat : P[a + n] = P[a] * P[n]
  <2> DEFINE T == {n \in Nat : P[a + n] # P[a] * P[n]}
  <2> SUFFICES ASSUME T # {} PROVE FALSE
    OBVIOUS
  <2>1. PICK n \in T : \A y \in T : n <= y
    BY LeastNumber
  <2>2. P[a] \in Nat /\ P[0] = 1 /\ a + 0 = a
    BY PowerDoubles
  <2>3. n # 0
    BY <2>2
  <2>4. n - 1 \in Nat /\ n - 1 \notin T /\ a + n = (a + (n - 1)) + 1 /\ a + (n - 1) \in Nat /\ n = (n - 1) + 1
    BY <2>1, <2>3
  <2>5. P[a + (n - 1)] = P[a] * P[n - 1]
    BY <2>4
  <2>6. P[a + n] = 2 * P[a + (n - 1)] /\ P[n] = 2 * P[n - 1] /\ P[n - 1] \in Nat
    BY <2>4, PowerDoubles
  <2>7. \A x, y \in Nat : 2 * (x * y) = x * (2 * y)
    OBVIOUS
  <2>8. QED
    BY <2>2, <2>5, <2>6, <2>7
<1>2. P[a] >= 1
  <2> DEFINE T == {n \in Nat : ~(P[n] >= 1)}
  <2> SUFFICES ASSUME T # {} PROVE FALSE
    OBVIOUS
  <2>1. PICK n \in T : \A y \in T : n <= y
    BY LeastNumber
  <2>2. n # 0
    BY PowerDoubles
  <2>3. n - 1 \in Nat /\ n - 1 \notin T /\ n = (n - 1) + 1
    BY <2>1, <2>2
  <2>4. P[n] = 2 * P[n - 1] /\ P[n - 1] \in Nat /\ P[n - 1] >= 1
    BY <2>3, PowerDoubles
  <2>5. QED
    BY <2>4
<1>3. QED
  BY <1>1, <1>2

\* A larger shift is a larger number.
LEMMA PowerMonotone ==
  ASSUME NEW a \in Nat, NEW b \in Nat
  PROVE  (a <= b => P[a] <= P[b]) /\ (P[a] <= P[b] => a <= b)
<1>1. ASSUME NEW x \in Nat, NEW y \in Nat, x <= y PROVE P[x] <= P[y]
  <2>1. y - x \in Nat /\ x + (y - x) = y
    BY <1>1
  <2> DEFINE z == y - x
  <2>2. P[y] = P[x] * P[z] /\ P[z] >= 1 /\ P[x] \in Nat /\ P[z] \in Nat
    <3>1. z \in Nat /\ x + z = y
      BY <2>1
    <3> HIDE DEF z
    <3>2. P[x + z] = P[x] * P[z] /\ P[z] >= 1
      BY <3>1, PowerOfSum
    <3>3. QED
      BY <3>1, <3>2, PowerDoubles
  <2>3. \A u, v \in Nat : v >= 1 => u <= u * v
    OBVIOUS
  <2>4. QED
    BY <2>2, <2>3
<1>2. ASSUME P[a] <= P[b], ~(a <= b) PROVE FALSE
  <2>1. b + 1 <= a
    BY <1>2
  <2>2. P[b + 1] <= P[a]
    BY <1>1, <2>1
  <2>3. P[b + 1] = 2 * P[b] /\ P[b] \in Nat /\ P[b] >= 1 /\ P[a] \in Nat
    BY PowerDoubles, PowerOfSum
  <2>4. QED
    BY <1>2, <2>2, <2>3
<1>3. QED
  BY <1>1, <1>2

---------------------------------------------------------------------------
(* The blocks of the ranks                                                 *)

K == Block!Dims

\* What init asserts.
ConfOK ==
  /\ DIM \in {2, 3}
  /\ \E s \in Nat \ {0} : N = P[s]
  /\ \E l \in 0 .. MaxLog2Proc[DIM] : nProc = P[l]
  /\ MaxLog2Proc[DIM] \in Nat
  /\ nProc <= 2 * N
  /\ iProc \in 0 .. nProc - 1
  /\ overlap \in Nat

\* The processors per dimension make the grid of all processors, in every
\* dimension a number of them that divides the segments; the layers of all
\* processors are as thick.
LEMMA PartitionDivides ==
  ASSUME ConfOK
  PROVE  /\ N \in Nat \ {0} /\ nProc \in Nat \ {0}
         /\ Block!Partition(nProc) \in [K -> Nat \ {0}]
         /\ Block!Product(Block!Partition(nProc)) = nProc
         /\ \A d \in K : Block!BlockLen(d) \in Nat \ {0} /\ N = Block!Partition(nProc)[d] * Block!BlockLen(d)
         /\ Block!n0 \in Nat \ {0} /\ nProc * Block!n0 = 2 * N
<1> DEFINE l == Block!Log2(nProc)
           nAll == l \div DIM
           nMore == l - nAll * DIM
           e(d) == nAll + (IF d < nMore THEN 1 ELSE 0)
           part == Block!Partition(nProc)
<1>1. PICK s \in Nat \ {0} : N = P[s]
  BY DEF ConfOK
<1>2. l \in Nat /\ P[l] = nProc
  <2>1. l \in 0 .. MaxLog2Proc[DIM] /\ P[l] = nProc
    BY DEF ConfOK, Block!Log2, P
  <2>2. QED
    BY <2>1 DEF ConfOK
<1> HIDE DEF l
<1>3. N \in Nat \ {0} /\ nProc \in Nat \ {0}
  <2>1. P[s] \in Nat /\ P[s] >= 1 /\ P[l] \in Nat /\ P[l] >= 1
    BY <1>2, PowerDoubles, PowerOfSum
  <2>2. QED
    BY <1>1, <1>2, <2>1
<1>4. l <= s + 1
  <2>1. P[s + 1] = 2 * N
    BY <1>1, PowerDoubles
  <2>2. P[l] <= P[s + 1]
    BY <1>2, <2>1 DEF ConfOK
  <2>3. QED
    BY <1>2, <2>2, PowerMonotone
<1>5. part = [d \in K |-> P[e(d)]]
  BY DEF Block!Partition, l, K, P
<1>6. \A d \in K : e(d) \in Nat /\ e(d) <= s
  BY <1>2, <1>4 DEF ConfOK, K, Block!Dims
<1>7. /\ DIM = 2 => K = {0, 1} /\ e(0) + e(1) = l
      /\ DIM = 3 => K = {0, 1, 2} /\ (e(0) + e(1)) + e(2) = l
  <2>1. DIM = 2 => K = {0, 1}
    BY DEF K, Block!Dims
  <2>2. DIM = 3 => K = {0, 1, 2}
    BY DEF K, Block!Dims
  <2>3. DIM = 2 => e(0) + e(1) = l
    BY <1>2
  <2>4. DIM = 3 => (e(0) + e(1)) + e(2) = l
    BY <1>2
  <2>5. QED
    BY <2>1, <2>2, <2>3, <2>4
<1> HIDE DEF e
<1>8. part \in [K -> Nat \ {0}]
  <2>1. \A d \in K : P[e(d)] \in Nat /\ P[e(d)] >= 1
    BY <1>6, PowerDoubles, PowerOfSum
  <2>2. QED
    BY <1>5, <2>1
<1>9. Block!Product(part) = nProc
  <2>1. CASE DIM = 2
    <3>1. K = {0, 1} /\ e(0) + e(1) = l /\ e(0) \in Nat /\ e(1) \in Nat
      BY <1>6, <1>7, <2>1
    <3>2. P[e(0) + e(1)] = P[e(0)] * P[e(1)]
      BY <3>1, PowerOfSum
    <3>3. part[0] = P[e(0)] /\ part[1] = P[e(1)] /\ P[e(0)] \in Nat /\ P[e(1)] \in Nat
      BY <1>5, <3>1, PowerDoubles
    <3>4. Block!Product(part) = part[0] * part[1]
      BY <2>1, <3>3 DEF Block!Product
    <3>5. QED
      BY <1>2, <3>1, <3>2, <3>3, <3>4
  <2>2. CASE DIM = 3
    <3>1. K = {0, 1, 2} /\ (e(0) + e(1)) + e(2) = l /\ e(0) \in Nat /\ e(1) \in Nat /\ e(2) \in Nat /\ e(0) + e(1) \in Nat
      BY <1>6, <1>7, <2>2
    <3>2. P[e(0) + e(1)] = P[e(0)] * P[e(1)] /\ P[(e(0) + e(1)) + e(2)] = P[e(0) + e(1)] * P[e(2)]
      BY <3>1, PowerOfSum
    <3>3. part[0] = P[e(0)] /\ part[1] = P[e(1)] /\ part[2] = P[e(2)]
      BY <1>5, <3>1
    <3>4. Block!Product(part) = part[0] * part[1] * part[2]
      BY <2>2 DEF Block!Product
    <3>5. QED
      BY <1>2, <3>1, <3>2, <3>3, <3>4
  <2>3. QED
    BY <2>1, <2>2 DEF ConfOK
<1>10. ASSUME NEW d \in K PROVE Block!BlockLen(d) \in Nat \ {0} /\ N = part[d] * Block!BlockLen(d)
  <2> DEFINE r == s - e(d)
  <2>1. e(d) \in Nat /\ r \in Nat /\ e(d) + r = s
    BY <1>6
  <2> HIDE DEF r
  <2>2. P[e(d) + r] = P[e(d)] * P[r] /\ P[e(d)] >= 1 /\ P[r] >= 1 /\ P[e(d)] \in Nat /\ P[r] \in Nat
    BY <2>1, PowerOfSum, PowerDoubles
  <2>3. N = part[d] * P[r] /\ part[d] = P[e(d)]
    BY <1>1, <1>5, <2>1, <2>2
  <2>4. Block!BlockLen(d) = N \div part[d]
    BY DEF Block!BlockLen
  <2>5. \A x, y \in Nat : x >= 1 => (x * y) \div x = y
    OBVIOUS
  <2>6. Block!BlockLen(d) = P[r]
    BY <2>2, <2>3, <2>4, <2>5
  <2>7. QED
    BY <2>2, <2>3, <2>6
<1>11. Block!n0 \in Nat \ {0} /\ nProc * Block!n0 = 2 * N
  <2> DEFINE r == (s + 1) - l
  <2>1. r \in Nat /\ l + r = s + 1
    BY <1>2, <1>4
  <2> HIDE DEF r
  <2>2. P[l + r] = P[l] * P[r] /\ P[l] >= 1 /\ P[r] >= 1 /\ P[l] \in Nat /\ P[r] \in Nat
    BY <1>2, <2>1, PowerOfSum, PowerDoubles
  <2>3. 2 * N = nProc * P[r]
    BY <1>1, <1>2, <2>1, <2>2, PowerDoubles
  <2>4. Block!n0 = (2 * N) \div nProc
    BY DEF Block!n0
  <2>5. \A x, y \in Nat : x >= 1 => (x * y) \div x = y
    OBVIOUS
  <2>6. Block!n0 = P[r]
    BY <1>2, <2>2, <2>3, <2>4, <2>5
  <2>7. QED
    BY <2>2, <2>3, <2>6
<1>12. QED
  BY <1>3, <1>8, <1>9, <1>10, <1>11

\* Mixed-radix numbers: every pair, and every triple, of digits has one number
\* below the product of the radices, and the digits are found by dividing.
LEMMA PairOfDigits ==
  ASSUME NEW a \in Nat \ {0}, NEW b \in Nat \ {0}, NEW x \in 0 .. a - 1, NEW y \in 0 .. b - 1
  PROVE  /\ x + a * y \in 0 .. a * b - 1
         /\ (x + a * y) % a = x /\ (x + a * y) \div a = y
         /\ \A i \in Nat : i % a = x /\ i \div a = y => i = x + a * y
<1>1. a * y >= 0 /\ a * y \in Nat
  OBVIOUS
<1>2. a * b = a * y + a * (b - y) /\ a * (b - y) >= a
  <2>1. a * b = a * y + a * (b - y)
    OBVIOUS
  <2>2. b - y \in Nat /\ b - y >= 1
    OBVIOUS
  <2>3. \A u, v \in Nat : v >= 1 => u * v >= u
    OBVIOUS
  <2>4. QED
    BY <2>1, <2>2, <2>3
<1>3. a * b \in Nat
  OBVIOUS
<1>4. x + a * y \in 0 .. a * b - 1
  <2> DEFINE u == a * y  v == a * (b - y)  w == a * b
  <2>1. u \in Nat /\ v \in Int /\ w \in Nat /\ w = u + v /\ v >= a
    BY <1>1, <1>2, <1>3
  <2> HIDE DEF u, v, w
  <2>2. x + u \in 0 .. w - 1
    BY <2>1
  <2>3. QED
    BY <2>2 DEF u, w
<1>5. (x + a * y) % a = x /\ (x + a * y) \div a = y
  OBVIOUS
<1>6. \A i \in Nat : i = a * (i \div a) + (i % a)
  OBVIOUS
<1>7. QED
  BY <1>4, <1>5, <1>6

\* Dividing gives the digits of a number back.
LEMMA DigitsOfSum ==
  ASSUME NEW a \in Nat \ {0}, NEW x \in 0 .. a - 1, NEW y \in Nat
  PROVE  (x + a * y) % a = x /\ (x + a * y) \div a = y
<1>1. a * y \in Nat
  OBVIOUS
<1>2. QED
  OBVIOUS

\* The digits of the lower part of a number are those of the number.
LEMMA LowerDigits ==
  ASSUME NEW a \in Nat \ {0}, NEW b \in Nat \ {0}, NEW q \in Nat
  PROVE  /\ q % (a * b) \in Nat
         /\ (q % (a * b)) % a = q % a /\ (q % (a * b)) \div a = (q \div a) % b
<1> DEFINE ab == a * b
           k == q \div ab
           m == q % ab
           h == m \div a
           r == m % a
<1>1. ab \in Nat \ {0}
  OBVIOUS
<1>2. ab = a * b
  OBVIOUS
<1> HIDE DEF ab
<1>3. k \in Nat /\ m \in 0 .. ab - 1 /\ q = ab * k + m
  BY <1>1
<1> HIDE DEF k, m
<1>4. h \in Nat /\ r \in 0 .. a - 1 /\ m = a * h + r
  BY <1>1, <1>3
<1>5. h < b
  BY <1>1, <1>2, <1>3
<1> HIDE DEF h, r
<1>6. b * k + h \in Nat
  BY <1>3, <1>4
<1>7. q = r + a * (b * k + h)
  <2>1. ab * k = a * (b * k)
    BY <1>2, <1>3
  <2>2. a * (b * k + h) = a * (b * k) + a * h
    BY <1>3, <1>4
  <2> DEFINE t == a * (b * k)  u == a * h  v == a * (b * k + h)
  <2>3. t \in Nat /\ u \in Nat /\ v = t + u /\ q = t + m /\ m = u + r
    BY <1>3, <1>4, <2>1, <2>2
  <2> HIDE DEF t, u, v
  <2>4. q = r + v
    BY <1>4, <2>3
  <2>5. QED
    BY <2>4 DEF v
<1>8. q % a = r /\ q \div a = b * k + h
  BY <1>4, <1>6, <1>7, DigitsOfSum
<1>9. (h + b * k) % b = h
  <2>1. h \in 0 .. b - 1
    BY <1>4, <1>5
  <2>2. QED
    BY <1>3, <2>1, DigitsOfSum
<1>10. b * k \in Nat
  BY <1>3
<1>11. (q \div a) % b = h
  BY <1>4, <1>8, <1>9, <1>10
<1>12. QED
  BY <1>1, <1>3, <1>8, <1>11 DEF h, r, m, ab

\* The position of a rank on the grid of processors is there, and every place of
\* the grid has one rank.
LEMMA OneRankPerPlace ==
  ASSUME ConfOK, NEW pos \in [K -> Nat], \A d \in K : pos[d] < Block!Partition(nProc)[d]
  PROVE  \E i \in 0 .. nProc - 1 : \A q \in 0 .. nProc - 1 :
           q = i <=> \A d \in K : pos[d] = Block!GridPosition(q, Block!Partition(nProc))[d]
<1> DEFINE part == Block!Partition(nProc)
           Pos(q) == Block!GridPosition(q, part)
<1>1. nProc \in Nat \ {0} /\ part \in [K -> Nat \ {0}] /\ Block!Product(part) = nProc
  BY PartitionDivides
<1>2. \A q : Pos(q) = [d \in K |-> (q \div Block!Off(part, d)) % part[d]]
  BY DEF Block!GridPosition, K
<1> HIDE DEF part, Pos
<1>3. CASE DIM = 2
  <2> DEFINE a == part[0]  b == part[1]  x == pos[0]  y == pos[1]
  <2>1. K = {0, 1} /\ a \in Nat \ {0} /\ b \in Nat \ {0}
    BY <1>1, <1>3 DEF K, Block!Dims
  <2>2. x \in 0 .. a - 1 /\ y \in 0 .. b - 1
    BY <2>1 DEF part
  <2>3. nProc = a * b
    BY <1>1, <1>3, <2>1 DEF Block!Product
  <2>4. Block!Off(part, 0) = 1 /\ Block!Off(part, 1) = a
    BY <2>1 DEF Block!Off
  <2>5. \A q : Pos(q) = [d \in {0, 1} |-> (q \div Block!Off(part, d)) % part[d]]
    BY <1>2, <2>1
  <2>6. \A q : Pos(q)[0] = (q \div 1) % a /\ Pos(q)[1] = (q \div a) % b
    BY <2>4, <2>5
  <2> HIDE DEF a, b, x, y
  <2>7. ASSUME NEW q \in Nat, q < nProc PROVE Pos(q)[0] = q % a /\ Pos(q)[1] = q \div a
    <3>1. q \div a \in Nat /\ q \div a < b
      BY <2>1, <2>3, <2>7
    <3>2. (q \div a) % b = q \div a /\ q \div 1 = q
      BY <2>1, <3>1
    <3>3. QED
      BY <2>6, <3>2
  <2> DEFINE i == x + a * y
  <2>8. i \in 0 .. nProc - 1 /\ i % a = x /\ i \div a = y /\ \A q \in Nat : q % a = x /\ q \div a = y => q = i
    BY <2>1, <2>2, <2>3, PairOfDigits
  <2> HIDE DEF i
  <2>9. \A q \in 0 .. nProc - 1 : q = i <=> q % a = x /\ q \div a = y
    BY <1>1, <2>8
  <2>10. \A q \in 0 .. nProc - 1 : q = i <=> x = Pos(q)[0] /\ y = Pos(q)[1]
    BY <1>1, <2>7, <2>9
  <2>11. \A q \in 0 .. nProc - 1 : q = i <=> \A d \in K : pos[d] = Pos(q)[d]
    BY <2>1, <2>10 DEF x, y
  <2>12. QED
    BY <2>8, <2>11 DEF Pos, part
<1>4. CASE DIM = 3
  <2> DEFINE a == part[0]  b == part[1]  c == part[2]  x == pos[0]  y == pos[1]  z == pos[2]
  <2>1. K = {0, 1, 2} /\ a \in Nat \ {0} /\ b \in Nat \ {0} /\ c \in Nat \ {0}
    BY <1>1, <1>4 DEF K, Block!Dims
  <2>2. x \in 0 .. a - 1 /\ y \in 0 .. b - 1 /\ z \in 0 .. c - 1
    BY <2>1 DEF part
  <2>3. nProc = (a * b) * c /\ a * b \in Nat \ {0}
    BY <1>1, <1>4, <2>1 DEF Block!Product
  <2>4. Block!Off(part, 0) = 1 /\ Block!Off(part, 1) = a /\ Block!Off(part, 2) = a * b
    BY <2>1 DEF Block!Off
  <2>5. \A q : Pos(q) = [d \in {0, 1, 2} |-> (q \div Block!Off(part, d)) % part[d]]
    BY <1>2, <2>1
  <2>6. \A q : Pos(q)[0] = (q \div 1) % a /\ Pos(q)[1] = (q \div a) % b /\ Pos(q)[2] = (q \div (a * b)) % c
    BY <2>4, <2>5
  <2> HIDE DEF a, b, c, x, y, z
  <2>7. ASSUME NEW q \in Nat, q < nProc
        PROVE  Pos(q)[0] = q % a /\ Pos(q)[1] = (q \div a) % b /\ Pos(q)[2] = q \div (a * b)
    <3> DEFINE ab == a * b
    <3>1. ab \in Nat \ {0} /\ q < ab * c
      BY <2>3, <2>7
    <3> HIDE DEF ab
    <3>2. q \div ab \in Nat /\ q \div ab < c
      BY <2>1, <3>1
    <3>3. (q \div ab) % c = q \div ab /\ q \div 1 = q
      BY <2>1, <3>2
    <3>4. QED
      BY <2>6, <3>3 DEF ab
  <2> DEFINE i == (x + a * y) + (a * b) * z
  <2>8. /\ i \in 0 .. (a * b) * c - 1
        /\ \A q \in Nat : q = i <=> q % a = x /\ (q \div a) % b = y /\ q \div (a * b) = z
    <3> DEFINE ab == a * b
               j == x + a * y
    <3>1. j \in 0 .. a * b - 1 /\ j % a = x /\ j \div a = y /\ \A q \in Nat : q % a = x /\ q \div a = y => q = j
      BY <2>1, <2>2, PairOfDigits
    <3>2. ab \in Nat \ {0} /\ j \in 0 .. ab - 1 /\ i = j + ab * z
      BY <2>1, <3>1
    <3> HIDE DEF ab, j, i
    <3>3. i \in 0 .. ab * c - 1 /\ i % ab = j /\ i \div ab = z /\ \A q \in Nat : q % ab = j /\ q \div ab = z => q = i
      BY <2>1, <2>2, <3>2, PairOfDigits
    <3>4. ASSUME NEW q \in Nat PROVE q = i <=> q % a = x /\ (q \div a) % b = y /\ q \div ab = z
      <4>1. (q % ab) % a = q % a /\ (q % ab) \div a = (q \div a) % b /\ q % ab \in Nat
        BY <2>1, LowerDigits DEF ab
      <4>2. q % ab = j <=> (q % ab) % a = x /\ (q % ab) \div a = y
        BY <3>1, <4>1
      <4>3. q = i <=> q % ab = j /\ q \div ab = z
        BY <3>3
      <4>4. QED
        BY <4>1, <4>2, <4>3
    <3>5. QED
      BY <3>3, <3>4 DEF ab
  <2> HIDE DEF i
  <2>9. \A q \in 0 .. nProc - 1 : q = i <=> x = Pos(q)[0] /\ y = Pos(q)[1] /\ z = Pos(q)[2]
    BY <1>1, <2>7, <2>8
  <2>10. \A q \in 0 .. nProc - 1 : q = i <=> \A d \in K : pos[d] = Pos(q)[d]
    BY <2>1, <2>9 DEF x, y, z
  <2>11. i \in 0 .. nProc - 1
    BY <2>3, <2>8
  <2>12. QED
    BY <2>10, <2>11 DEF Pos, part
<1>5. QED
  BY <1>3, <1>4 DEF ConfOK

\* The node ranges of the blocks: inside of the field, and as wide as the
\* segments of the rank's place and the overlap.
LEMMA RangeOfBlock ==
  ASSUME ConfOK, NEW i \in 0 .. nProc - 1, NEW d \in K
  PROVE  LET lo == Block!BlockRange(i).lo[d]
             hi == Block!BlockRange(i).hi[d]
             at == Block!BlockLen(d) * Block!GridPosition(i, Block!Partition(nProc))[d]
         IN /\ lo \in Nat /\ hi \in Nat /\ lo <= hi /\ hi <= N
            /\ at \in Nat /\ at + Block!BlockLen(d) <= N
            /\ lo <= at /\ at + Block!BlockLen(d) <= hi
<1> DEFINE part == Block!Partition(nProc)
           len == Block!BlockLen(d)
           pos == Block!GridPosition(i, part)[d]
           lo == Block!BlockRange(i).lo[d]
           hi == Block!BlockRange(i).hi[d]
           at == len * pos
           next == len * (pos + 1)
<1>1. N \in Nat \ {0} /\ nProc \in Nat \ {0} /\ part[d] \in Nat \ {0} /\ len \in Nat \ {0} /\ N = part[d] * len
      /\ part \in [K -> Nat \ {0}] /\ overlap \in Nat
  BY PartitionDivides DEF ConfOK
<1>2. pos = (i \div Block!Off(part, d)) % part[d]
  BY DEF Block!GridPosition, K
<1>3. lo = Block!max(0, len * pos - overlap) /\ hi = Block!min(N, len * (pos + 1) + overlap)
  BY DEF Block!BlockRange, K
<1> HIDE DEF part, len, lo, hi
<1>4. Block!Off(part, d) \in Nat \ {0}
  <2>1. d > 0 => 0 \in K
    BY DEF K, Block!Dims, ConfOK
  <2>2. d > 1 => 1 \in K
    BY DEF K, Block!Dims, ConfOK
  <2>3. d \in Int
    BY DEF K, Block!Dims
  <2>4. \A x, y \in Nat \ {0} : x * y \in Nat \ {0}
    OBVIOUS
  <2>5. (IF d > 0 THEN part[0] ELSE 1) \in Nat \ {0} /\ (IF d > 1 THEN part[1] ELSE 1) \in Nat \ {0}
    BY <1>1, <2>1, <2>2, <2>3
  <2>6. QED
    BY <2>4, <2>5 DEF Block!Off
<1>5. pos \in 0 .. part[d] - 1
  <2>1. i \in Nat
    BY <1>1
  <2>2. i \div Block!Off(part, d) \in Nat
    BY <1>4, <2>1
  <2>3. QED
    BY <1>1, <1>2, <2>2
<1> HIDE DEF pos
<1>6. at \in Nat /\ next = at + len /\ next <= N
  <2>1. next = len * pos + len
    BY <1>1, <1>5
  <2>2. N = len * (pos + 1) + len * (part[d] - (pos + 1)) /\ len * (part[d] - (pos + 1)) >= 0
    <3>1. part[d] - (pos + 1) \in Nat
      BY <1>1, <1>5
    <3>2. N = len * ((pos + 1) + (part[d] - (pos + 1)))
      BY <1>1, <1>5
    <3>3. QED
      BY <1>1, <1>5, <3>1, <3>2
  <2> DEFINE rest == len * (part[d] - (pos + 1))
  <2>3. at \in Nat /\ rest \in Int /\ next = at + len /\ N = next + rest /\ rest >= 0
    BY <1>1, <1>5, <2>1, <2>2
  <2> HIDE DEF rest, at, next
  <2>4. QED
    BY <1>1, <2>3
<1>7. lo = Block!max(0, at - overlap) /\ hi = Block!min(N, next + overlap)
  BY <1>3
<1> HIDE DEF at, next
<1>8. lo \in Nat /\ hi \in Nat /\ lo <= hi /\ hi <= N /\ lo <= at /\ next <= hi
  BY <1>1, <1>6, <1>7 DEF Block!max, Block!min
<1>9. QED
  BY <1>6, <1>8 DEF at, lo, hi, len, pos, part

\* Every segment has one rank, whose block has its corners.
LEMMA SegmentsHaveARank == ConfOK => Block!SegmentsDistributed
<1> SUFFICES ASSUME ConfOK, NEW s \in [Block!Dims -> 0 .. N - 1]
             PROVE  \E i \in 0 .. nProc - 1 :
                      /\ Block!Given(s) = {i}
                      /\ \A d \in Block!Dims :
                           Block!BlockRange(i).lo[d] <= s[d] /\ s[d] + 1 <= Block!BlockRange(i).hi[d]
  BY DEF Block!SegmentsDistributed
<1> DEFINE part == Block!Partition(nProc)
           pos == [d \in K |-> s[d] \div Block!BlockLen(d)]
<1>0. s \in [K -> 0 .. N - 1] /\ K = Block!Dims
  BY DEF K
<1>1. ASSUME NEW d \in K
      PROVE  /\ pos[d] \in Nat /\ pos[d] < part[d]
             /\ Block!BlockLen(d) * pos[d] <= s[d] /\ s[d] + 1 <= Block!BlockLen(d) * pos[d] + Block!BlockLen(d)
  <2> DEFINE len == Block!BlockLen(d)  x == s[d]  m == part[d]  y == x \div len
  <2>1. N \in Nat /\ len \in Nat \ {0} /\ m \in Nat \ {0} /\ N = m * len /\ x \in 0 .. N - 1 /\ pos[d] = y
    BY <1>0, PartitionDivides
  <2> HIDE DEF len, x, m, pos
  <2>2. y \in Nat /\ len * y <= x /\ x + 1 <= len * y + len /\ y < m
    BY <2>1
  <2>3. QED
    BY <2>1, <2>2 DEF len, m, x
<1>2. pos \in [K -> Nat]
  BY <1>1
<1>3. PICK i \in 0 .. nProc - 1 : \A q \in 0 .. nProc - 1 :
        q = i <=> \A d \in K : pos[d] = Block!GridPosition(q, part)[d]
  BY <1>1, <1>2, OneRankPerPlace
<1>4. Block!Given(s) = {i}
  BY <1>0, <1>3 DEF Block!Given
<1>5. ASSUME NEW d \in K
      PROVE  Block!BlockRange(i).lo[d] <= s[d] /\ s[d] + 1 <= Block!BlockRange(i).hi[d]
  <2> DEFINE lo == Block!BlockRange(i).lo[d]
             hi == Block!BlockRange(i).hi[d]
             len == Block!BlockLen(d)
             at == len * pos[d]
  <2>1. pos[d] = Block!GridPosition(i, part)[d]
    BY <1>3
  <2>2. /\ lo \in Nat /\ hi \in Nat /\ lo <= at /\ at + len <= hi /\ at \in Nat
    BY <2>1, RangeOfBlock
  <2>3. at <= s[d] /\ s[d] + 1 <= at + len
    BY <1>1
  <2>4. len \in Nat /\ s[d] \in Int
    BY <1>0, PartitionDivides
  <2> HIDE DEF lo, hi, at, len
  <2>5. lo <= s[d] /\ s[d] + 1 <= hi
    BY <2>2, <2>3, <2>4
  <2>6. QED
    BY <2>5 DEF lo, hi
<1>6. QED
  BY <1>0, <1>4, <1>5

---------------------------------------------------------------------------
(* The fetching of the rows                                                *)

\* The ranges of the block.
RangeOK ==
  /\ iMin \in [K -> Nat] /\ iMax \in [K -> Nat]
  /\ \A d \in K : iMin[d] <= iMax[d] /\ iMax[d] <= N
  /\ size = [d \in K |-> iMax[d] - iMin[d] + 1]

\* Rows per first coordinate, values per row, and the rows before the current
\* one.
Mid == IF DIM = 3 THEN size[1] ELSE 1
Last == size[DIM - 1]
MidOff == IF DIM = 3 THEN row[1] - iMin[1] ELSE 0
Line == Mid * (row[0] - iMin[0]) + MidOff

\* The node with the given distances from the first one of the block.
Node(a, c, b) ==
  [d \in K |-> IF d = 0 THEN iMin[0] + a ELSE IF d = DIM - 1 THEN iMin[d] + b ELSE iMin[d] + c]

RowOK ==
  /\ row \in [K -> Nat]
  /\ row[0] \in iMin[0] .. iMax[0] + 1
  /\ DIM = 3 => row[1] \in iMin[1] .. iMax[1]
  /\ dest = Last * Line
  /\ DOMAIN perm = 1 .. (size[0] * Mid) * Last

\* The rows before the current one are where the evaluation looks for them.
Fetched ==
  \A a \in 0 .. size[0] - 1, c \in 0 .. Mid - 1, b \in 0 .. Last - 1 :
    Mid * a + c < Line => perm[1 + (Last * (Mid * a + c) + b)] = Node(a, c, b)

BlockInv ==
  /\ ConfOK
  /\ blockPc \in {"init", "fetch", "ready"}
  /\ blockPc # "init" => RangeOK /\ RowOK /\ Fetched
  /\ blockPc = "ready" => row[0] > iMax[0]

\* The sizes of a block.
LEMMA BlockSizes ==
  ASSUME ConfOK, RangeOK
  PROVE  /\ N \in Nat \ {0} /\ 0 \in K /\ DIM - 1 \in K /\ (DIM = 3 => 1 \in K)
         /\ \A d \in K : size[d] = iMax[d] - iMin[d] + 1 /\ size[d] \in Nat \ {0}
         /\ Mid \in Nat \ {0} /\ Last \in Nat \ {0} /\ size[0] \in Nat \ {0}
         /\ Block!Product(size) = (size[0] * Mid) * Last
<1>1. N \in Nat \ {0}
  BY PartitionDivides
<1>2. 0 \in K /\ DIM - 1 \in K /\ (DIM = 3 => 1 \in K)
  BY DEF K, Block!Dims, ConfOK
<1>3. \A d \in K : size[d] = iMax[d] - iMin[d] + 1 /\ size[d] \in Nat \ {0}
  BY DEF RangeOK
<1>4. Mid \in Nat \ {0} /\ Last \in Nat \ {0} /\ size[0] \in Nat \ {0}
  BY <1>2, <1>3 DEF Mid, Last
<1>5. Block!Product(size) = (size[0] * Mid) * Last
  <2>1. CASE DIM = 2
    BY <1>4, <2>1 DEF Block!Product, Mid, Last
  <2>2. CASE DIM = 3
    BY <1>4, <2>2 DEF Block!Product, Mid, Last
  <2>3. QED
    BY <2>1, <2>2 DEF ConfOK
<1>6. QED
  BY <1>1, <1>2, <1>3, <1>4, <1>5

\* What an MPI_Get reads is the row it is to read, in the order of its nodes.
LEMMA RowFromLayer ==
  ASSUME ConfOK, RangeOK, RowOK, row[0] <= iMax[0], NEW b \in 0 .. Last - 1
  PROVE  Block!NodeAt(Block!RankSource(row), Block!Source(row) + iMin[DIM - 1] + b)
           = Node(row[0] - iMin[0], MidOff, b)
<1> DEFINE q == Block!RankSource(row)
           h == Block!n0
           W == 2 * N
           S == Block!PlaneSize
           x == row[0]
           z == iMin[DIM - 1] + b
           off == Block!Source(row) + iMin[DIM - 1] + b
<1>1. /\ N \in Nat \ {0} /\ h \in Nat \ {0} /\ x \in Nat /\ z \in Nat /\ z <= N /\ W \in Nat \ {0} /\ z < W
      /\ iMin[DIM - 1] \in Nat /\ iMin[0] \in Nat /\ b \in Nat
  <2>1. N \in Nat \ {0} /\ h \in Nat \ {0}
    BY PartitionDivides
  <2>2. 0 \in K /\ DIM - 1 \in K /\ Last = iMax[DIM - 1] - iMin[DIM - 1] + 1
    BY BlockSizes DEF Last
  <2>3. iMin[DIM - 1] \in Nat /\ iMax[DIM - 1] \in Nat /\ iMax[DIM - 1] <= N /\ iMin[0] \in Nat /\ row[0] \in Nat
    BY <2>2 DEF RangeOK, RowOK
  <2>4. QED
    BY <2>1, <2>2, <2>3
<1>2. q = x \div h /\ Block!Source(row) = (x % h) * S + (IF DIM = 3 THEN W * row[1] ELSE 0)
  BY DEF Block!RankSource, Block!Source
<1>3. q * h + (x % h) = x /\ x % h \in Nat /\ q \in Nat
  <2>1. q = x \div h /\ h \in Nat \ {0} /\ x \in Nat
    BY <1>1, <1>2
  <2> HIDE DEF q, h, x
  <2>2. q \in Nat /\ x % h \in Nat /\ x = h * q + (x % h)
    BY <2>1
  <2>3. h * q = q * h
    BY <2>1, <2>2
  <2>4. QED
    BY <2>2, <2>3
<1>4. Block!NodeAt(q, off) =
        [d \in K |-> IF d = 0 THEN q * h + off \div S
                     ELSE IF d = DIM - 1 THEN off % W ELSE (off \div W) % W]
  BY DEF Block!NodeAt, K
<1> HIDE DEF q, h, W, z
<1>5. CASE DIM = 2
  <2>1. S = W /\ off = (x % h) * W + z
    <3>1. S = W
      BY <1>5 DEF Block!PlaneSize, W
    <3>2. off = (x % h) * S + iMin[DIM - 1] + b
      BY <1>1, <1>2, <1>3, <1>5, <3>1
    <3> DEFINE t == (x % h) * S
    <3>3. t \in Nat
      BY <1>1, <1>3, <3>1
    <3>4. off = t + z
      <4> HIDE DEF t
      <4>1. QED
        BY <1>1, <3>2, <3>3 DEF t, z
    <3>5. QED
      BY <3>1, <3>4
  <2> HIDE DEF off, S
  <2>2. off \div W = x % h /\ off % W = z
    <3>1. z \in 0 .. W - 1
      BY <1>1
    <3>2. (z + W * (x % h)) % W = z /\ (z + W * (x % h)) \div W = x % h
      BY <1>1, <1>3, <3>1, DigitsOfSum
    <3>3. off = z + W * (x % h)
      <4> DEFINE r == x % h
      <4>1. r \in Nat /\ off = r * W + z
        BY <1>3, <2>1
      <4> HIDE DEF r
      <4>2. off = z + W * r
        BY <1>1, <4>1
      <4>3. QED
        BY <4>2 DEF r
    <3>4. QED
      BY <3>2, <3>3
  <2>3. K = {0, 1}
    BY <1>5 DEF K, Block!Dims
  <2>4. Block!NodeAt(q, off) = [d \in {0, 1} |-> IF d = 0 THEN x ELSE z]
    BY <1>3, <1>4, <1>5, <2>1, <2>2, <2>3
  <2>5. Node(x - iMin[0], MidOff, b) = [d \in {0, 1} |-> IF d = 0 THEN x ELSE z]
    BY <1>1, <1>5, <2>3 DEF Node, z
  <2>6. QED
    BY <2>4, <2>5 DEF q, off
<1>6. CASE DIM = 3
  <2> DEFINE y == row[1]
             r == x % h
  <2>1. y \in Nat /\ y <= N /\ y < W /\ iMin[1] \in Nat /\ r \in Nat
    <3>1. 1 \in K
      BY <1>6, BlockSizes
    <3>2. row[1] \in Nat /\ row[1] <= iMax[1] /\ iMax[1] \in Nat /\ iMax[1] <= N /\ iMin[1] \in Nat
      BY <1>6, <3>1 DEF RowOK, RangeOK
    <3>3. QED
      BY <1>1, <1>3, <3>2 DEF W
  <2>2. S = W * W
    BY <1>6 DEF Block!PlaneSize, W
  <2> HIDE DEF y, r
  <2>3. off = z + W * (y + W * r)
    <3>1. off = (r * S + W * y) + iMin[DIM - 1] + b
      BY <1>2, <1>6 DEF r, y
    <3>2. W * (y + W * r) = W * y + r * (W * W)
      BY <1>1, <2>1
    <3> DEFINE t == r * S  u == W * y  v == W * (y + W * r)
    <3>3. t \in Nat /\ u \in Nat /\ v = t + u
      BY <1>1, <2>1, <2>2, <3>2
    <3>4. off = t + u + iMin[DIM - 1] + b
      BY <3>1
    <3> HIDE DEF t, u, v, off
    <3>5. off = z + v
      BY <1>1, <3>3, <3>4 DEF z
    <3>6. QED
      BY <3>5 DEF v
  <2> HIDE DEF off, S
  <2>4. y + W * r \in Nat /\ off \div W = y + W * r /\ off % W = z
    <3>1. z \in 0 .. W - 1 /\ y + W * r \in Nat
      BY <1>1, <2>1
    <3>2. QED
      BY <1>1, <2>3, <3>1, DigitsOfSum
  <2>5. (off \div W) % W = y
    <3>1. y \in 0 .. W - 1
      BY <1>1, <2>1
    <3>2. (y + W * r) % W = y
      BY <1>1, <2>1, <3>1, DigitsOfSum
    <3>3. QED
      BY <2>4, <3>2
  <2>6. off \div S = r
    <3>1. z + W * y \in 0 .. W * W - 1
      BY <1>1, <2>1, PairOfDigits
    <3>2. W * W \in Nat \ {0}
      BY <1>1
    <3>3. ((z + W * y) + (W * W) * r) \div (W * W) = r
      BY <2>1, <3>1, <3>2, DigitsOfSum
    <3>4. off = (z + W * y) + (W * W) * r
      <4>1. W * (y + W * r) = W * y + (W * W) * r
        BY <1>1, <2>1
      <4> DEFINE t == W * (y + W * r)  u == W * y  v == (W * W) * r
      <4>2. t = u + v /\ u \in Nat /\ v \in Nat /\ off = z + t
        BY <1>1, <2>1, <2>3, <4>1
      <4> HIDE DEF t, u, v
      <4>3. off = (z + u) + v
        BY <1>1, <4>2
      <4>4. QED
        BY <4>3 DEF u, v
    <3>5. QED
      BY <2>2, <3>3, <3>4
  <2>7. K = {0, 1, 2}
    BY <1>6 DEF K, Block!Dims
  <2>8. q * h + off \div S = x
    BY <1>3, <2>6 DEF r
  <2>9. Block!NodeAt(q, off) = [d \in {0, 1, 2} |-> IF d = 0 THEN x ELSE IF d = 2 THEN z ELSE y]
    BY <1>4, <1>6, <2>4, <2>5, <2>7, <2>8
  <2>10. iMin[1] + MidOff = y /\ iMin[0] + (x - iMin[0]) = x
    BY <1>1, <1>6, <2>1 DEF MidOff, y
  <2>11. Node(x - iMin[0], MidOff, b) = [d \in {0, 1, 2} |-> IF d = 0 THEN x ELSE IF d = 2 THEN z ELSE y]
    BY <1>6, <2>7, <2>10 DEF Node, z
  <2>12. QED
    BY <2>9, <2>11 DEF q, off
<1>7. QED
  BY <1>5, <1>6 DEF ConfOK

\* A pair of a first coordinate and a middle one belongs to one line only.
LEMMA LinesDiffer ==
  ASSUME NEW m \in Nat \ {0}, NEW a \in Nat, NEW c \in 0 .. m - 1, NEW x \in Nat, NEW y \in 0 .. m - 1,
         m * a + c = m * x + y
  PROVE  a = x /\ c = y
<1>1. (c + m * a) \div m = a /\ (c + m * a) % m = c
  BY DigitsOfSum
<1>2. (y + m * x) \div m = x /\ (y + m * x) % m = y
  BY DigitsOfSum
<1> DEFINE t == m * a  u == m * x
<1>3. t \in Nat /\ u \in Nat /\ t + c = u + y
  OBVIOUS
<1> HIDE DEF t, u
<1>4. c + t = y + u
  BY <1>3
<1>5. c + m * a = y + m * x
  BY <1>4 DEF t, u
<1>6. QED
  BY <1>1, <1>2, <1>5

\* The place of a value of an earlier line lies before that of a later one, and
\* inside of the block.
LEMMA PlacesInLines ==
  ASSUME NEW m \in Nat \ {0}, NEW l \in Nat \ {0}, NEW n \in Nat \ {0},
         NEW a \in 0 .. n - 1, NEW c \in 0 .. m - 1, NEW b \in 0 .. l - 1
  PROVE  /\ m * a + c \in Nat /\ m * a + c < n * m
         /\ l * (m * a + c) + b \in Nat
         /\ 1 + (l * (m * a + c) + b) \in 1 .. (n * m) * l
         /\ \A line \in Nat : m * a + c < line => l * (m * a + c) + b < l * line
<1> DEFINE at == m * a + c
           all == n * m
<1>1. at \in Nat /\ all \in Nat
  OBVIOUS
<1>2. at < all
  <2>1. c + m * a \in 0 .. m * n - 1
    BY PairOfDigits
  <2>2. m * n = n * m
    OBVIOUS
  <2> DEFINE t == m * a  u == m * n
  <2>3. t \in Nat /\ u \in Nat /\ c + t \in 0 .. u - 1 /\ at = t + c /\ all = u
    BY <2>1, <2>2
  <2> HIDE DEF t, u, at, all
  <2>4. QED
    BY <2>3
<1> HIDE DEF at, all
<1>3. ASSUME NEW line \in Nat, at < line PROVE l * at + b < l * line
  <2>1. l * line = l * at + l * (line - at) /\ l * (line - at) >= l
    <3>1. line - at \in Nat /\ line - at >= 1
      BY <1>1, <1>3
    <3>2. l * line = l * (at + (line - at))
      BY <1>1, <1>3
    <3>3. \A u, v \in Nat : v >= 1 => u * v >= u
      OBVIOUS
    <3>4. QED
      BY <1>1, <3>1, <3>2, <3>3
  <2> DEFINE t == l * at  u == l * (line - at)  v == l * line
  <2>2. t \in Nat /\ u \in Int /\ v \in Nat /\ v = t + u /\ u >= l
    BY <1>1, <1>3, <2>1
  <2> HIDE DEF t, u, v
  <2>3. t + b < v
    BY <2>2
  <2>4. QED
    BY <2>3 DEF t, v
<1>4. l * at + b \in Nat
  BY <1>1
<1>5. l * at + b < l * all /\ l * all = all * l /\ l * all \in Nat
  BY <1>1, <1>2, <1>3
<1>6. 1 + (l * at + b) \in 1 .. all * l
  <2> DEFINE t == l * at + b  v == all * l
  <2>1. t \in Nat /\ v \in Nat /\ t < v
    BY <1>4, <1>5
  <2> HIDE DEF t, v
  <2>2. 1 + t \in 1 .. v
    BY <2>1
  <2>3. QED
    BY <2>2 DEF t, v
<1>7. QED
  BY <1>1, <1>2, <1>3, <1>4, <1>6 DEF at, all

\* Where a row begins is a number.
LEMMA SourceType ==
  ASSUME ConfOK, RangeOK, RowOK PROVE Block!Source(row) \in Nat /\ iMin[DIM - 1] \in Nat
<1>1. N \in Nat \ {0} /\ Block!n0 \in Nat \ {0}
  BY PartitionDivides
<1>2. row[0] \in Nat /\ iMin[DIM - 1] \in Nat /\ (DIM = 3 => row[1] \in Nat)
  BY BlockSizes DEF RowOK, RangeOK
<1>3. Block!PlaneSize \in Nat
  <2>1. 2 * N \in Nat /\ (2 * N) * (2 * N) \in Nat
    BY <1>1
  <2>2. QED
    BY <2>1 DEF Block!PlaneSize
<1>4. row[0] % Block!n0 \in Nat
  BY <1>1, <1>2
<1>5. (row[0] % Block!n0) * Block!PlaneSize \in Nat
  BY <1>3, <1>4
<1>6. DIM = 3 => 2 * N * row[1] \in Nat
  BY <1>1, <1>2
<1>7. QED
  BY <1>2, <1>5, <1>6 DEF Block!Source

---------------------------------------------------------------------------
(* The invariant of the block                                              *)

\* A rank begins as init has set it up.
LEMMA InitBlock == Block!Init => BlockInv
<1> SUFFICES ASSUME Block!Init PROVE BlockInv
  OBVIOUS
<1>1. DIM \in {2, 3} /\ nProc <= 2 * N /\ iProc \in 0 .. nProc - 1 /\ overlap \in Overlaps /\ blockPc = "init"
  BY DEF Block!Init
<1>2. /\ N \in {P[s] : s \in 1 .. MaxLog2Seg[DIM]} /\ nProc \in {P[s] : s \in 0 .. MaxLog2Proc[DIM]}
  BY DEF Block!Init, P
<1>3. MaxLog2Seg[DIM] \in Nat /\ MaxLog2Proc[DIM] \in Nat /\ overlap \in Nat
  BY <1>1, BoundsAssumption
<1>4. \E s \in Nat \ {0} : N = P[s]
  <2>1. PICK s \in 1 .. MaxLog2Seg[DIM] : N = P[s]
    BY <1>2
  <2>2. s \in Nat \ {0}
    BY <1>3
  <2>3. QED
    BY <2>1, <2>2
<1>5. \E s \in 0 .. MaxLog2Proc[DIM] : nProc = P[s]
  BY <1>2
<1>6. QED
  BY <1>1, <1>3, <1>4, <1>5 DEF BlockInv, ConfOK

\* setRange: the block is inside of the field, and nothing is fetched yet.
LEMMA SetRangeStep == ASSUME BlockInv, Block!SetRange PROVE BlockInv'
<1> DEFINE lo == Block!BlockRange(iProc).lo
           hi == Block!BlockRange(iProc).hi
<1>1. ConfOK /\ UNCHANGED <<DIM, N, nProc, iProc, overlap>>
  BY DEF BlockInv, Block!SetRange, Block!conf
<1>2. /\ iMin' = lo /\ iMax' = hi /\ size' = [d \in K |-> hi[d] - lo[d] + 1]
      /\ row' = [lo EXCEPT ![DIM - 1] = 0] /\ perm' = [k \in 1 .. Block!Product(size') |-> Block!None]
      /\ dest' = 0 /\ blockPc' = "fetch"
  BY DEF Block!SetRange, K
<1>3. ConfOK'
  BY <1>1 DEF ConfOK, P, Block!PowerOf2
<1>4. K' = K
  BY <1>1 DEF K, Block!Dims
<1>5. \A d \in K : lo[d] \in Nat /\ hi[d] \in Nat /\ lo[d] <= hi[d] /\ hi[d] <= N
  BY <1>1, RangeOfBlock DEF ConfOK
<1>6. DOMAIN lo = K /\ lo = [d \in K |-> lo[d]] /\ DOMAIN hi = K /\ hi = [d \in K |-> hi[d]]
  BY DEF Block!BlockRange, K
<1>7. lo \in [K -> Nat] /\ hi \in [K -> Nat]
  BY <1>5, <1>6
<1> HIDE DEF lo, hi
<1>8. RangeOK'
  BY <1>1, <1>2, <1>4, <1>5, <1>7 DEF RangeOK
<1>9. /\ (0 \in K /\ DIM - 1 \in K /\ (DIM = 3 => 1 \in K))'
      /\ (Mid \in Nat \ {0} /\ Last \in Nat \ {0} /\ Block!Product(size) = (size[0] * Mid) * Last)'
  BY <1>3, <1>8, BlockSizes, PTL
<1>10. RowOK' /\ Line' = 0
  <2>1. 0 \in K /\ DIM \in {2, 3} /\ DIM - 1 # 0 /\ (DIM = 3 => 1 \in K /\ DIM - 1 # 1)
    BY <1>1, <1>4, <1>9 DEF ConfOK
  <2>2. row' \in [K -> Nat] /\ row'[0] = lo[0] /\ (DIM = 3 => row'[1] = lo[1])
    BY <1>2, <1>7, <2>1
  <2>3. MidOff' = 0
    BY <1>1, <1>2, <1>7, <2>1, <2>2 DEF MidOff
  <2>4. Line' = 0
    BY <1>2, <1>7, <1>9, <2>1, <2>2, <2>3 DEF Line
  <2>5. DOMAIN perm' = 1 .. ((size[0] * Mid) * Last)'
    BY <1>1, <1>2, <1>9 DEF Block!Product
  <2>6. dest' = (Last * Line)'
    <3> DEFINE u == Last'  v == Line'
    <3>1. u \in Nat /\ v = 0 /\ dest' = 0
      BY <1>2, <1>9, <2>4
    <3> HIDE DEF u, v
    <3>2. dest' = u * v
      BY <3>1
    <3>3. QED
      BY <3>2 DEF u, v
  <2>7. row'[0] \in iMin'[0] .. iMax'[0] + 1 /\ (DIM = 3 => row'[1] \in iMin'[1] .. iMax'[1])
    BY <1>2, <1>5, <2>1, <2>2
  <2>8. QED
    BY <1>1, <1>4, <2>2, <2>4, <2>5, <2>6, <2>7 DEF RowOK
<1>11. Fetched'
  <2> SUFFICES ASSUME NEW a \in (0 .. size[0] - 1)', NEW c \in (0 .. Mid - 1)', NEW b \in (0 .. Last - 1)',
                      (Mid * a + c < Line)'
               PROVE  FALSE
    BY DEF Fetched
  <2> DEFINE m == Mid'
  <2>1. m \in Nat /\ a \in Nat /\ c \in Nat
    BY <1>9
  <2>2. m * a + c < 0
    BY <1>10
  <2> HIDE DEF m
  <2>3. m * a \in Nat
    BY <2>1
  <2>4. QED
    BY <2>1, <2>2, <2>3
<1>12. QED
  BY <1>2, <1>3, <1>8, <1>10, <1>11 DEF BlockInv

\* The row that is fetched is the current line, and the next one follows it.
LEMMA FetchRowStep == ASSUME BlockInv, Block!FetchRow PROVE BlockInv'
<1>1. /\ UNCHANGED <<DIM, N, nProc, iProc, overlap, iMin, iMax, size, blockPc>>
      /\ blockPc = "fetch" /\ row[0] <= iMax[0]
  BY DEF Block!FetchRow, Block!conf, Block!range
<1>2. /\ dest' = dest + Last
      /\ perm' = [k \in DOMAIN perm |-> IF k \in dest + 1 .. dest + Last
                    THEN Block!NodeAt(Block!RankSource(row), Block!Source(row) + iMin[DIM - 1] + k - dest - 1)
                    ELSE perm[k]]
      /\ row' = Block!NextRow(row)
  BY DEF Block!FetchRow, Last
<1>3. ConfOK /\ RangeOK /\ RowOK /\ Fetched
  BY <1>1 DEF BlockInv
<1>4. ConfOK' /\ RangeOK' /\ K' = K
  BY <1>1, <1>3 DEF ConfOK, RangeOK, K, Block!Dims, P, Block!PowerOf2
<1>5. UNCHANGED <<Mid, Last>>
  BY <1>1 DEF Mid, Last
<1>6. /\ N \in Nat \ {0} /\ 0 \in K /\ DIM - 1 \in K /\ (DIM = 3 => 1 \in K)
      /\ \A d \in K : size[d] = iMax[d] - iMin[d] + 1 /\ size[d] \in Nat \ {0}
      /\ Mid \in Nat \ {0} /\ Last \in Nat \ {0} /\ size[0] \in Nat \ {0}
  BY <1>3, BlockSizes
<1>7. /\ row \in [K -> Nat] /\ row[0] \in iMin[0] .. iMax[0] /\ (DIM = 3 => row[1] \in iMin[1] .. iMax[1])
      /\ dest = Last * Line /\ DOMAIN perm = 1 .. (size[0] * Mid) * Last
  BY <1>1, <1>3, <1>6 DEF RowOK, RangeOK
<1> DEFINE x == row[0] - iMin[0]
<1>8. /\ x \in 0 .. size[0] - 1 /\ MidOff \in 0 .. Mid - 1 /\ Line = Mid * x + MidOff
      /\ iMin[0] \in Nat /\ iMax[0] \in Nat
  <2>1. iMin[0] \in Nat /\ iMax[0] \in Nat /\ size[0] = iMax[0] - iMin[0] + 1
    BY <1>3, <1>6 DEF RangeOK
  <2>2. x \in 0 .. size[0] - 1
    BY <1>7, <2>1
  <2>3. MidOff \in 0 .. Mid - 1
    <3>1. CASE DIM = 3
      <4>1. iMin[1] \in Nat /\ iMax[1] \in Nat /\ size[1] = iMax[1] - iMin[1] + 1 /\ row[1] \in iMin[1] .. iMax[1]
        BY <1>3, <1>6, <1>7, <3>1 DEF RangeOK
      <4>2. QED
        BY <3>1, <4>1 DEF MidOff, Mid
    <3>2. CASE DIM # 3
      BY <3>2 DEF MidOff, Mid
    <3>3. QED
      BY <3>1, <3>2
  <2>4. QED
    BY <2>1, <2>2, <2>3 DEF Line
<1>81. x \in Nat /\ \A n : n = row[0] + 1 => n - iMin[0] = x + 1 /\ n \in iMin[0] .. iMax[0] + 1
  <2> DEFINE r0 == row[0]
             low == iMin[0]
             high == iMax[0]
  <2>1. r0 \in low .. high /\ low \in Nat /\ high \in Nat /\ x = r0 - low
    BY <1>7, <1>8
  <2> HIDE DEF r0, low, high, x
  <2>2. x \in Nat /\ \A n : n = r0 + 1 => n - low = x + 1 /\ n \in low .. high + 1
    BY <2>1
  <2>3. QED
    BY <2>2 DEF r0, low, high
<1>9. /\ row' \in [K -> Nat] /\ row'[0] \in iMin[0] .. iMax[0] + 1
      /\ DIM = 3 => row'[1] \in iMin[1] .. iMax[1]
      /\ Line' = Line + 1
  <2>1. CASE DIM = 2
    <3>1. row' = [row EXCEPT ![0] = row[0] + 1]
      BY <1>2, <2>1 DEF Block!NextRow
    <3>2. row' \in [K -> Nat] /\ row'[0] = row[0] + 1
      BY <1>6, <1>7, <3>1
    <3> DEFINE y == row'[0] - iMin[0]
    <3>3. y = x + 1 /\ x \in Nat /\ row'[0] \in iMin[0] .. iMax[0] + 1
      BY <1>81, <3>2
    <3>4. Mid = 1 /\ MidOff = 0 /\ Mid' = 1 /\ MidOff' = 0
      BY <1>1, <2>1 DEF Mid, MidOff
    <3>5. Line = Mid * x + MidOff /\ Line' = Mid' * y + MidOff'
      BY <1>1 DEF Line
    <3> HIDE DEF x, y
    <3>6. Line' = Line + 1
      BY <3>3, <3>4, <3>5
    <3>7. QED
      BY <2>1, <3>2, <3>3, <3>6
  <2>2. CASE DIM = 3 /\ row[1] = iMax[1]
    <3>1. row' = [row EXCEPT ![0] = row[0] + 1, ![1] = iMin[1]]
      BY <1>2, <2>2 DEF Block!NextRow
    <3>2. iMin[1] \in Nat /\ iMax[1] \in Nat /\ iMin[1] <= iMax[1] /\ Mid = iMax[1] - iMin[1] + 1
      BY <1>3, <1>6, <2>2 DEF RangeOK, Mid
    <3>3. row' \in [K -> Nat] /\ row'[0] = row[0] + 1 /\ row'[1] = iMin[1]
      <4> DEFINE f == [row EXCEPT ![0] = row[0] + 1]
      <4>1. f \in [K -> Nat] /\ f[0] = row[0] + 1
        BY <1>6, <1>7
      <4>2. row' = [f EXCEPT ![1] = iMin[1]]
        BY <3>1
      <4> HIDE DEF f
      <4>3. QED
        BY <1>6, <2>2, <3>2, <4>1, <4>2
    <3>4. MidOff = Mid - 1 /\ MidOff' = 0
      BY <1>1, <2>2, <3>2, <3>3 DEF MidOff
    <3>5. Line' = Mid * (x + 1)
      <4>1. row'[0] - iMin[0] = x + 1
        BY <1>81, <3>3
      <4>2. Line' = Mid * (row'[0] - iMin[0]) + 0
        BY <1>1, <1>5, <3>4 DEF Line
      <4>3. QED
        BY <1>6, <1>8, <4>1, <4>2
    <3>6. Line' = Line + 1
      <4>1. Mid * (x + 1) = Mid * x + Mid
        BY <1>6, <1>8
      <4> DEFINE t == Mid * x
      <4>2. t \in Nat /\ Line = t + (Mid - 1) /\ Line' = t + Mid
        BY <1>6, <1>8, <3>4, <3>5, <4>1
      <4> HIDE DEF t
      <4>3. QED
        BY <1>6, <4>2
    <3>7. row'[0] \in iMin[0] .. iMax[0] + 1
      BY <1>81, <3>3
    <3>8. row'[1] \in iMin[1] .. iMax[1]
      BY <3>2, <3>3
    <3>9. QED
      BY <3>3, <3>6, <3>7, <3>8
  <2>3. CASE DIM = 3 /\ row[1] # iMax[1]
    <3>1. row' = [row EXCEPT ![1] = row[1] + 1]
      BY <1>2, <2>3 DEF Block!NextRow
    <3>2. iMin[1] \in Nat /\ iMax[1] \in Nat /\ row[1] \in iMin[1] .. iMax[1]
      BY <1>3, <1>6, <1>7, <2>3 DEF RangeOK
    <3>3. row' \in [K -> Nat] /\ row'[0] = row[0] /\ row'[1] = row[1] + 1
      BY <1>6, <1>7, <2>3, <3>1, <3>2
    <3>4. MidOff' = MidOff + 1 /\ MidOff \in Nat
      BY <1>1, <2>3, <3>2, <3>3 DEF MidOff
    <3>5. Line' = Mid * x + (MidOff + 1)
      BY <1>1, <1>5, <3>3, <3>4 DEF Line
    <3> DEFINE t == Mid * x
    <3>6. t \in Nat /\ Line = t + MidOff /\ Line' = t + (MidOff + 1)
      BY <1>6, <1>8, <3>5
    <3> HIDE DEF t
    <3>7. Line' = Line + 1
      BY <3>4, <3>6
    <3>8. row'[0] \in iMin[0] .. iMax[0] + 1
      BY <1>7, <1>8, <3>3
    <3>9. row'[1] \in iMin[1] .. iMax[1]
      BY <2>3, <3>2, <3>3
    <3>10. QED
      BY <3>3, <3>7, <3>8, <3>9
  <2>4. QED
    BY <1>3, <2>1, <2>2, <2>3 DEF ConfOK
<1> HIDE DEF x
<1>10. Line \in Nat
  BY <1>6, <1>8
<1>11. RowOK'
  <2>1. dest' = Last * (Line + 1)
    <3>1. Last * (Line + 1) = Last * Line + Last
      BY <1>6, <1>10
    <3>2. QED
      BY <1>2, <1>7, <3>1
  <2>2. (dest = Last * Line)'
    BY <1>5, <1>9, <2>1
  <2>3. DOMAIN perm' = (1 .. (size[0] * Mid) * Last)'
    BY <1>1, <1>2, <1>5, <1>7
  <2>4. QED
    BY <1>1, <1>4, <1>9, <2>2, <2>3 DEF RowOK
<1>12. Fetched'
  <2>1. \A a, c, b : Node(a, c, b)' = Node(a, c, b)
    BY <1>1, <1>4 DEF Node
  <2> SUFFICES ASSUME NEW a \in 0 .. size[0] - 1, NEW c \in 0 .. Mid - 1, NEW b \in 0 .. Last - 1,
                      Mid * a + c < Line'
               PROVE  perm'[1 + (Last * (Mid * a + c) + b)] = Node(a, c, b)
    BY <1>1, <1>5, <2>1 DEF Fetched
  <2> DEFINE at == Mid * a + c
             place == Last * at + b
  <2>2. /\ at \in Nat /\ place \in Nat /\ 1 + place \in DOMAIN perm
        /\ \A line \in Nat : at < line => place < Last * line
    BY <1>6, <1>7, PlacesInLines
  <2>3. perm'[1 + place] = IF 1 + place \in dest + 1 .. dest + Last
          THEN Block!NodeAt(Block!RankSource(row), Block!Source(row) + iMin[DIM - 1] + (1 + place) - dest - 1)
          ELSE perm[1 + place]
    BY <1>2, <2>2
  <2>4. dest \in Nat
    BY <1>6, <1>7, <1>10
  <2>5. CASE at < Line
    <3>1. place < dest
      BY <1>7, <1>10, <2>2, <2>5
    <3>2. perm[1 + place] = Node(a, c, b)
      BY <1>3, <2>5 DEF Fetched
    <3> HIDE DEF place, at
    <3>3. ~(1 + place \in dest + 1 .. dest + Last)
      BY <1>6, <2>2, <2>4, <3>1
    <3>4. QED
      BY <2>3, <3>2, <3>3 DEF place, at
  <2>6. CASE ~(at < Line)
    <3>1. at = Line
      BY <1>9, <1>10, <2>2, <2>6
    <3>2. a \in Nat /\ x \in Nat /\ Mid * a + c = Mid * x + MidOff
      BY <1>6, <1>8, <3>1
    <3>3. a = x /\ c = MidOff
      BY <1>6, <1>8, <3>2, LinesDiffer
    <3>4. place = dest + b
      BY <1>7, <3>1
    <3>5. Block!NodeAt(Block!RankSource(row), Block!Source(row) + iMin[DIM - 1] + b) = Node(a, c, b)
      BY <1>1, <1>3, <3>3, RowFromLayer DEF x
    <3>6. Block!Source(row) \in Int /\ iMin[DIM - 1] \in Int
      BY <1>3, SourceType
    <3> HIDE DEF place, at
    <3>7. /\ 1 + place \in dest + 1 .. dest + Last
          /\ Block!Source(row) + iMin[DIM - 1] + (1 + place) - dest - 1 = Block!Source(row) + iMin[DIM - 1] + b
      BY <1>6, <2>4, <3>4, <3>6
    <3>8. QED
      BY <2>3, <3>5, <3>7 DEF place, at
  <2>7. QED
    BY <2>5, <2>6
<1>13. QED
  BY <1>1, <1>4, <1>11, <1>12 DEF BlockInv

\* When all rows are fetched there are no more lines.
LEMMA FetchDoneStep == ASSUME BlockInv, Block!FetchDone PROVE BlockInv'
<1>1. /\ UNCHANGED <<DIM, N, nProc, iProc, overlap, iMin, iMax, size, row, perm, dest>>
      /\ blockPc = "fetch" /\ blockPc' = "ready" /\ row[0] > iMax[0]
  BY DEF Block!FetchDone, Block!conf, Block!range
<1>2. ConfOK' /\ RangeOK'
  BY <1>1 DEF BlockInv, ConfOK, RangeOK, K, Block!Dims, P, Block!PowerOf2
<1>3. UNCHANGED <<K, Mid, Last, Line>>
  BY <1>1 DEF K, Block!Dims, Mid, Last, Line, MidOff
<1>4. \A a, c, b : Node(a, c, b)' = Node(a, c, b)
  BY <1>1, <1>3 DEF Node
<1>5. RowOK'
  BY <1>1, <1>3 DEF BlockInv, RowOK
<1>6. Fetched'
  BY <1>1, <1>3, <1>4 DEF BlockInv, Fetched
<1>7. QED
  BY <1>1, <1>2, <1>5, <1>6 DEF BlockInv

\* What an evaluation in range reads: the corner that counts is a node of the
\* block, and the index computed for it is its place.
LEMMA CornerInBlock ==
  ASSUME BlockInv, blockPc = "ready", NEW p \in [K -> 0 .. 2 * N], NEW b \in [K -> {0, 1}],
         Block!InRange(p), Block!Weight(p, b) > 0, NEW d \in K
  PROVE  /\ Block!Segment(p)[d] \in Nat /\ Block!Segment(p)[d] + b[d] \in 0 .. size[d] - 1
         /\ iMin[d] + (Block!Segment(p)[d] + b[d]) = p[d] \div 2 + b[d]
<1> DEFINE lo == iMin[d]  hi == iMax[d]  x == p[d]  c == b[d]
           s == Block!Segment(p)[d]  t == Block!Fraction(p)[d]
<1>1. RangeOK /\ DIM \in {2, 3}
  BY DEF BlockInv, ConfOK
<1>2. lo \in Nat /\ hi \in Nat /\ lo <= hi /\ size[d] = hi - lo + 1
  BY <1>1 DEF RangeOK
<1>3. 2 * lo <= x /\ x <= 2 * hi
  BY DEF Block!InRange, K
<1>4. \A e \in K : Block!Segment(p)[e] = (p[e] - 2 * iMin[e]) \div 2 /\ Block!Fraction(p)[e] = (p[e] - 2 * iMin[e]) % 2
  BY DEF Block!Segment, Block!Fraction, K
<1>5. x \in Int /\ c \in {0, 1}
  BY DEF BlockInv
<1>6. c = 1 => t > 0
  <2> DEFINE w == [e \in K |-> IF b[e] = 1 THEN Block!Fraction(p)[e] ELSE 2 - Block!Fraction(p)[e]]
  <2>1. Block!Weight(p, b) = w[0] * w[1] * (IF DIM = 3 THEN w[2] ELSE 1)
    BY DEF Block!Weight, Block!Product, K
  <2>2. \A e \in K : w[e] \in {0, 1, 2}
    <3> SUFFICES ASSUME NEW e \in K PROVE w[e] \in {0, 1, 2}
      OBVIOUS
    <3>1. p[e] \in Int /\ iMin[e] \in Nat
      BY <1>1 DEF RangeOK
    <3>2. Block!Fraction(p)[e] \in {0, 1}
      BY <1>4, <3>1
    <3>3. QED
      BY <3>2
  <2>3. w[d] = IF c = 1 THEN t ELSE 2 - t
    OBVIOUS
  <2> HIDE DEF w
  <2>4. w[d] # 0
    <3> SUFFICES ASSUME w[d] = 0 PROVE Block!Weight(p, b) = 0
      OBVIOUS
    <3>1. CASE DIM = 2
      <4>1. K = {0, 1}
        BY <3>1 DEF K, Block!Dims
      <4>2. w[0] \in {0, 1, 2} /\ w[1] \in {0, 1, 2} /\ (w[0] = 0 \/ w[1] = 0)
        BY <2>2, <4>1
      <4>3. QED
        BY <2>1, <3>1, <4>2
    <3>2. CASE DIM = 3
      <4>1. K = {0, 1, 2}
        BY <3>2 DEF K, Block!Dims
      <4>2. w[0] \in {0, 1, 2} /\ w[1] \in {0, 1, 2} /\ w[2] \in {0, 1, 2} /\ (w[0] = 0 \/ w[1] = 0 \/ w[2] = 0)
        BY <2>2, <4>1
      <4>3. Block!Weight(p, b) = (w[0] * w[1]) * w[2]
        BY <2>1, <3>2
      <4>4. (w[0] * w[1]) * w[2] = 0
        BY <4>2
      <4>5. QED
        BY <4>3, <4>4
    <3>3. QED
      BY <1>1, <3>1, <3>2
  <2>5. w[d] \in {0, 1, 2}
    BY <2>2
  <2>6. QED
    BY <2>3, <2>4, <2>5
<1>7. s = (x - 2 * lo) \div 2 /\ t = (x - 2 * lo) % 2
  BY <1>4
<1> HIDE DEF lo, hi, x, c, s, t
<1>8. s \in Nat /\ s + c \in 0 .. hi - lo /\ lo + (s + c) = x \div 2 + c
  BY <1>2, <1>3, <1>5, <1>6, <1>7
<1>9. size[d] - 1 = hi - lo
  BY <1>2
<1>10. QED
  BY <1>8, <1>9 DEF lo, x, c, s

\* The evaluation finds the values of the field at the corners.
LEMMA ReadsItsCorners == BlockInv => Block!Interpolates
<1> SUFFICES ASSUME BlockInv, blockPc = "ready", NEW p \in Block!HalfPoints, NEW b \in Block!Corners,
                    Block!InRange(p), Block!Weight(p, b) > 0
             PROVE  /\ Block!IndexOf(p, b) \in DOMAIN perm
                    /\ perm[Block!IndexOf(p, b)] = [d \in Block!Dims |-> p[d] \div 2 + b[d]]
  BY DEF Block!Interpolates
<1> DEFINE s == Block!Segment(p)
           j == [d \in K |-> s[d] + b[d]]
<1>1. p \in [K -> 0 .. 2 * N] /\ b \in [K -> {0, 1}] /\ K = Block!Dims
  BY DEF Block!HalfPoints, Block!Corners, K
<1>2. \A d \in K : s[d] \in Nat /\ j[d] \in 0 .. size[d] - 1 /\ iMin[d] + j[d] = p[d] \div 2 + b[d] /\ j[d] = s[d] + b[d]
  BY <1>1, CornerInBlock
<1>3. ConfOK /\ RangeOK /\ RowOK /\ Fetched /\ row[0] > iMax[0]
  BY DEF BlockInv
<1>4. /\ 0 \in K /\ DIM - 1 \in K /\ (DIM = 3 => 1 \in K)
      /\ \A d \in K : size[d] = iMax[d] - iMin[d] + 1 /\ size[d] \in Nat \ {0}
      /\ Mid \in Nat \ {0} /\ Last \in Nat \ {0} /\ size[0] \in Nat \ {0}
      /\ Block!Product(size) = (size[0] * Mid) * Last
  BY <1>3, BlockSizes
<1> HIDE DEF s, j
<1> DEFINE c == IF DIM = 3 THEN j[1] ELSE 0
<1>5. j[0] \in 0 .. size[0] - 1 /\ c \in 0 .. Mid - 1 /\ j[DIM - 1] \in 0 .. Last - 1
  BY <1>2, <1>4 DEF Mid, Last
<1>6. Block!IndexOf(p, b) = 1 + (Last * (Mid * j[0] + c) + j[DIM - 1])
  <2>1. CASE DIM = 2
    <3>1. K = {0, 1}
      BY <2>1 DEF K, Block!Dims
    <3>2. s[0] \in Nat /\ s[1] \in Nat /\ b[0] \in Nat /\ b[1] \in Nat /\ size[1] \in Nat
          /\ j[0] = s[0] + b[0] /\ j[1] = s[1] + b[1]
      BY <1>1, <1>2, <1>4, <3>1
    <3>3. Block!IndexOf(p, b) = 1 + (size[1] * s[0] + s[1]) + (b[0] * size[1] + b[1])
      BY <2>1 DEF Block!IndexOf, Block!Cell, Block!CornerOffset, s
    <3>4. \A n, u, v, x, y \in Nat : 1 + (n * u + v) + (x * n + y) = 1 + (n * (u + x) + (v + y))
      OBVIOUS
    <3>5. Block!IndexOf(p, b) = 1 + (size[1] * j[0] + j[1])
      BY <3>2, <3>3, <3>4
    <3>6. Last * (Mid * j[0] + c) + j[DIM - 1] = size[1] * j[0] + j[1]
      BY <2>1, <3>2 DEF Last, Mid
    <3>7. QED
      BY <3>5, <3>6
  <2>2. CASE DIM = 3
    <3>1. K = {0, 1, 2}
      BY <2>2 DEF K, Block!Dims
    <3>2. /\ s[0] \in Nat /\ s[1] \in Nat /\ s[2] \in Nat /\ b[0] \in Nat /\ b[1] \in Nat /\ b[2] \in Nat
          /\ size[1] \in Nat /\ size[2] \in Nat
          /\ j[0] = s[0] + b[0] /\ j[1] = s[1] + b[1] /\ j[2] = s[2] + b[2]
      BY <1>1, <1>2, <1>4, <3>1
    <3> DEFINE m == size[1]  l == size[2]
    <3>3. Block!IndexOf(p, b) = 1 + (l * (m * s[0] + s[1]) + s[2]) + (b[0] * (m * l) + b[1] * l + b[2])
      BY <2>2 DEF Block!IndexOf, Block!Cell, Block!CornerOffset, s
    <3>4. \A n, k, u, v, w, x, y, z \in Nat :
            1 + (n * (k * u + v) + w) + (x * (k * n) + y * n + z) = 1 + (n * (k * (u + x) + (v + y)) + (w + z))
      OBVIOUS
    <3>5. Block!IndexOf(p, b) = 1 + (l * (m * j[0] + j[1]) + j[2])
      BY <3>2, <3>3, <3>4
    <3>6. Last = l /\ Mid = m /\ c = j[1] /\ j[DIM - 1] = j[2]
      BY <2>2 DEF Last, Mid
    <3>7. QED
      BY <3>5, <3>6
  <2>3. QED
    BY <1>3, <2>1, <2>2 DEF ConfOK
<1>7. /\ Mid * j[0] + c \in Nat /\ Mid * j[0] + c < size[0] * Mid
      /\ 1 + (Last * (Mid * j[0] + c) + j[DIM - 1]) \in 1 .. (size[0] * Mid) * Last
  BY <1>4, <1>5, PlacesInLines
<1>8. Mid * j[0] + c < Line
  <2>1. row[0] - iMin[0] = size[0] /\ MidOff \in Nat
    <3>1. row[0] - iMin[0] = size[0]
      <4>1. /\ iMin[0] \in Nat /\ iMax[0] \in Nat /\ size[0] = iMax[0] - iMin[0] + 1
            /\ row[0] \in iMin[0] .. iMax[0] + 1 /\ row[0] > iMax[0]
        BY <1>3, <1>4 DEF RowOK, RangeOK
      <4>2. QED
        BY <4>1
    <3>2. MidOff \in Nat
      <4>1. CASE DIM = 3
        <5>1. iMin[1] \in Nat /\ iMax[1] \in Nat /\ row[1] \in iMin[1] .. iMax[1]
          BY <1>3, <1>4, <4>1 DEF RowOK, RangeOK
        <5>2. QED
          BY <4>1, <5>1 DEF MidOff
      <4>2. CASE DIM # 3
        BY <4>2 DEF MidOff
      <4>3. QED
        BY <4>1, <4>2
    <3>3. QED
      BY <3>1, <3>2
  <2>2. Line = size[0] * Mid + MidOff
    <3>1. Mid * size[0] = size[0] * Mid
      BY <1>4
    <3>2. QED
      BY <2>1, <3>1 DEF Line
  <2> DEFINE u == Mid * j[0] + c  v == size[0] * Mid
  <2>3. u \in Nat /\ v \in Nat /\ u < v /\ Line = v + MidOff
    BY <1>4, <1>7, <2>2
  <2> HIDE DEF u, v
  <2>4. u < Line
    BY <2>1, <2>3
  <2>5. QED
    BY <2>4 DEF u
<1>9. perm[Block!IndexOf(p, b)] = Node(j[0], c, j[DIM - 1])
  BY <1>3, <1>5, <1>6, <1>8 DEF Fetched
<1>10. Node(j[0], c, j[DIM - 1]) = [d \in K |-> iMin[d] + j[d]]
  <2> SUFFICES ASSUME NEW d \in K PROVE Node(j[0], c, j[DIM - 1])[d] = iMin[d] + j[d]
    BY DEF Node
  <2>1. d = 0 \/ d = DIM - 1 \/ (DIM = 3 /\ d = 1)
    BY <1>3 DEF K, Block!Dims, ConfOK
  <2>2. QED
    BY <1>3, <2>1 DEF Node, ConfOK
<1>11. [d \in K |-> iMin[d] + j[d]] = [d \in K |-> p[d] \div 2 + b[d]]
  BY <1>2
<1>12. Block!IndexOf(p, b) \in DOMAIN perm
  BY <1>3, <1>6, <1>7 DEF RowOK
<1>13. QED
  BY <1>1, <1>9, <1>10, <1>11, <1>12

\* A row of the block is inside of the layer it is read from.
LEMMA GetIsInWindow ==
  ASSUME BlockInv, blockPc = "fetch", row[0] <= iMax[0]
  PROVE  LET from == Block!Source(row) + iMin[DIM - 1] IN
         /\ Block!RankSource(row) \in 0 .. nProc - 1
         /\ from \in Nat /\ from + size[DIM - 1] <= Block!LayerSize
<1> DEFINE h == Block!n0
           W == 2 * N
           S == Block!PlaneSize
           x == row[0]
           r == x % h
           z == iMin[DIM - 1]
           y == IF DIM = 3 THEN W * row[1] ELSE 0
           from == Block!Source(row) + z
<1>1. ConfOK /\ RangeOK /\ RowOK
  BY DEF BlockInv
<1>2. /\ N \in Nat \ {0} /\ nProc \in Nat \ {0} /\ h \in Nat \ {0} /\ nProc * h = W
      /\ 0 \in K /\ DIM - 1 \in K /\ (DIM = 3 => 1 \in K) /\ Last = size[DIM - 1] /\ Last \in Nat
  BY <1>1, PartitionDivides, BlockSizes DEF Last
<1>3. /\ x \in Nat /\ x < W /\ z \in Nat /\ z + Last <= W
      /\ DIM = 3 => row[1] \in Nat /\ row[1] < W
  <2>1. /\ iMax[0] \in Nat /\ iMax[0] <= N /\ x \in Nat
        /\ iMin[DIM - 1] \in Nat /\ iMax[DIM - 1] \in Nat /\ iMax[DIM - 1] <= N
        /\ Last = iMax[DIM - 1] - iMin[DIM - 1] + 1
    BY <1>1, <1>2, BlockSizes DEF RangeOK, RowOK
  <2>2. DIM = 3 => row[1] \in Nat /\ row[1] <= iMax[1] /\ iMax[1] \in Nat /\ iMax[1] <= N /\ iMin[1] \in Nat
    BY <1>1, <1>2 DEF RangeOK, RowOK
  <2>3. QED
    BY <1>2, <2>1, <2>2
<1>4. Block!RankSource(row) = x \div h /\ Block!Source(row) = r * S + y /\ Block!LayerSize = h * S
  BY DEF Block!RankSource, Block!Source, Block!LayerSize
<1>5. y \in Nat /\ S \in Nat /\ y + W <= S /\ W \in Nat
  <2>1. CASE DIM = 2
    BY <1>2, <2>1 DEF Block!PlaneSize
  <2>2. CASE DIM = 3
    <3> DEFINE k == row[1]
    <3>1. W \in Nat \ {0} /\ k \in Nat /\ k < W /\ y = W * k /\ S = W * W
      BY <1>2, <1>3, <2>2 DEF Block!PlaneSize
    <3> HIDE DEF W, k, y, S
    <3>2. W * W = W * k + W * (W - k) /\ W * (W - k) >= W /\ W * k \in Nat /\ W * W \in Nat
      <4>1. W * W = W * k + W * (W - k) /\ W * k \in Nat /\ W * W \in Nat
        BY <3>1
      <4>2. W - k \in Nat /\ W - k >= 1
        BY <3>1
      <4>3. \A u, v \in Nat : v >= 1 => u * v >= u
        OBVIOUS
      <4>4. QED
        BY <3>1, <4>1, <4>2, <4>3
    <3> DEFINE t == W * k  u == W * (W - k)  v == W * W
    <3>3. t \in Nat /\ v \in Nat /\ u \in Int /\ v = t + u /\ u >= W /\ y = t /\ S = v
      BY <3>1, <3>2
    <3> HIDE DEF t, u, v
    <3>4. QED
      BY <3>1, <3>3
  <2>3. QED
    BY <1>1, <2>1, <2>2 DEF ConfOK
<1> HIDE DEF h, W, S, x, z, y
<1>6. x \div h \in 0 .. nProc - 1
  <2>1. x < nProc * h /\ x \in Nat /\ nProc \in Nat /\ h \in Nat \ {0}
    BY <1>2, <1>3
  <2>2. x \div h \in Nat /\ x \div h < nProc
    BY <2>1
  <2>3. QED
    BY <2>1, <2>2
<1>7. r \in Nat /\ r + 1 <= h
  BY <1>2, <1>3
<1> HIDE DEF r
<1>8. r * S \in Nat /\ r * S + S <= h * S
  <2>1. h * S = r * S + (h - r) * S /\ (h - r) * S >= S /\ r * S \in Nat
    <3>1. h * S = r * S + (h - r) * S /\ r * S \in Nat
      BY <1>2, <1>5, <1>7
    <3>2. h - r \in Nat /\ h - r >= 1
      BY <1>2, <1>7
    <3>3. \A u, v \in Nat : v >= 1 => v * u >= u
      OBVIOUS
    <3>4. QED
      BY <1>5, <3>1, <3>2, <3>3
  <2> DEFINE t == r * S  u == (h - r) * S  v == h * S
  <2>2. t \in Nat /\ u \in Int /\ v = t + u /\ u >= S
    BY <1>2, <1>5, <1>7, <2>1
  <2> HIDE DEF t, u, v
  <2>3. t + S <= v
    BY <1>5, <2>2
  <2>4. QED
    BY <2>2, <2>3 DEF t, v
<1> DEFINE t == r * S  layer == h * S
<1>9. t \in Nat /\ t + S <= layer /\ Block!Source(row) = t + y /\ Block!LayerSize = layer
  BY <1>4, <1>8
<1>10. layer \in Nat
  BY <1>2, <1>5
<1> HIDE DEF t, layer
<1>11. from \in Nat /\ from + Last <= layer
  BY <1>2, <1>3, <1>5, <1>9, <1>10
<1>12. QED
  BY <1>2, <1>4, <1>6, <1>9, <1>11 DEF x, z

---------------------------------------------------------------------------
\* A step of another problem's diffusion leaves the block alone.
LEMMA SameBlock == ASSUME BlockInv, UNCHANGED blockVars PROVE BlockInv'
<1>1. UNCHANGED <<DIM, N, nProc, iProc, overlap, iMin, iMax, size, row, perm, dest, blockPc>>
  BY DEF blockVars
<1>2. UNCHANGED <<K, Mid, Last, Line>>
  BY <1>1 DEF K, Block!Dims, Mid, Last, Line, MidOff
<1>3. \A a, c, b : Node(a, c, b)' = Node(a, c, b)
  BY <1>1, <1>2 DEF Node
<1>4. ConfOK' = ConfOK
  BY <1>1 DEF ConfOK, P, Block!PowerOf2
<1>5. RangeOK' = RangeOK /\ RowOK' = RowOK /\ Fetched' = Fetched
  BY <1>1, <1>2, <1>3 DEF RangeOK, RowOK, Fetched
<1>6. QED
  BY <1>1, <1>4, <1>5 DEF BlockInv

\* Only the diffusion that make_f has found ever runs.
DiffusionsInv ==
  \/ Random /\ workers = {} /\ BlockInv
  \/ ~Random /\ IInv

\* The block of "Random" is filled in the order it is read in, and the members of
\* the reservoirs' diffusions stay in the parts of their directions.
THEOREM DiffusionsInvariant == DiffusionsSpec => []DiffusionsInv
<1>1. MakeF => DiffusionsInv
  <2>1. Idle /\ Block!Init => DiffusionsInv
    BY InitBlock DEF Idle, Random, DiffusionsInv
  <2>2. ReservoirInit => ~Random
    BY DEF ReservoirInit, Random
  <2>3. QED
    BY <2>1, <2>2, InitReservoir DEF MakeF, DiffusionsInv
<1>2. DiffusionsInv /\ [DiffusionsNext]_<<vars, blockVars>> => DiffusionsInv'
  <2> SUFFICES ASSUME DiffusionsInv, [DiffusionsNext]_<<vars, blockVars>> PROVE DiffusionsInv'
    OBVIOUS
  <2>1. CASE Random /\ Block!Next /\ UNCHANGED vars
    <3>1. BlockInv'
      BY <2>1, SetRangeStep, FetchRowStep, FetchDoneStep DEF DiffusionsInv, Block!Next
    <3>2. UNCHANGED <<problem, workers>>
      BY <2>1 DEF vars, shared
    <3>3. QED
      BY <2>1, <3>1, <3>2 DEF DiffusionsInv, Random
  <2>2. CASE ~Random /\ ReservoirNext /\ UNCHANGED blockVars
    <3>1. IInv'
      BY <2>2, ReservoirStep DEF DiffusionsInv
    <3>2. UNCHANGED problem
      BY <2>2, ProblemKept
    <3>3. QED
      BY <2>2, <3>1, <3>2 DEF DiffusionsInv, Random
  <2>3. CASE UNCHANGED <<vars, blockVars>>
    <3>1. UNCHANGED vars /\ UNCHANGED blockVars
      BY <2>3
    <3>2. UNCHANGED <<problem, workers>>
      BY <3>1 DEF vars, shared
    <3>3. CASE Random /\ workers = {} /\ BlockInv
      BY <3>1, <3>2, <3>3, SameBlock DEF DiffusionsInv, Random
    <3>4. CASE ~Random /\ IInv
      BY <3>1, <3>2, <3>4, ReservoirStep DEF DiffusionsInv, Random
    <3>5. QED
      BY <3>3, <3>4 DEF DiffusionsInv
  <2>4. QED
    BY <2>1, <2>2, <2>3 DEF DiffusionsNext
<1>3. QED
  BY <1>1, <1>2, PTL DEF DiffusionsSpec

\* However the ranks cut the unit cube and the field, and in two dimensions as in
\* three: what an evaluation reads are the values of the field at the corners of
\* the segment its point is in.
THEOREM EvaluationInterpolates == DiffusionsSpec => []BlockInterpolates
<1>1. DiffusionsInv => BlockInterpolates
  BY ReadsItsCorners DEF DiffusionsInv, BlockInterpolates
<1>2. QED
  BY <1>1, DiffusionsInvariant, PTL

\* Every segment of the unit cube is given to one rank, and its block has the
\* segment's corners, for all powers of two of segments and of ranks.
THEOREM SegmentsHaveOneRank == DiffusionsSpec => []BlockSegmentsDistributed
<1>1. DiffusionsInv => BlockSegmentsDistributed
  BY SegmentsHaveARank DEF DiffusionsInv, BlockInv, BlockSegmentsDistributed
<1>2. QED
  BY <1>1, DiffusionsInvariant, PTL

\* An MPI_Get reads inside of the layer of a rank that exists.
GetsInWindow ==
  Random /\ blockPc = "fetch" /\ row[0] <= iMax[0] =>
    LET from == Block!Source(row) + iMin[DIM - 1] IN
    /\ Block!RankSource(row) \in 0 .. nProc - 1
    /\ from \in Nat /\ from + size[DIM - 1] <= Block!LayerSize

\* The gets of redistribute stay inside the windows of the ranks.
THEOREM GetsStayInWindows == DiffusionsSpec => []GetsInWindow
<1>1. DiffusionsInv => GetsInWindow
  BY GetIsInWindow DEF DiffusionsInv, GetsInWindow
<1>2. QED
  BY <1>1, DiffusionsInvariant, PTL

\* Whatever threads mix up in Tarbert's members, a value comes from the table and
\* from the part of its own direction.
THEOREM DirectionsStay == DiffusionsSpec => []DirectionsKept
<1>1. IInv => DirectionsKept
  BY DEF IInv, InParts, Located, Part, DirectionsKept
<1>2. workers = {} => DirectionsKept
  BY DEF DirectionsKept
<1>3. QED
  BY <1>1, <1>2, DiffusionsInvariant, PTL DEF DiffusionsInv

\* SPE10's evaluations, and those of a single thread with Tarbert's whole table,
\* return the entries of the block their point is in.
THEOREM ValuesOfOwnBlock == DiffusionsSpec => []OwnValue
<1>1. IInv => OwnValue
  <2> SUFFICES ASSUME IInv, Alone, NEW t \in workers, pc[t] = "idle", value[t] # Nothing
               PROVE value[t] = [d \in Dims |-> Subdomain(BlockOf(point[t])) + d * Size]
    BY DEF OwnValue, Alone
  <2>1. point[t] \in Points /\ value[t] = [d \in Dims |-> Wanted(point[t]) + d * Size]
    BY DEF IInv, Progress, OnItsWay
  <2>2. BlockOf(point[t]) = WhichPartition(point[t])
    BY <2>1, BlockOfPoint
  <2>3. QED
    BY <2>1, <2>2 DEF Wanted
<1>2. workers = {} => OwnValue
  BY DEF OwnValue
<1>3. QED
  BY <1>1, <1>2, DiffusionsInvariant, PTL DEF DiffusionsInv
=============================================================================
