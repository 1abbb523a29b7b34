--------------------------- MODULE LocalGrids_proofs ---------------------------
(***************************************************************************)
(* Proofs about the local grids and the search through them: about         *)
(* LocalGrids for any number of dimensions, coarse cells, micro cells and  *)
(* layers, and any box of interior cells; and, in the second half, about   *)
(* LocalGridSearch for every number of coarse cells, every view size and   *)
(* every sequence of calls.                                                *)
(*                                                                         *)
(* The steps of LocalGrids only lay down what the grids are made from      *)
(* (IInv); the rest is arithmetic about one local grid in one dimension:   *)
(* unless a side is cut off inside the layers (SidesWhole) it has as many   *)
(* elements as it is long (OneElementPerMicro), so that its element e is   *)
(* the micro cell lower + e, which is also the fine cell with that number. *)
(***************************************************************************)
EXTENDS GridsAndSearch, TLAPS

Conf ==
  /\ cells \in [Dims -> Nat \ {0}] /\ micro \in [Dims -> Nat \ {0}] /\ layers \in Nat
  /\ first \in [Dims -> Nat] /\ last \in [Dims -> Nat]
  /\ \A i \in Dims : first[i] <= last[i] /\ last[i] < cells[i]

Begun == stage \in {"local", "built", "done"}

HeldBox ==
  Begun => \A i \in Dims :
    held[i] = {k \in 0 .. cells[i] - 1 : first[i] - CoarseOverlap(i) <= k /\ k <= last[i] + CoarseOverlap(i)}

IsGrid(i, k, g) == g \in ExtentsOf(i, k)
GridsOfInterior ==
  /\ DOMAIN grids # {} => Begun
  /\ \A c \in DOMAIN grids : \A i \in Dims :
       c[i] \in Nat /\ first[i] <= c[i] /\ c[i] <= last[i] /\ IsGrid(i, c[i], grids[c][i])

FineCells == stage = "done" => \A i \in Dims : fine[i] = cells[i] * micro[i]

IInv == Conf /\ HeldBox /\ GridsOfInterior /\ FineCells

---------------------------------------------------------------------------
\* The quotient of a by b is the q with q * b <= a < (q + 1) * b, and is
\* monotonic.
LEMMA Division ==
  ASSUME NEW a \in Int, NEW b \in Nat \ {0}
  PROVE  /\ a \div b \in Int
         /\ \A q \in Int : q * b <= a /\ a < (q + 1) * b <=> a \div b = q
         /\ \A q \in Int : (q * b <= a => q <= a \div b) /\ (a < (q + 1) * b => a \div b <= q)
<1>1. a \div b \in Int /\ (a \div b) * b <= a /\ a < ((a \div b) + 1) * b
  OBVIOUS
<1> DEFINE d == a \div b
<1> HIDE DEF d
<1>2. d \in Int /\ d * b <= a /\ a < (d + 1) * b
  BY <1>1 DEF d
<1>3. \A q, r \in Int : q < r => (q + 1) * b <= r * b
  <2> SUFFICES ASSUME NEW q \in Int, NEW r \in Int, q < r PROVE (q + 1) * b <= r * b
    OBVIOUS
  <2>1. (q + 1) * b \in Int /\ r * b = (q + 1) * b + (r - (q + 1)) * b /\ (r - (q + 1)) * b >= 0
    OBVIOUS
  <2>2. QED
    BY <2>1
<1>4. \A q \in Int : q * b <= a => q <= d
  <2> SUFFICES ASSUME NEW q \in Int, q * b <= a, d < q PROVE FALSE
    BY <1>2
  <2>1. (d + 1) * b <= q * b
    BY <1>2, <1>3
  <2>2. QED
    BY <1>2, <2>1
<1>5. \A q \in Int : a < (q + 1) * b => d <= q
  <2> SUFFICES ASSUME NEW q \in Int, a < (q + 1) * b, q < d PROVE FALSE
    BY <1>2
  <2>1. (q + 1) * b <= d * b
    BY <1>2, <1>3
  <2>2. QED
    BY <1>2, <2>1
<1>6. \A q \in Int : q * b <= a /\ a < (q + 1) * b <=> d = q
  BY <1>2, <1>4, <1>5
<1>7. QED
  BY <1>2, <1>4, <1>5, <1>6 DEF d

\* A positive factor cancels in a comparison.
LEMMA Factors ==
  ASSUME NEW x \in Int, NEW y \in Int, NEW b \in Nat \ {0}
  PROVE (x <= y <=> x * b <= y * b) /\ (x = y <=> x * b = y * b)
OBVIOUS

\* Max of a set of two numbers is the larger one (Extent's lower end).
LEMMA MaxOfTwo ==
  ASSUME NEW a \in Int, NEW b \in Int
  PROVE Max({a, b}) = IF a >= b THEN a ELSE b
BY DEF Max

\* Min of a set of two numbers is the smaller one (Extent's upper end).
LEMMA MinOfTwo ==
  ASSUME NEW a \in Int, NEW b \in Int
  PROVE Min({a, b}) = IF a <= b THEN a ELSE b
BY DEF Min

\* The overlap in coarse cells holds all layers.
LEMMA OverlapHoldsLayers ==
  ASSUME Conf, NEW i \in Dims
  PROVE CoarseOverlap(i) \in Nat /\ layers <= CoarseOverlap(i) * micro[i]
<1> DEFINE m == micro[i]
           a == layers + m - 1
<1>1. m \in Nat \ {0} /\ layers \in Nat
  BY DEF Conf
<1> HIDE DEF m
<1>2. a \in Int /\ 0 * m <= a
  BY <1>1
<1>3. 0 <= a \div m /\ a \div m \in Int
  BY <1>1, <1>2, Division
<1>4. (a \div m) * m <= a /\ a < ((a \div m) + 1) * m
  BY <1>1, <1>2, <1>3, Division
<1>5. ((a \div m) + 1) * m = (a \div m) * m + m
  BY <1>1, <1>3
<1>6. (a \div m) * m \in Int
  BY <1>1, <1>3
<1>7. CoarseOverlap(i) = a \div m
  BY DEF CoarseOverlap, m
<1>8. QED
  BY <1>1, <1>3, <1>4, <1>5, <1>6, <1>7 DEF m

---------------------------------------------------------------------------
\* A run starts without grids, so that only the configuration counts.
LEMMA InitGrids == GridsInit => IInv
<1> SUFFICES ASSUME GridsInit PROVE IInv
  OBVIOUS
<1>1. Conf
  BY BoundsAssumption DEF GridsInit, Conf
<1>2. stage = "coarse" /\ DOMAIN grids = {}
  BY DEF GridsInit
<1>3. QED
  BY <1>1, <1>2 DEF IInv, HeldBox, GridsOfInterior, FineCells, Begun

\* make_coarse_grid gives the rank its interior cells and the overlap.
LEMMA MakeCoarseGridStep == ASSUME IInv, MakeCoarseGrid PROVE IInv'
<1>1. /\ stage' = "local" /\ UNCHANGED <<cells, micro, layers, first, last, fine, grids>> /\ stage = "coarse"
      /\ held' = [i \in Dims |->
           {k \in 0 .. cells[i] - 1 : first[i] - CoarseOverlap(i) <= k /\ k <= last[i] + CoarseOverlap(i)}]
  BY DEF MakeCoarseGrid, conf
<1>2. Conf'
  BY <1>1 DEF IInv, Conf
<1>3. HeldBox'
  BY <1>1 DEF HeldBox, CoarseOverlap
<1>4. GridsOfInterior'
  BY <1>1 DEF IInv, GridsOfInterior, Begun
<1>5. FineCells'
  BY <1>1 DEF FineCells
<1>6. QED
  BY <1>2, <1>3, <1>4, <1>5 DEF IInv

\* The constructor of LocalGridList adds the grid of one more interior cell.
LEMMA BuildGridStep == ASSUME IInv, BuildGrid PROVE IInv'
<1> DEFINE c == CHOOSE c \in Interior \ DOMAIN grids : TRUE
<1>1. c \in Interior /\ stage = "local"
  BY DEF BuildGrid
<1>2. PICK g \in [Dims -> UNION {ExtentsOf(i, c[i]) : i \in Dims}] :
         /\ \A i \in Dims : g[i] \in ExtentsOf(i, c[i])
         /\ grids' = [d \in (DOMAIN grids) \cup {c} |-> IF d = c THEN g ELSE grids[d]]
  BY DEF BuildGrid
<1>3. UNCHANGED <<cells, micro, layers, first, last, fine, held, stage>>
  BY DEF BuildGrid, conf
<1> HIDE DEF c
<1>4. Conf' /\ HeldBox' /\ FineCells'
  BY <1>3 DEF IInv, Conf, HeldBox, Begun, CoarseOverlap, FineCells
<1>5. \A i \in Dims : c[i] \in Nat /\ first[i] <= c[i] /\ c[i] <= last[i]
  BY <1>1 DEF Interior, IInv, Conf
<1>6. \A i, k, h : IsGrid(i, k, h)' <=> IsGrid(i, k, h)
  BY <1>3 DEF IsGrid, ExtentsOf, Extent, ElementsPerDim, Below
<1>7. GridsOfInterior'
  <2>1. Begun'
    BY <1>1, <1>3 DEF Begun
  <2>2. ASSUME NEW d \in DOMAIN grids', NEW i \in Dims
        PROVE  d[i] \in Nat /\ first[i] <= d[i] /\ d[i] <= last[i] /\ IsGrid(i, d[i], grids'[d][i])
    <3>1. CASE d = c
      BY <1>2, <1>5, <3>1 DEF IsGrid
    <3>2. CASE d # c
      BY <1>2, <3>2 DEF IInv, GridsOfInterior
    <3>3. QED
      BY <3>1, <3>2
  <2>3. QED
    BY <1>3, <1>6, <2>1, <2>2 DEF GridsOfInterior
<1>8. QED
  BY <1>4, <1>7 DEF IInv

\* The other steps leave the configuration and the local grids alone.
LEMMA SameGrids ==
  ASSUME IInv, UNCHANGED <<cells, micro, layers, first, last, grids>>, Begun => Begun'
  PROVE  Conf' /\ GridsOfInterior'
<1>1. Conf'
  BY DEF IInv, Conf
<1>2. \A i, k, h : IsGrid(i, k, h)' <=> IsGrid(i, k, h)
  BY DEF IsGrid, ExtentsOf, Extent, ElementsPerDim, Below
<1>3. GridsOfInterior'
  BY <1>2 DEF IInv, GridsOfInterior
<1>4. QED
  BY <1>1, <1>3

\* The configuration, the cells held and the local grids are what the steps laid
\* down, in every state.
THEOREM GridsInvariant == GridsSpec => []IInv
<1>1. IInv /\ [GridsNext]_gridsVars => IInv'
  <2> SUFFICES ASSUME IInv, [GridsNext]_gridsVars PROVE IInv'
    OBVIOUS
  <2>1. CASE RejectOverlap
    <3>1. stage = "coarse" /\ stage' = "failed" /\ UNCHANGED <<cells, micro, layers, first, last, fine, held, grids>>
      BY <2>1 DEF RejectOverlap, conf
    <3>2. Conf' /\ GridsOfInterior'
      BY <3>1, SameGrids DEF Begun
    <3>3. QED
      BY <3>1, <3>2 DEF IInv, HeldBox, Begun, FineCells
  <2>2. CASE AllBuilt
    <3>1. stage = "local" /\ stage' = "built" /\ UNCHANGED <<cells, micro, layers, first, last, fine, held, grids>>
      BY <2>2 DEF AllBuilt, conf
    <3>2. Conf' /\ GridsOfInterior'
      BY <3>1, SameGrids DEF Begun
    <3>3. HeldBox'
      BY <3>1 DEF IInv, HeldBox, Begun, CoarseOverlap
    <3>4. QED
      BY <3>1, <3>2, <3>3 DEF IInv, FineCells
  <2>3. CASE MakeFineGrid
    <3>1. /\ stage = "built" /\ stage' = "done" /\ fine' = [i \in Dims |-> cells[i] * micro[i]]
          /\ UNCHANGED <<cells, micro, layers, first, last, held, grids>>
      BY <2>3 DEF MakeFineGrid, conf
    <3>2. Conf' /\ GridsOfInterior'
      BY <3>1, SameGrids DEF Begun
    <3>3. HeldBox'
      BY <3>1 DEF IInv, HeldBox, Begun, CoarseOverlap
    <3>4. FineCells'
      BY <3>1 DEF FineCells
    <3>5. QED
      BY <3>2, <3>3, <3>4 DEF IInv
  <2>4. CASE UNCHANGED gridsVars
    <3>1. UNCHANGED <<cells, micro, layers, first, last, fine, held, grids, stage>>
      BY <2>4 DEF gridsVars, conf
    <3>2. Conf' /\ GridsOfInterior'
      BY <3>1, SameGrids DEF Begun
    <3>3. HeldBox'
      BY <3>1 DEF IInv, HeldBox, Begun, CoarseOverlap
    <3>4. QED
      BY <3>1, <3>2, <3>3 DEF IInv, FineCells
  <2>5. QED
    BY <2>1, <2>2, <2>3, <2>4, MakeCoarseGridStep, BuildGridStep DEF GridsNext
<1>2. QED
  BY <1>1, InitGrids, PTL DEF GridsSpec

---------------------------------------------------------------------------
\* A local grid in dimension i lies between the borders of the domain, and no
\* farther from its cell than the layers.
LEMMA ExtentBounds ==
  ASSUME Conf, NEW i \in Dims, NEW kk \in Nat, NEW g, IsGrid(i, kk, g)
  PROVE  /\ g.lower = (IF kk * micro[i] - layers >= 0 THEN kk * micro[i] - layers ELSE 0)
         /\ g.upper = (IF (kk + 1) * micro[i] + layers <= cells[i] * micro[i]
                       THEN (kk + 1) * micro[i] + layers ELSE cells[i] * micro[i])
<1>1. PICK left, right : g = Extent(i, kk, left, right)
  BY DEF IsGrid, ExtentsOf
<1>2. g.lower = Max({kk * micro[i] - layers, 0}) /\ g.upper = Min({(kk + 1) * micro[i] + layers, cells[i] * micro[i]})
  BY <1>1 DEF Extent
<1>3. micro[i] \in Nat \ {0} /\ cells[i] \in Nat \ {0} /\ layers \in Nat
  BY DEF Conf
<1>4. kk * micro[i] - layers \in Int /\ (kk + 1) * micro[i] + layers \in Int /\ cells[i] * micro[i] \in Int
  BY <1>3
<1>5. QED
  BY <1>2, <1>4, MaxOfTwo, MinOfTwo

\* The rank holds the coarse cells its local grids reach into, whatever the number
\* of layers is.
THEOREM OverlapSuffices == GridsSpec => []PatchOnRank
<1>1. IInv => PatchOnRank
  <2> SUFFICES ASSUME IInv, NEW c \in DOMAIN grids, NEW i \in Dims,
                      NEW x \in grids[c][i].lower .. grids[c][i].upper - 1
               PROVE x \div micro[i] \in held[i]
    BY DEF PatchOnRank
  <2> DEFINE g == grids[c][i]
             m == micro[i]
             o == CoarseOverlap(i)
             n == cells[i]
             kk == c[i]
  <2>1. /\ m \in Nat \ {0} /\ n \in Nat \ {0} /\ layers \in Nat /\ kk \in Nat
        /\ first[i] \in Nat /\ last[i] \in Nat /\ first[i] <= kk /\ kk <= last[i]
    BY DEF IInv, Conf, GridsOfInterior
  <2>2. o \in Nat /\ layers <= o * m
    BY OverlapHoldsLayers DEF IInv
  <2>3. IsGrid(i, kk, g)
    BY DEF IInv, GridsOfInterior
  <2>4. /\ g.lower = (IF kk * m - layers >= 0 THEN kk * m - layers ELSE 0)
        /\ g.upper = (IF (kk + 1) * m + layers <= n * m THEN (kk + 1) * m + layers ELSE n * m)
    BY <2>1, <2>3, ExtentBounds DEF IInv
  <2>5. Begun /\ held[i] = {l \in 0 .. n - 1 : first[i] - o <= l /\ l <= last[i] + o}
    BY DEF IInv, GridsOfInterior, HeldBox
  <2>6. x \in Int /\ g.lower <= x /\ x < g.upper
    <3>1. g.lower \in Int /\ g.upper \in Int
      BY <2>1, <2>4
    <3>2. QED
      BY <3>1
  <2> HIDE DEF g, m, o, n, kk
  <2>7. kk * m \in Int /\ o * m \in Int /\ n * m \in Int /\ (kk + 1) * m = kk * m + m
    BY <2>1, <2>2
  <2>8. 0 * m <= x /\ x < ((n - 1) + 1) * m
    BY <2>1, <2>4, <2>6, <2>7
  <2>9. (kk - o) * m <= x /\ x < ((kk + o) + 1) * m
    <3>1. (kk - o) * m = kk * m - o * m /\ ((kk + o) + 1) * m = kk * m + o * m + m
      BY <2>1, <2>2
    <3>2. QED
      BY <2>1, <2>2, <2>4, <2>6, <2>7, <3>1
  <2>10. /\ x \div m \in Int /\ 0 <= x \div m /\ x \div m <= n - 1
         /\ kk - o <= x \div m /\ x \div m <= kk + o
    <3>1. \A q \in Int : (q * m <= x => q <= x \div m) /\ (x < (q + 1) * m => x \div m <= q)
      BY <2>1, <2>6, Division
    <3>2. {0, n - 1, kk - o, kk + o} \subseteq Int /\ x \div m \in Int
      BY <2>1, <2>2, <2>6, Division
    <3>3. QED
      BY <2>8, <2>9, <3>1, <3>2
  <2>11. x \div m \in held[i]
    BY <2>1, <2>2, <2>5, <2>10
  <2>12. QED
    BY <2>11 DEF m
<1>2. QED
  BY <1>1, GridsInvariant, PTL

---------------------------------------------------------------------------
\* Comparing two doubles has the right outcome when their values differ, and when
\* there are no layers.
LEMMA BelowIsLess ==
  ASSUME NEW a \in Int, NEW b \in Int, a # b \/ ~(layers > 0), NEW less \in Below(a, b)
  PROVE  less <=> a < b
<1>1. Below(a, b) = {a < b}
  BY Zenon DEF Below
<1>2. less = (a < b)
  BY Zenon, <1>1
<1>3. QED
  BY Zenon, <1>2

\* A local grid with no side cut off inside the layers has one element per micro
\* cell it covers, and covers its cell.
LEMMA OneElementPerMicro ==
  ASSUME Conf, NEW i \in Dims, NEW kk \in Nat, kk < cells[i], SidesWhole(i, kk), NEW g, IsGrid(i, kk, g)
  PROVE  /\ g.lower \in Nat /\ g.upper \in Nat /\ g.elements = g.upper - g.lower
         /\ g.lower <= kk * micro[i] /\ (kk + 1) * micro[i] <= g.upper
<1> DEFINE m == micro[i]
           n == cells[i]
           L == layers
<1>1. m \in Nat \ {0} /\ n \in Nat \ {0} /\ L \in Nat /\ kk < n
  BY DEF Conf
<1>2. PICK left \in Below(kk * m - L, 0), right \in Below(n * m, (kk + 1) * m + L) : g = Extent(i, kk, left, right)
  BY DEF IsGrid, ExtentsOf
<1>3. /\ g.lower = (IF kk * m - L >= 0 THEN kk * m - L ELSE 0)
      /\ g.upper = (IF (kk + 1) * m + L <= n * m THEN (kk + 1) * m + L ELSE n * m)
  BY ExtentBounds
<1>4. g.elements = m + ((IF left THEN 0 ELSE 1) + (IF right THEN 0 ELSE 1)) * L
  BY <1>2 DEF Extent, ElementsPerDim
<1> HIDE DEF m, n, L
<1>5. kk * m \in Nat /\ (kk + 1) * m = kk * m + m /\ n * m \in Nat
  BY <1>1
<1>6. kk = 0 \/ L < kk * m
  BY DEF SidesWhole, m, L
<1>7. kk + 1 = n \/ (kk + 1) * m + L < n * m
  <2>1. kk = n - 1 \/ (kk + 1) * m + L < n * m
    BY DEF SidesWhole, m, n, L
  <2>2. QED
    BY <1>1, <2>1
<1>8. (kk + 1) * m <= n * m
  BY <1>1, <1>5, <1>7
<1>9. left <=> kk * m - L < 0
  <2>1. kk * m - L \in Int /\ (kk * m - L # 0 \/ ~(layers > 0))
    BY <1>1, <1>5, <1>6 DEF L
  <2>2. QED
    BY <2>1, <1>2, BelowIsLess
<1>10. right <=> n * m < (kk + 1) * m + L
  <2>1. n * m \in Int /\ (kk + 1) * m + L \in Int /\ (n * m # (kk + 1) * m + L \/ ~(layers > 0))
    BY <1>1, <1>5, <1>7 DEF L
  <2>2. QED
    BY <2>1, <1>2, BelowIsLess
<1>11. g.elements = m + (IF kk * m - L < 0 THEN 0 ELSE L) + (IF n * m < (kk + 1) * m + L THEN 0 ELSE L)
  BY <1>1, <1>4, <1>9, <1>10
<1>12. kk * m - L < 0 <=> kk = 0 /\ L > 0
  BY <1>1, <1>5, <1>6
<1>13. n * m < (kk + 1) * m + L <=> kk + 1 = n /\ L > 0
  BY <1>1, <1>5, <1>7
<1>14. g.lower \in Nat /\ g.upper \in Nat /\ g.lower <= kk * m /\ (kk + 1) * m <= g.upper
  BY <1>1, <1>3, <1>5, <1>8
<1>15. g.elements = g.upper - g.lower
  <2>1. kk = 0 => kk * m = 0
    BY <1>1
  <2>2. kk + 1 = n => (kk + 1) * m = n * m
    OBVIOUS
  <2>3. QED
    BY <1>1, <1>3, <1>5, <1>11, <1>12, <1>13, <2>1, <2>2
<1>16. QED
  BY <1>14, <1>15 DEF m

\* The elements covers() accepts are those whose micro cell belongs to the cell.
LEMMA CoveredAreMicroCells ==
  ASSUME Conf, NEW i \in Dims, NEW kk \in Nat, kk < cells[i], SidesWhole(i, kk), NEW g, IsGrid(i, kk, g),
         NEW e \in 0 .. g.elements - 1
  PROVE  /\ Left(g, e) = (g.lower + e) * g.elements
         /\ Left(g, e + 1) = (g.lower + e + 1) * g.elements
         /\ e \in Covered(i, kk, g) <=> kk * micro[i] <= g.lower + e /\ g.lower + e < (kk + 1) * micro[i]
<1> DEFINE m == micro[i]
           n == g.elements
           l == g.lower
<1>1. m \in Nat \ {0}
  BY DEF Conf
<1>2. /\ l \in Nat /\ g.upper \in Nat /\ n = g.upper - l
      /\ l <= kk * m /\ (kk + 1) * m <= g.upper
  BY OneElementPerMicro
<1>3. Length(g) = n
  BY <1>2 DEF Length
<1> HIDE DEF m
<1>4. n \in Nat \ {0}
  <2>1. (kk + 1) * m = kk * m + m /\ kk * m \in Nat
    BY <1>1
  <2>2. QED
    BY <1>1, <1>2, <2>1
<1>5. e \in Nat
  BY <1>4
<1>6. Left(g, e) = l * n + e * n /\ Left(g, e + 1) = l * n + (e + 1) * n
  BY <1>3 DEF Left
<1>7. /\ e \in Covered(i, kk, g) <=>
           /\ 2 * kk * m * n <= Left(g, e) + Left(g, e + 1)
           /\ Left(g, e) + Left(g, e + 1) <= 2 * (kk + 1) * m * n
  BY DEF Covered, m
<1> HIDE DEF n, l
<1>8. Left(g, e) = (l + e) * n /\ Left(g, e + 1) = (l + e + 1) * n
  <2>1. \A a, b, z \in Nat : a * z + b * z = (a + b) * z /\ a + (b + 1) = a + b + 1
    OBVIOUS
  <2>2. l \in Nat /\ e \in Nat /\ e + 1 \in Nat /\ n \in Nat
    BY <1>2, <1>4, <1>5
  <2>3. l * n + e * n = (l + e) * n /\ l * n + (e + 1) * n = (l + (e + 1)) * n
    BY ONLY <2>1, <2>2
  <2>4. l + (e + 1) = l + e + 1
    BY ONLY <2>1, <2>2
  <2> QED BY <1>6, <2>3, <2>4
<1>9. /\ Left(g, e) + Left(g, e + 1) = (2 * (l + e) + 1) * n
      /\ 2 * kk * m * n = (2 * (kk * m)) * n
      /\ 2 * (kk + 1) * m * n = (2 * ((kk + 1) * m)) * n
  BY <1>1, <1>2, <1>4, <1>5, <1>8
<1>10. 2 * (kk * m) \in Int /\ 2 * ((kk + 1) * m) \in Int /\ 2 * (l + e) + 1 \in Int
  BY <1>1, <1>2, <1>5
<1>11. /\ 2 * (kk * m) <= 2 * (l + e) + 1 <=> (2 * (kk * m)) * n <= (2 * (l + e) + 1) * n
       /\ 2 * (l + e) + 1 <= 2 * ((kk + 1) * m) <=> (2 * (l + e) + 1) * n <= (2 * ((kk + 1) * m)) * n
  BY <1>4, <1>10, Factors
<1>12. e \in Covered(i, kk, g) <=> 2 * (kk * m) <= 2 * (l + e) + 1 /\ 2 * (l + e) + 1 <= 2 * ((kk + 1) * m)
  BY <1>7, <1>9, <1>11
<1>13. kk * m \in Int /\ (kk + 1) * m \in Int
  BY <1>1
<1>14. e \in Covered(i, kk, g) <=> kk * m <= l + e /\ l + e < (kk + 1) * m
  BY <1>2, <1>5, <1>12, <1>13
<1>15. QED
  BY <1>8, <1>14 DEF m, n, l

\* The fine cells whose left border lies in a coarse cell are its micro cells.
LEMMA FineCellsAreMicroCells ==
  ASSUME NEW C \in Nat \ {0}, NEW m \in Nat \ {0}, NEW kk \in Nat, NEW x \in Nat
  PROVE  (x * C) \div (C * m) = kk <=> kk * m <= x /\ x < (kk + 1) * m
<1>1. x * C \in Int /\ C * m \in Nat \ {0}
  OBVIOUS
<1>2. kk * (C * m) <= x * C /\ x * C < (kk + 1) * (C * m) <=> (x * C) \div (C * m) = kk
  BY <1>1, Division
<1>3. kk * (C * m) = (kk * m) * C /\ (kk + 1) * (C * m) = ((kk + 1) * m) * C
  OBVIOUS
<1>4. kk * m \in Int /\ (kk + 1) * m \in Int /\ x \in Int
  OBVIOUS
<1>5. /\ kk * m <= x <=> (kk * m) * C <= x * C
      /\ (kk + 1) * m <= x <=> ((kk + 1) * m) * C <= x * C
  BY <1>4, Factors
<1>6. QED
  BY <1>1, <1>2, <1>3, <1>4, <1>5

\* Unless a side is cut off inside the layers, the elements of a local grid that
\* covers() accepts are the cells the fine grid has in the coarse cell.
THEOREM CoveredElementsAreFineCells == GridsSpec => []CoveredIsCell
<1>1. IInv => CoveredIsCell
  <2> SUFFICES ASSUME IInv, stage = "done", NEW c \in DOMAIN grids, NEW i \in Dims, SidesWhole(i, c[i])
               PROVE LET g == grids[c][i]
                         fineCells == {x \in 0 .. fine[i] - 1 : (x * cells[i]) \div fine[i] = c[i]}
                         Place(x) == x * cells[i] * micro[i] * g.elements
                     IN {<<Left(g, e) * fine[i], Left(g, e + 1) * fine[i]>> : e \in Covered(i, c[i], g)}
                          = {<<Place(x), Place(x + 1)>> : x \in fineCells}
    BY DEF CoveredIsCell
  <2> DEFINE g == grids[c][i]
             m == micro[i]
             C == cells[i]
             f == fine[i]
             kk == c[i]
             n == g.elements
             l == g.lower
             fineCells == {x \in 0 .. f - 1 : (x * C) \div f = kk}
             Place(x) == x * C * m * n
  <2>1. Conf /\ m \in Nat \ {0} /\ C \in Nat \ {0} /\ f = C * m
    BY DEF IInv, Conf, FineCells
  <2>2. kk \in Nat /\ kk < C /\ IsGrid(i, kk, g)
    BY DEF IInv, Conf, GridsOfInterior
  <2>3. l \in Nat /\ g.upper \in Nat /\ n = g.upper - l /\ l <= kk * m /\ (kk + 1) * m <= g.upper
    BY <2>1, <2>2, OneElementPerMicro
  <2>4. ASSUME NEW e \in 0 .. n - 1
        PROVE  /\ Left(g, e) = (l + e) * n /\ Left(g, e + 1) = (l + e + 1) * n
               /\ e \in Covered(i, kk, g) <=> kk * m <= l + e /\ l + e < (kk + 1) * m
    BY <2>1, <2>2, CoveredAreMicroCells
  <2>5. Covered(i, kk, g) \subseteq 0 .. n - 1
    BY DEF Covered
  <2> HIDE DEF g, m, C, f, kk, n, l
  <2>6. kk * m \in Nat /\ (kk + 1) * m \in Nat /\ n \in Int /\ (kk + 1) * m <= C * m
    <3>1. C * m = (kk + 1) * m + (C - (kk + 1)) * m /\ (C - (kk + 1)) * m >= 0 /\ (C - (kk + 1)) * m \in Int
      BY <2>1, <2>2
    <3>2. QED
      BY <2>1, <2>2, <2>3, <3>1
  <2>7. ASSUME NEW x \in Nat
        PROVE  x \in fineCells <=> kk * m <= x /\ x < (kk + 1) * m
    <3>1. (x * C) \div f = kk <=> kk * m <= x /\ x < (kk + 1) * m
      BY <2>1, <2>2, FineCellsAreMicroCells
    <3>2. x < (kk + 1) * m => x \in 0 .. f - 1
      <4>1. f \in Nat
        BY <2>1
      <4>2. QED
        BY <2>1, <2>6, <4>1
    <3>3. QED
      BY <3>1, <3>2
  <2>8. ASSUME NEW x \in Int
        PROVE  (x * n) * f = Place(x)
    BY <2>1, <2>6
  <2>9. fineCells \subseteq Nat
    BY <2>1
  <2> HIDE DEF fineCells, Place
  <2>10. ASSUME NEW e \in Covered(i, kk, g)
         PROVE  l + e \in fineCells /\ <<Left(g, e) * f, Left(g, e + 1) * f>> = <<Place(l + e), Place(l + e + 1)>>
    <3>1. e \in 0 .. n - 1
      BY <2>5
    <3>2. l + e \in Nat /\ l + e \in Int /\ l + e + 1 \in Int
      BY <2>3, <2>6, <3>1
    <3>3. l + e \in fineCells
      BY <2>4, <2>7, <3>1, <3>2
    <3>4. ((l + e) * n) * f = Place(l + e) /\ ((l + e + 1) * n) * f = Place(l + e + 1)
      BY <2>8, <3>2
    <3>5. QED
      BY <2>4, <3>1, <3>3, <3>4
  <2>11. ASSUME NEW x \in fineCells
         PROVE  \E e \in Covered(i, kk, g) : x = l + e
    <3>1. x \in Nat /\ kk * m <= x /\ x < (kk + 1) * m
      BY <2>7, <2>9
    <3>2. x - l \in 0 .. n - 1 /\ l + (x - l) = x
      BY <2>3, <2>6, <3>1
    <3>3. x - l \in Covered(i, kk, g)
      BY <2>4, <3>1, <3>2
    <3>4. QED
      BY <3>2, <3>3
  <2>12. {<<Left(g, e) * f, Left(g, e + 1) * f>> : e \in Covered(i, kk, g)} = {<<Place(x), Place(x + 1)>> : x \in fineCells}
    <3>1. ASSUME NEW e \in Covered(i, kk, g)
          PROVE  <<Left(g, e) * f, Left(g, e + 1) * f>> \in {<<Place(x), Place(x + 1)>> : x \in fineCells}
      BY <2>10
    <3>2. ASSUME NEW x \in fineCells
          PROVE  <<Place(x), Place(x + 1)>> \in {<<Left(g, e) * f, Left(g, e + 1) * f>> : e \in Covered(i, kk, g)}
      <4>1. PICK e \in Covered(i, kk, g) : x = l + e
        BY <2>11
      <4>2. <<Left(g, e) * f, Left(g, e + 1) * f>> = <<Place(x), Place(x + 1)>>
        BY <2>10, <4>1
      <4>3. QED
        BY <4>2
    <3>3. QED
      BY <3>1, <3>2
  <2>13. QED
    BY <2>12 DEF g, m, C, f, kk, n, fineCells, Place
<1>2. QED
  BY <1>1, GridsInvariant, PTL
---------------------------------------------------------------------------
(* LocalGridSearch.  The iterator may start anywhere and the rounds are    *)
(* counted from cell 1 on, so the inductive invariant SearchInv says which *)
(* cells a call has ruled out: in its first (partial) round those from     *)
(* start to it - 1, in the second also those from start to N and 1 to      *)
(* it - 1, and from then on all of them.                                   *)

RuledOut ==
  pc = "loop" /\ null =>
    /\ steps = 0 => /\ start <= it
                    /\ looked = it - start
                    /\ \A c \in query : ~(start <= c /\ c < it)
    /\ steps = 1 => /\ \A c \in query : ~(start <= c \/ c < it)
                    /\ query # {} => looked = (N - start) + it
    /\ steps >= 2 => query = {}

InLoop == pc = "loop" => it \in CoarseCells /\ steps < ViewSize

Found == pc = "loop" /\ ~null => pointer = from /\ pointer \in query

Ready == /\ pc = "ready" => ~null /\ it # End
         /\ pc # "ready" => it # Unset

SearchInv ==
  /\ TypeOK
  /\ InLoop
  /\ RuledOut
  /\ Found
  /\ Ready
  /\ CurrentCellMatches
  /\ OneRoundSuffices
  /\ ViewSize >= 2 => SearchSucceeds

---------------------------------------------------------------------------
\* Before the first call nothing has been searched.
LEMMA InitSearch == Init => SearchInv
<1> SUFFICES ASSUME Init PROVE SearchInv
  OBVIOUS
<1>1. null \in BOOLEAN /\ null = FALSE
  BY Zenon DEF Init
<1>2. TypeOK
  BY <1>1, NAssumption, ViewAssumption DEF Init, TypeOK, CoarseCells, NoCell, Unset, End
<1>3. QED
  BY <1>1, <1>2, NAssumption DEF Init, SearchInv, InLoop, RuledOut, Found, Ready, CurrentCellMatches,
     OneRoundSuffices, SearchSucceeds, Unset, End

\* A call starts wherever the last one has stopped.
LEMMA CallStep == ASSUME SearchInv, NEW q \in Queries, Call(q) PROVE SearchInv'
<1> USE DEF SearchInv
<1> USE NAssumption, ViewAssumption
<1>1. it' \in CoarseCells /\ start' = it' /\ it' # Unset
  <2>1. CASE it = Unset
    BY <2>1 DEF Call, Begins, CoarseCells, Unset
  <2>2. CASE it # Unset
    BY <2>2 DEF Call, Begins, TypeOK, CoarseCells, Unset, End, Ready
  <2>3. QED
    BY <2>1, <2>2
<1>2. null' \in BOOLEAN /\ null' = TRUE
  BY Zenon DEF Call
<1>3. TypeOK'
  BY <1>1, <1>2, QueriesAssumption DEF Call, Begins, TypeOK, NoCell, CoarseCells, Unset, End
<1>4. InLoop' /\ Found' /\ Ready'
  BY <1>1, <1>2 DEF Call, Begins, InLoop, Found, Ready
<1>5. RuledOut'
  <2>1. steps' = 0 /\ looked' = 0 /\ query' \in SUBSET CoarseCells
    BY <1>3 DEF Call, Begins, TypeOK
  <2>2. /\ start' <= it' /\ looked' = it' - start'
        /\ \A c \in query' : ~(start' <= c /\ c < it')
    <3>1. it' \in Nat /\ start' = it' /\ \A c \in query' : c \in Nat
      BY <1>1, <2>1 DEF CoarseCells
    <3>2. start' <= it'
      BY <3>1
    <3>3. \A n \in Nat : n - n = 0
      OBVIOUS
    <3>4. it' - start' = 0
      BY <3>1, <3>3, Zenon
    <3>5. \A c \in query' : ~(start' <= c /\ c < it')
      BY <3>1
    <3>6. QED
      BY <2>1, <3>2, <3>4, <3>5
  <2>3. QED
    BY <2>1, <2>2 DEF RuledOut
<1>6. CurrentCellMatches' /\ OneRoundSuffices' /\ SearchSucceeds'
  BY DEF Call, Begins, CurrentCellMatches, OneRoundSuffices, SearchSucceeds
<1>7. QED
  BY <1>3, <1>4, <1>5, <1>6

\* A turn that finds the points ends the search where the iterator stands; one
\* that does not rules its cell out.
LEMMA TurnStep == ASSUME SearchInv, Turn PROVE SearchInv'
<1> USE DEF SearchInv
<1> USE NAssumption, ViewAssumption
<1>1. /\ it \in CoarseCells /\ steps \in Nat /\ steps < ViewSize /\ start \in CoarseCells
      /\ query \in SUBSET CoarseCells /\ looked \in 0 .. N + 1
      /\ UNCHANGED <<query, start, before>>
      /\ looked' = (IF looked <= N THEN looked + 1 ELSE looked)
      /\ pointer' = it
  BY DEF Turn, Covers, MakesCurrent, Advance, InLoop, TypeOK
<1>2. null' \in BOOLEAN /\ (null' <=> it \notin query)
  BY Zenon DEF Turn, Covers, MakesCurrent
<1>3. /\ from' = IF it \in query THEN it ELSE from
      /\ searches' = searches \cup {it}
      /\ null /\ pc = "loop"
  BY Zenon DEF Turn, Covers, MakesCurrent
<1>4. \/ /\ it < N /\ it' = it + 1 /\ pc' = "loop" /\ steps' = steps
      \/ /\ it = N /\ steps' = steps + 1 /\ steps' < ViewSize /\ it' = 1 /\ pc' = "loop"
      \/ /\ it = N /\ steps' = steps + 1 /\ steps' = ViewSize /\ it' = End /\ pc' = "thrown"
  BY <1>1 DEF Turn, Covers, MakesCurrent, Advance, CoarseCells, End
<1> HIDE DEF Turn
<1>5. TypeOK'
  BY <1>1, <1>2, <1>3, <1>4 DEF TypeOK, CoarseCells, NoCell, Unset, End
<1>6. InLoop' /\ Found' /\ Ready' /\ CurrentCellMatches'
  BY <1>1, <1>2, <1>3, <1>4
  DEF InLoop, Found, Ready, CurrentCellMatches, CoarseCells, Unset, End
<1>7. /\ steps = 0 => /\ start <= it
                      /\ looked = it - start
                      /\ \A c \in query : ~(start <= c /\ c < it)
      /\ steps = 1 => /\ \A c \in query : ~(start <= c \/ c < it)
                      /\ query # {} => looked = (N - start) + it
      /\ steps >= 2 => query = {}
  BY <1>3 DEF RuledOut
<1>8. RuledOut'
  <2>1. SUFFICES ASSUME pc' = "loop", it \notin query
                 PROVE  /\ steps' = 0 => /\ start <= it'
                                         /\ looked' = it' - start
                                         /\ \A c \in query : ~(start <= c /\ c < it')
                        /\ steps' = 1 => /\ \A c \in query : ~(start <= c \/ c < it')
                                         /\ query # {} => looked' = (N - start) + it'
                        /\ steps' >= 2 => query = {}
    BY <1>1, <1>2 DEF RuledOut
  <2>2. /\ it \in 1 .. N /\ start \in 1 .. N
        /\ \A c \in query : c \in 1 .. N /\ c # it
    BY <1>1, <2>1 DEF CoarseCells
  <2>3. CASE steps = 0
    BY <1>1, <1>4, <1>7, <2>1, <2>2, <2>3
  <2>4. CASE steps = 1
    <3>1. \A c \in query : c < start /\ it < c /\ looked = (N - start) + it
      BY <1>1, <1>7, <2>2, <2>4
    <3>2. CASE it < N
      <4>1. steps' = 1 /\ it' = it + 1
        BY <1>4, <2>2, <2>4, <3>2
      <4>2. \A c \in query : looked' = looked + 1
        BY <1>1, <2>2, <3>1
      <4>3. QED
        BY <2>2, <3>1, <4>1, <4>2
    <3>3. CASE it = N
      <4>1. steps' = 2 /\ query = {}
        BY <1>4, <2>2, <2>4, <3>1, <3>3
      <4>2. QED
        BY <4>1
    <3>4. QED
      BY <2>2, <3>2, <3>3
  <2>5. CASE steps >= 2
    BY <1>1, <1>4, <1>7, <2>1, <2>5
  <2>6. QED
    BY <1>1, <2>3, <2>4, <2>5
<1>9. OneRoundSuffices'
  <2>1. SUFFICES ASSUME NEW c \in query PROVE looked + 1 <= N
    BY <1>1 DEF OneRoundSuffices
  <2>2. CASE steps = 0
    BY <1>1, <1>7, <2>2 DEF CoarseCells
  <2>3. CASE steps = 1
    BY <1>1, <1>7, <2>3 DEF CoarseCells
  <2>4. QED
    BY <1>1, <1>7, <2>2, <2>3
<1>10. ViewSize >= 2 => SearchSucceeds'
  BY <1>1, <1>3, <1>4, <1>7 DEF SearchSucceeds, CoarseCells
<1>11. QED
  BY <1>5, <1>6, <1>8, <1>9, <1>10

\* Returning changes nothing but the control; neither does stuttering.
LEMMA ReturnStep == ASSUME SearchInv, Return \/ UNCHANGED vars PROVE SearchInv'
<1> USE DEF SearchInv, InLoop, RuledOut, Found, Ready, CurrentCellMatches,
            OneRoundSuffices, SearchSucceeds, TypeOK
<1>1. CASE Return
  <2>1. pc = "loop" /\ pc' = "ready"
    BY <1>1 DEF Return
  <2>2. UNCHANGED <<query, it, steps, null, from, pointer, searches, start, before, looked>>
    BY <1>1 DEF Return
  <2>3. ~null
    BY <1>1, Zenon DEF Return
  <2>4. QED
    BY <2>1, <2>2, <2>3, NAssumption DEF CoarseCells, End
<1>2. CASE UNCHANGED vars
  BY <1>2 DEF vars
<1>3. QED
  BY <1>1, <1>2

(* Whatever sequence of calls the object serves, its iterator and what the *)
(* current call has ruled out stay related.                                *)
THEOREM SearchCorrect == Spec => []SearchInv
<1>1. SearchInv /\ [Next]_vars => SearchInv'
  BY CallStep, TurnStep, ReturnStep DEF Next
<1>2. QED
  BY InitSearch, <1>1, PTL DEF Spec

(* assert(it != end) holds, in every call after every other.               *)
THEOREM IteratorStaysValid == Spec => []IteratorValid
<1>1. SearchInv => IteratorValid
  BY DEF SearchInv, InLoop, IteratorValid
<1>2. QED
  BY <1>1, SearchCorrect, PTL

(* After a call the current cell is the one its points were found in.      *)
THEOREM CurrentCellIsRight == Spec => []CurrentCellMatches
<1>1. SearchInv => CurrentCellMatches
  BY DEF SearchInv
<1>2. QED
  BY <1>1, SearchCorrect, PTL

(* A search that can succeed looks at no cell twice.                       *)
THEOREM SearchTakesOneRound == Spec => []OneRoundSuffices
<1>1. SearchInv => OneRoundSuffices
  BY DEF SearchInv
<1>2. QED
  BY <1>1, SearchCorrect, PTL

(* On a grid of at least two cells only points outside every interior cell *)
(* make a search throw; on a grid of one cell every search throws.         *)
THEOREM SearchNeverFails ==
  ASSUME ViewSize >= 2
  PROVE  Spec => []SearchSucceeds
<1>1. SearchInv => SearchSucceeds
  BY DEF SearchInv
<1>2. QED
  BY <1>1, SearchCorrect, PTL

---------------------------------------------------------------------------
(* Every call is one atomic search of CellSearch, taking effect in the     *)
(* turn that finds the points.                                             *)

\* The first call starts at the first cell.
LEMMA CellSearchInit == Init => Abstract!Init
BY DEF Init, Abstract!Init, Pending, Unset, NoCell, Abstract!NoCell

\* Each step is a step of the atomic search or invisible in it.
LEMMA CellSearchStep ==
  ASSUME SearchInv, [Next]_vars
  PROVE  [Abstract!Next]_(Abstract!vars)
<1> USE NAssumption, ViewAssumption
<1> USE DEF SearchInv, Pending, Abstract!vars
<1>1. ASSUME NEW q \in Queries, Call(q) PROVE UNCHANGED Abstract!vars
  <2>1. /\ pc = "ready" /\ ~null /\ pc' = "loop" /\ before' = pointer
        /\ start' = IF it = Unset THEN 1 ELSE it
    BY <1>1 DEF Call, Begins, Ready
  <2>2. null'
    BY <1>1, Zenon DEF Call
  <2>3. QED
    BY <2>1, <2>2
<1>2. CASE Return \/ UNCHANGED vars
  BY <1>2 DEF Return, vars
<1>3. ASSUME Turn, ~(it \in query) PROVE UNCHANGED Abstract!vars
  <2>1. null' /\ pc = "loop" /\ null
    BY <1>3, Zenon DEF Turn, Covers
  <2>2. UNCHANGED <<start, before>>
    BY <1>3 DEF Turn
  <2>3. pc' \in {"loop", "thrown"}
    BY <1>3, Zenon DEF Turn, Advance
  <2>4. QED
    BY <2>1, <2>2, <2>3
<1>4. ASSUME Turn, it \in query PROVE Abstract!Next \/ UNCHANGED Abstract!vars
  <2>1. /\ it \in CoarseCells /\ start \in CoarseCells /\ steps \in Nat
        /\ query \in SUBSET CoarseCells
    BY <1>4 DEF Turn, Covers, MakesCurrent, Advance, InLoop, TypeOK
  <2>2. ~null' /\ pc = "loop" /\ null
    BY <1>4, Zenon DEF Turn, Covers, MakesCurrent
  <2>3. UNCHANGED <<start, before>> /\ pointer' = it
    BY <1>4 DEF Turn, MakesCurrent
  <2>4. CASE pc' = "thrown"
    BY <2>2, <2>3, <2>4
  <2>5. CASE pc' # "thrown"
    <3>1. it' = IF it = N THEN 1 ELSE it + 1
      BY <1>4, <2>1, <2>5 DEF Turn, Covers, MakesCurrent, Advance, CoarseCells, End
    <3>2. it' # Unset
      BY <2>1, <3>1 DEF CoarseCells, Unset
    <3>3. \/ steps = 0 /\ start <= it /\ \A c \in query : ~(start <= c /\ c < it)
          \/ steps = 1 /\ \A c \in query : ~(start <= c \/ c < it)
      BY <1>4, <2>1, <2>2 DEF RuledOut
    <3>4. \A d \in query : Abstract!Distance(start, it) <= Abstract!Distance(start, d)
      BY <1>4, <2>1, <3>3 DEF Abstract!Distance, CoarseCells
    <3>5. PICK c \in CoarseCells : c = it
      BY <2>1
    <3>6. PICK q \in SUBSET CoarseCells : q = query
      BY <2>1
    <3>7. PICK p \in CoarseCells : p = start
      BY <2>1
    <3>8. Abstract!FirstFrom(p, q, c)
      BY <1>4, <3>4, <3>5, <3>6, <3>7 DEF Abstract!FirstFrom
    <3>9. Abstract!Search(q)
      BY <2>2, <2>3, <2>5, <3>1, <3>2, <3>5, <3>7, <3>8
      DEF Abstract!Search, Abstract!Following, CoarseCells, Abstract!CoarseCells
    <3>10. QED
      BY <3>9 DEF Abstract!Next, Abstract!CoarseCells, CoarseCells
  <2>6. QED
    BY <2>4, <2>5
<1>5. QED
  BY <1>1, <1>2, <1>3, <1>4 DEF Next

(* The search with its persistent iterator implements the atomic round     *)
(* search.                                                                 *)
THEOREM SearchImplementsCellSearch == Spec => ImplementsCellSearch
<1>1. SearchInv /\ [Next]_vars => [Abstract!Next]_(Abstract!vars)
  BY CellSearchStep
<1>2. QED
  BY <1>1, CellSearchInit, SearchCorrect, PTL
  DEF Spec, ImplementsCellSearch, Abstract!Spec

---------------------------------------------------------------------------
(* Every run of a rank that builds its grids and searches them is a run of *)
(* the grids and one of the search, so that all of the above holds of it.  *)
THEOREM GridsThenSearch == ComposedSpec => GridsSpec /\ Spec
<1>1. [ComposedNext]_ComposedVars => [GridsNext]_gridsVars
  BY DEF ComposedNext, Laid, Search, ComposedVars
<1>2. [ComposedNext]_ComposedVars => [Next]_vars
  BY DEF ComposedNext, Laid, Search, ComposedVars
<1>3. QED
  BY <1>1, <1>2, PTL DEF ComposedSpec, ComposedInit, GridsSpec, Spec
=============================================================================
