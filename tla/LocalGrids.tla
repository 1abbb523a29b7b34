------------------------------ MODULE LocalGrids ------------------------------
(***************************************************************************)
(* The local grids of a rank (msfem/localproblems/localgridlist.cc) and    *)
(* the grids they belong to (common/grid_creation.cc).                     *)
(*                                                                         *)
(* A local grid covers a coarse cell and some layers of micro cells around *)
(* it.  Lengths are counted in micro cells, so that in dimension i coarse  *)
(* cell k is the interval k * micro[i] .. (k + 1) * micro[i].  Where the   *)
(* layers exactly touch the border of the domain, the comparison of two    *)
(* doubles that should be equal has the outcome the rounding gives it.     *)
(***************************************************************************)
EXTENDS Integers, FiniteSets, FiniteSetsExt

CONSTANTS
  Dims,       \* the dimensions of the domain
  MaxCells,   \* bound: coarse cells per dimension
  MaxMicro,   \* bound: micro cells per coarse cell and dimension
  MaxLayers   \* bound: oversampling layers

ASSUME DimsAssumption == Dims # {}
ASSUME BoundsAssumption == {MaxCells, MaxMicro} \subseteq Nat \ {0} /\ MaxLayers \in Nat

VARIABLES
  cells,   \* grids.macro_cells_per_dim
  micro,   \* grids.micro_cells_per_macrocell_dim
  layers,  \* msfem.oversampling_layers
  first, last,  \* the interior cells of this rank are the box between them
  fine,    \* cells of the fine grid per dimension
  held,    \* coarse cells the rank holds, interior and overlap, per dimension
  grids,   \* subGridList_: the local grid of a cell
  stage

conf == <<cells, micro, layers, first, last>>
gridsVars == <<conf, fine, held, grids, stage>>

GridsInit ==
  /\ cells \in [Dims -> 1 .. MaxCells]
  /\ micro \in [Dims -> 1 .. MaxMicro]
  /\ layers \in 0 .. MaxLayers
  /\ first \in [Dims -> 0 .. MaxCells - 1]
  /\ last \in [Dims -> 0 .. MaxCells - 1]
  /\ \A i \in Dims : first[i] <= last[i] /\ last[i] < cells[i]
  /\ fine = [i \in Dims |-> 0]
  /\ held = [i \in Dims |-> {}]
  /\ grids = << >>
  /\ stage = "coarse"

\* The interior coarse cells of the rank, by their position.
Interior == {c \in [Dims -> 0 .. MaxCells - 1] : \A i \in Dims : c[i] \in first[i] .. last[i]}

---------------------------------------------------------------------------
(* make_coarse_grid                                                        *)

\* Wrong: full coarse cells only.
OverlapDown(i) == layers \div micro[i]

\* ceil(layers / micro) coarse cells of overlap.
CoarseOverlap(i) == (layers + micro[i] - 1) \div micro[i]

UniformOverlap == \A i, j \in Dims : CoarseOverlap(i) = CoarseOverlap(j)

\* The cells of the grid around the interior ones.
MakeCoarseGrid ==
  /\ stage = "coarse"
  /\ UniformOverlap
  /\ held' = [i \in Dims |->
       {k \in 0 .. cells[i] - 1 : first[i] - CoarseOverlap(i) <= k /\ k <= last[i] + CoarseOverlap(i)}]
  /\ stage' = "local"
  /\ UNCHANGED <<conf, fine, grids>>

\* A YaspGrid has the same overlap in all dimensions.
RejectOverlap ==
  /\ stage = "coarse"
  /\ ~UniformOverlap
  /\ stage' = "failed"
  /\ UNCHANGED <<conf, fine, held, grids>>

---------------------------------------------------------------------------
(* The constructor of LocalGridList                                        *)

\* a < b for doubles whose exact values these are; for equal ones, both
\* outcomes, but for the border of the domain, where a cell begins or ends,
\* with no layers to add.
Below(a, b) == IF a = b /\ layers > 0 THEN BOOLEAN ELSE {a < b}

\* Wrong: the layers are added on both sides of every cell.
BothSides(i, left, right) == micro[i] + 2 * layers

\* Micro cells of a side that does not reach out of the domain.
ElementsPerDim(i, left, right) ==
  micro[i] + ((IF left THEN 0 ELSE 1) + (IF right THEN 0 ELSE 1)) * layers

\* One dimension of the local grid of a cell with position k.
Extent(i, k, left, right) ==
  [lower |-> Max({k * micro[i] - layers, 0}),
   upper |-> Min({(k + 1) * micro[i] + layers, cells[i] * micro[i]}),
   elements |-> ElementsPerDim(i, left, right)]

ExtentsOf(i, k) ==
  {Extent(i, k, left, right) :
     left \in Below(k * micro[i] - layers, 0),
     right \in Below(cells[i] * micro[i], (k + 1) * micro[i] + layers)}

\* The grid of one interior cell; the cells are taken in the grid's order.
BuildGrid ==
  LET c == CHOOSE c \in Interior \ DOMAIN grids : TRUE IN
  /\ stage = "local"
  /\ Interior \ DOMAIN grids # {}
  /\ \E g \in [Dims -> UNION {ExtentsOf(i, c[i]) : i \in Dims}] :
       /\ \A i \in Dims : g[i] \in ExtentsOf(i, c[i])
       /\ grids' = [d \in (DOMAIN grids) \cup {c} |-> IF d = c THEN g ELSE grids[d]]
  /\ UNCHANGED <<conf, fine, held, stage>>

AllBuilt ==
  /\ stage = "local"
  /\ Interior \subseteq DOMAIN grids
  /\ stage' = "built"
  /\ UNCHANGED <<conf, fine, held, grids>>

---------------------------------------------------------------------------
(* make_fine_grid, for the error calculation                               *)

\* Every coarse cell becomes micro[i] fine ones in dimension i.
MakeFineGrid ==
  /\ stage = "built"
  /\ fine' = [i \in Dims |-> cells[i] * micro[i]]
  /\ stage' = "done"
  /\ UNCHANGED <<conf, held, grids>>

GridsNext == MakeCoarseGrid \/ RejectOverlap \/ BuildGrid \/ AllBuilt \/ MakeFineGrid

GridsSpec == GridsInit /\ [][GridsNext]_gridsVars

---------------------------------------------------------------------------
(* covers(): the elements of a local grid whose center is in its cell      *)

\* Positions in dimension i are scaled by the elements per dimension.
Length(g) == g.upper - g.lower
Left(g, e) == g.lower * g.elements + e * Length(g)

\* Twice the center of element e, between twice the borders of cell k.
Covered(i, k, g) ==
  {e \in 0 .. g.elements - 1 :
     LET center == Left(g, e) + Left(g, e + 1) IN
       2 * k * micro[i] * g.elements <= center /\ center <= 2 * (k + 1) * micro[i] * g.elements}

---------------------------------------------------------------------------
\* On each side the layers fit into the domain, or all of them reach out of it.
SidesWhole(i, k) ==
  /\ k = 0 \/ layers < k * micro[i]
  /\ k = cells[i] - 1 \/ (k + 1) * micro[i] + layers < cells[i] * micro[i]

\* The elements assembly uses of a local grid are those of the cell, one for
\* each cell the fine grid has there, at the same place: the projection reads
\* the local solutions in the nodes of the fine grid. The others are the
\* overlay (coarse_scale_assembler.cc:148).  This is so unless a side is cut
\* off inside the layers or right behind them: it then gets no elements for
\* those that fit in (localgridlist.cc:66), or rounding decides.
CoveredIsCell ==
  stage = "done" => \A c \in DOMAIN grids : \A i \in Dims : SidesWhole(i, c[i]) =>
    LET g == grids[c][i]
        \* Borders in units of 1 / (elements of the local grid * cells of the fine grid).
        fineCells == {x \in 0 .. fine[i] - 1 : (x * cells[i]) \div fine[i] = c[i]}
        Place(x) == x * cells[i] * micro[i] * g.elements
    IN {<<Left(g, e) * fine[i], Left(g, e + 1) * fine[i]>> : e \in Covered(i, c[i], g)}
         = {<<Place(x), Place(x + 1)>> : x \in fineCells}

\* The rank holds the coarse cells its local grids reach into: the overlap of
\* the coarse grid is wide enough for the layers.
PatchOnRank ==
  \A c \in DOMAIN grids : \A i \in Dims :
    \A x \in grids[c][i].lower .. grids[c][i].upper - 1 : x \div micro[i] \in held[i]
=============================================================================
