# TLA+ specifications of dune-multiscale

Specifications, model checking configurations and machine-checked proofs for
the multiscale finite element (MsFEM) program in `src/dune/multiscale`.  All
paths below are relative to that directory unless they begin with `src/`.

The program solves an elliptic problem on a coarse grid whose basis functions
are corrected by fine-scale solutions of local problems, one set per coarse
cell.  Several MPI ranks share the coarse grid, and on each rank several
threads share the rank's cells.  The modules are about what can go wrong in that
and a test would hardly reach: which thread reads and writes what and when, what
an exception leaves behind on one rank and on the others, what state persists
from one call to the next, boundary cases of index arithmetic, and whether the
systems that five files assemble together are those of one equation.  Floating
point and the quality of the approximation are not our subject.

## 1. Inventory

| Component | State | Operations | Interacts with |
|---|---|---|---|
| **Store of local solutions** `common/df_io.{hh,cc}` | process-wide singleton: `memory_` (cell index to `MemoryBackend`), `disk_`, `mutex_`; a backend keeps a list of functions | `memory()`/`get`, `append`, `read`, `clear`, `ClearGuard` | used by every solution manager from every thread, cleared by the guard of `apply()` |
| **Local solution manager** `msfem/localproblems/localsolutionmanager.cc` | its own functions, a reference to a backend | constructor, `load`, `save` | made in all three walks of the solver |
| **Local problem solver** `msfem/localproblems/localproblemsolver.cc`, `localoperator.cc`, `msfem/diffusion_evaluation.hh` | none across cells | `solve_for_all_cells` (parallel walk), `solve_all_on_single_cell`; may throw | writes the store |
| **Coarse scale assembly** `msfem/coarse_scale_operator.cc`, `coarse_scale_assembler.cc`, `coarse_rhs_functional.cc` | matrix, right hand side, Dirichlet projection | constructor (parallel walk), `apply_inverse` (collective, may throw) | reads the store |
| **MsFEM solver** `msfem/msfem_solver.cc` | none across calls except the store | `apply`, `identify_fine_scale_part` | calls all of the above |
| **Proxy** `msfem/localsolution_proxy.cc` | one correction per coarse cell; one grid search per thread | `add`, `local_function`, `search` | evaluated by the projection |
| **Local grid search** `msfem/localproblems/localgridsearch.cc` | iterator, current cell, searches per cell; all persist over calls | `operator()` | read by the proxy |
| **Projection** `common/heterogenous.cc` | fine vector | `project` (parallel walk) | proxy, search |
| **Local grids** `msfem/localproblems/localgridlist.cc` | one oversampled grid per interior coarse cell | constructor, `getSubGrid`, `covers` | store, solver, search |
| **Grid creation** `common/grid_creation.cc`, `mygridfactory.hh` | grids | `make_coarse_grid`, `make_fine_grid` | MPI, all solvers |
| **Reference solver** `msfem/fem_solver.cc` | the last solution | `solve`, `apply` | error calculation |
| **Error calculation** `common/error_calc.cc` | which solutions exist | `print` | solvers, projection |
| **Ranks and failure** `common/main_init.cc`, `src/src/msfem.cc`, `src/src/cgfem.cc` | place in `main()` | `main`, `handle_exception`, `mem_usage` | all ranks |
| **Random permeability field** `problems/random_permeability.hh`, `random.cc` | layers, block, which part is current | `init`, `create`, `operator()` | MPI one-sided communication |
| **Reservoirs** `problems/spe10.cc`, `problems/tarbert.cc` | table of permeabilities; Tarbert: members written by `evaluate` | constructor, `readPermeability`, `evaluate` | data files; threads of every assembly |
| **Model problems** `problems/*` | boundary infos | `boundary_settings`, `subBoundaryInfo`, `DirichletData`, `NeumannData` | local problems, assembly |
| **Output and tools** `tools/*`, `src/src/thread_vis.cc`, ... | - | file names, logging, visualisation | - |

What is hard, and what makes each component correct:

* *Store.*  The lookup is not protected and is not repeated under the lock;
  references to backends outlive the lock.  Correct: a lookup is an atomic map
  lookup, no reference dangles, no insertion is lost, the store is empty after
  every call.
* *Solver.*  The store is append-only during a call, `load` reads the first
  functions, `identify_fine_scale_part` scales the stored functions in place,
  a call may be left by an exception in the middle of a parallel walk, and the
  next call uses the same store.  Correct: what is handed out is the
  reconstruction of this call, on every cell, or nothing.
* *The systems.*  Which problem is in which slot, with which sign it is used,
  over which cells is integrated, what is lifted, constrained and shifted back
  is decided in five files.  Correct: the coarse solution with its correctors
  satisfies the weak equation for the corrected shape functions, and agrees with
  the reference solution where it should.
* *Search and proxy.*  The function the proxy evaluates is selected by the
  persistent state of a search.  Correct: it is the correction of the cell
  the points lie in; every search ends, without failing if it can succeed.
* *Projection.*  Threads write shared nodes.  Correct: every node gets a value
  of a cell it belongs to.
* *Local grids.*  Extent and number of elements are computed apart, and cut at
  the border of the domain.  Correct: the elements whose center is in a coarse
  cell are the cells the fine grid has there, and the rank has the coarse cells
  the grid reaches into.
* *Reference solver.*  A solution is the start of the next call.  Correct: every
  call gives the finite element solution all the same.
* *Errors.*  Any solver or output may fail, and what exists is asked three times
  in different conditions.  Correct: what is registered, looked up, returned and
  written agrees, and is about solutions that exist.
* *Ranks.*  MPI matches collective operations by their order alone, a handler
  contains some, and an exception may be one of one rank or of all.  Correct: no
  rank returns success of a run that was not computed, and the run ends.
* *Random field.*  Ranks go through `create()` at their own pace, and only
  fences keep a fast one from overwriting the layer a slow one reads.  Correct:
  every rank evaluates the same realization, the one its number of calls
  determines; rows come from where the transform has put them.
* *Reservoirs.*  Threads evaluate at the same time.  Correct: a point gets the
  entries of its own block.

## 2. Modules

| Module | Models | Checked by | Proofs |
|---|---|---|---|
| `BackendMap` | abstract: an atomic map with a clear | - | - |
| `DiscreteFunctionIO` | `DiscreteFunctionIO::get`, `clear`, the guard and the three walks that use them | `io` | `DiscreteFunctionIO_proofs` |
| `LocalCorrections` | the data of one run: local functions, corrections | - | - |
| `MsfemRun` | abstract: a call answers with this call's reconstruction or not at all | - | - |
| `MsfemSolver` | `Elliptic_MsFEM_Solver::apply` and all it calls on one rank | `solver` | `MsfemSolver_proofs` |
| `CoarseRound` | the round over the coarse cells | - | - |
| `CellSearch` | abstract: one atomic search | - | - |
| `LocalGridSearch` | `LocalGridSearch::operator()` | in `GridsAndSearch`, `search_minimal` | `LocalGrids_proofs` |
| `FineProjection` | `MsFEMProjection::project` with the proxy and a search per thread | in `ErrorReport` | `ErrorReport_proofs` |
| `ErrorCalc` | `ErrorCalculator` | in `ErrorReport` | `ErrorReport_proofs` |
| `ErrorReport` | composition: `print()` and the projection it calls | `errors`, `projection_constant` | `ErrorReport_proofs` |
| `LocalGrids` | `LocalGridList`, `make_coarse_grid`, `make_fine_grid` | in `GridsAndSearch` | `LocalGrids_proofs` |
| `GridsAndSearch` | composition: the local grids of a rank, then the search through them | `grids_and_search` | `LocalGrids_proofs` |
| `IntervalFem` | external: the discretization library on an interval | - | - |
| `MultiscaleSystem` | the local and the coarse systems, and the corrections made of their solutions | in `MethodsCompared` | `MethodsCompared_proofs` |
| `FemSolver` | `Elliptic_FEM_Solver` | in `MethodsCompared` | `MethodsCompared_proofs` |
| `ModelProblems` | the boundary of every model problem | in `MCMethodsCompared` | - |
| `MethodsCompared` | composition: both methods on one problem | `methods_compared`, `boundary_cells`, `coarse_quadrature` | `MethodsCompared_proofs` |
| `RankPrograms` | every `main()` of `msfem` and `cgfem`, `handle_exception`, `mem_usage` on all ranks | `ranks` | `RankPrograms_proofs` |
| `PermeabilityField` | `Permeability::init`, `create`, `redistribute` on all ranks | `permeability_field` | `PermeabilityField_proofs` |
| `PermeabilityBlock` | `Permeability::setRange`, `redistribute`, `operator()` of one rank: the index arithmetic | in `Diffusions` | `Diffusions_proofs` |
| `Reservoir` | the diffusion of SPE10 and Tarbert | in `Diffusions` | `Diffusions_proofs` |
| `Diffusions` | composition: the diffusion `make_f` makes | `diffusions` | `Diffusions_proofs` |

Each `MC` module instantiates the module it is named after.  The modules refine
each other's assumptions: `MsfemSolver` takes a lookup in the store as one step
because `DiscreteFunctionIO` implements `BackendMap`; `FineProjection` takes a
search as one step because `LocalGridSearch` implements `CellSearch`;
`ErrorReport` takes the solver's result as given because `MsfemSolver` implements
`MsfemRun`.

Operators commented "Wrong:" are deliberate misreadings of the operator that
follows them (a dropped guard, a swapped order).  Replacing the right one by
the wrong one must make TLC report the property it is there for; `PROJECT.json`
lists the pairs.

### 2.1 DiscreteFunctionIO

`memory` is `memory_` with 0 for absent keys, `mutex` the set of threads inside
the scope of the `lock_guard`, `ref` what a solution manager's `memory_backend_`
refers to.  `pc` follows `get`: `find` (line 152), `lock` (155-156), `emplace`
(157-159), `use`.  A visit in the second walk has two managers, one after the
other (matrix and right hand side): `NextManager`.  `find` is unprotected, so
it may overlap an `emplace`; that is a data race in C++.  Of the outcomes the
race may have, the model includes those after which the program goes on: a find
may miss a present key (`FindMiss` with a non-empty `mutex`), and an emplace
works on the map as it was when it began (`found`), so that two overlapping
emplaces would lose one insertion.  Crashing is left out.  So the invariants say:
even if the race strikes, the assertion holds, because a cell is visited by one
thread only (every cell is a partition of its own) and the walks follow one
another.

### 2.2 MsfemSolver

`stage` is the position in `apply()`; `todo` the cells of the current walk or
loop; `memory` the functions stored per cell; `system` the local solutions each
assembly of a cell has read; `correction` the corrections under construction;
`solution` what the proxy holds.  A function is reduced to the call whose local
problem it solves and the number of times it was scaled; a correction is the set
of terms added up in it, each with its sign and whether it was cut to the cell.
Exceptions: a local solve (`Throw`), the coarse solve (`CoarseSolveFails`); the
throw of `MemoryBackend::read` is a missing guard (`Loadable`), and
`LoadsSucceed` shows that it is never missed.  Within a visit of the assembly
the matrix and the right hand side are assembled in one step: the functions of
the visited cell do not change in between.  `Enter` begins with no solution
because the caller passes a new pointer (`msfem/algorithm.cc:64`).

### 2.3 LocalGridSearch

One object, any sequence of calls.  A call is given by the set of cells that
contain all its points.  `it` is the persistent iterator, `steps` the rounds
of the call, `pointer` the `current_coarse_entity_`.  `start`, `before` and
`looked` are history variables for the refinement and for `OneRoundSuffices`.
`ViewSize` is `view.size(0)`, which bounds the rounds and counts overlap cells.

`GridsAndSearch` puts the search behind the local grids, as `msfem_algorithm` does:
the search goes round the grids that were built, one per interior cell (`Searched`
ties `N` to their number and `ViewSize` to the cells the rank holds).  The steps of
one part leave the variables of the other alone, so every behaviour of the composition
is one of each (`GridsThenSearch`).

### 2.4 ErrorReport: FineProjection and ErrorCalc

`FineProjection`: a thread visits a fine cell: search, then one write per node.
`target[n]` is the coarse cell whose correction was evaluated last for the dof of
node n and `divisor[n]` what `postprocess` divides by; together they give the
value of the projection of a constant.  The module is about a single rank (fine
cells are all interior).

`ErrorCalc`: what `print()` and the constructors catch are Dune's own exceptions;
others, and those of a solver's constructor or while the grids are made, leave
(`CoarseThrows`, the second part of `GiveMsfem`).  An error is known by the two
functions it is between and by what these hold when the assembler walks.  `solved`
is a history of the solvers that returned; `fem` is whether the pointer to the fine
solution is set.  A failed coarse solve leaves its function zero, and the errors to
it are computed all the same: `ErrorsOfAllSolutions` is about the runs in which it
did not fail.

`ErrorReport` composes them as the code does: while `print()` is at the
projection of the multiscale solution its own steps wait for the walk, and
`ReportEnds` needs the threads of the walk as well as `print()`.

### 2.5 LocalGrids

Lengths are integers, counted in micro cells, and covering is compared after
scaling by the number of elements, so there is no rounding but one: where the
layers end exactly at the border of the domain, `Below` lets the comparison of
the two doubles come out either way (with 5 cells, 11 micro cells and 11 layers
it does come out wrong).  As in `msfem_algorithm`, the coarse grid comes first,
then the local grids, and the fine grid only for the error calculation.
`CoveredIsCell` relates the last two, for the local grids with `SidesWhole`: on each
side the layers fit into the domain, or the cell is the last one there and all of them
reach out.  So it is about any number of layers, but not about a side that is cut off
inside the layers or ends exactly at the border: such a side gets no elements although
some layers fit in (or rounding decides), and the elements of the grid get longer and
straddle the border of the cell.
`make_coarse_grid` rounds the overlap up for that very case, so it is in the
model and in `PatchOnRank`.

### 2.6 MethodsCompared: MultiscaleSystem, FemSolver, IntervalFem, ModelProblems

The domain is an interval, so every vector and matrix can be computed.  In place of
doubles the numbers are those of the field of 101 elements: an identity of
linear algebra holds exactly, and one that does not hold is not hidden by
rounding.  Coefficient and source are constant on a micro cell, the mesh width
is 1, and the load is `2 f` to avoid a division.  The linear solver is a constant:
`Inverted` is what it makes of a matrix, and a system is solved if that is an
inverse and the solution made with it satisfies the equations (`Solves`); otherwise the
solver throws.  The runs give `Inverted` by elimination; the proofs hold for any, and only
those that say when a run succeeds suppose that it solves regular systems.

`MultiscaleSystem` follows a run: one local system per cell and slot
(`LocalProblemOperator`, `BoundaryValueHelper`: two shape functions, the Neumann
and the Dirichlet corrector), the walk that adds every cell's block to the
shared matrix and right hand side in any order, lifting and constraints,
the coarse solve and the shift back, then `identify_fine_scale_part`.  A boundary's
`value` is what counts at an end; `neumann` is what `NeumannData` has there, which the
local problems' Neumann functional adds on all faces (`localoperator.cc:79`), also on
those of the Dirichlet boundary.
`FemSolver` is the reference solver with its state across calls.
`MethodsCompared` runs the second after the first, as `ErrorCalculator`'s
constructor does.  `ModelProblems` says for every problem of `problems/` which
faces are Dirichlet faces, with which data, and what `subBoundaryInfo()` makes of
the border of a local grid; the problem's domain between the two faces of a
direction gives an interval.

The properties are what the method promises.  `DiffusionOperator`: symmetric, zero
on constants, regular.  `GalerkinOrthogonal`: the weak equation for the corrected
shape functions.  `NodalValuesAgree`: on an interval, without oversampling, the
coarse solution has the fine one's values in the coarse nodes.
`ReconstructionExact`: in a cell without source it is, with the correction that
`identify_fine_scale_part` hands out for the cell, the fine solution.  In a boundary
cell it is that plus `BoundaryExcess`, exactly: the coarse dofs contain the
Dirichlet values, so the weighted correctors have their part already when the
Dirichlet corrector is added (`msfem_solver.cc:103`).  `BoundaryCellsExact` says
that nothing is in twice, and fails (section 6).  The properties hold for sources
that are constant on coarse cells (`EvenSource`); for others `QuadraturePointsAgree`
fails (section 6).

### 2.7 RankPrograms

A rank is its place in the sequence of collective operations of `main()`, of
which there are those of the algorithm (the sum over the grid, the barrier, the
coarse solve, those of the error calculation), the maximum of the run time
(`msfem.cc:40` only) and the two of `mem_usage()`.  `Mains` are the runs looked at;
`MsfemMains` and `CgfemMains` are all there are: with and without
`msfem.fem_comparison`, with and without `msfem.skip_error`.  `handle_exception` calls
`mem_usage()` itself before it aborts.  All ranks in an operation end it
together, also if their operations differ (`Complete`; MPI may mix them up) or
do not (`Mismatch`).  `Throw` is an exception on one rank; `SolveFails` one of a
solver, which all ranks get; `Swallow` one of a single rank that is caught, by `print()`
(`error_calc.cc:170`) or by `ErrorCalculator`'s constructor (`:109`).
`SuccessMeansAllComputed` counts: when a rank returns 0, every other has the
algorithm and the run time behind it but for as many operations as the first one has
skipped.  For `msfem` without `msfem.fem_comparison` that is the whole algorithm
(`WholeRunsAreComputed`); `cgfem`, which has no operation for the run time, and
`msfem` with `msfem.fem_comparison`, which catches two solves, may return 0 while one
operation is missing on another rank.

### 2.8 PermeabilityField

Each rank has a program counter in its current call.  A collective operation (the
transforms, the fences) is two steps: `Join` when the rank comes to it, and a
later step that needs `AllJoined`.  The opening fence has `MPI_MODE_NOPRECEDE`
and does not wait; the closing one waits for all ranks and for the gets from and
to this rank.  A get is issued between the fences and carried out at any moment
before the closing one ends, as MPI allows.  The value of a field is the
number of coefficient sets each rank had drawn for it, so that mixing two
realizations, or reading a layer that is not transformed, shows.  `Script` is
what every rank does: `init` for each `ProblemContainer`, `create` for each
`prepare_new_evaluation`.

### 2.9 Diffusions: PermeabilityBlock and Reservoir

`PermeabilityBlock` is the other half of the random field: pure index arithmetic of
one rank.  Values are known by their nodes; `perm` is filled row by row as by the
`MPI_Get`s, from layers whose layout `NodeAt` is that of FFTW (row major, n0 values
of the first coordinate per rank).  `Interpolates` then composes all of it: what
`operator()` reads for any half-integer point is the field at the corners of its
segment.  The model begins behind the assertions of `init` (more than one
segment, equal layers).  A point on the upper border of the block passes the
range test, and its upper neighbour lies beyond the block; it is read with
weight 0, and `Interpolates` is about positive weights.

`Reservoir` has the two tables.  SPE10's `evaluate` works on locals and is one
step.  Tarbert's writes `permIntervalls_` and `permMatrix_`, members all threads
share, so each access to one of their entries is a step: `dim` is the direction a
thread's statement has come to.  A file may be missing, too short, or `Broken` by an
entry that is no number; the last makes Tarbert's reading loop write past its table
(stage `crashed`, where the model stops).  `OwnValue` is about any number of threads
for SPE10 and about one for Tarbert (`threading.max_count` is 1 unless it is
configured); with more threads Tarbert's points do get the values of each
other's blocks, and `DirectionsKept` says what is left: an entry is still one of
the table, and of the right direction.

`Diffusions` chooses among them by `problem.name`, as `make_f` does.

## 3. Runs

| Run | Bounds | Shows |
|---|---|---|
| `io` | 2 threads, 3 cells, 2 calls | all interleavings of the lookups of three walks, exceptions in any visit; the second call meets what the first one left |
| `solver` | 3 threads, 3 cells (2 at the boundary), 4 shape functions, 2 calls | failure anywhere in the first call followed by a good second call; both kinds of cells; fewer and as many cells as threads |
| `search_minimal` | 1 cell | the search throws after success (finding) |
| `errors` | 2 threads, 2x2 fine cells over 2 coarse cells, 9 nodes; all settings and failures | nodes inside a coarse cell, on the border between coarse cells, on the boundary; every combination of solutions |
| `projection_constant` | as `errors` | a value that was set is divided by the number of cells (finding) |
| `grids_and_search` | 2 dimensions of 1 to 3 cells and 1 to 3 micro cells, 0 to 4 layers, every box of interior cells; then 4 interior cells and all sequences of searches for points in one cell, on a face, on the common vertex, outside | no, one and both sides clipped; layers over several cells; dimensions that disagree on the overlap; iterator at every position when a call begins; the failing search |
| `methods_compared` | 3 coarse cells of 2 micro cells, coefficients 1 and 3 on each, 2 sources, 0 and 1 layers, Dirichlet or Neumann data at each end, the boundaries of all model problems; 2 calls of the reference solver | a cell without boundary intersections between two with; patches clipped and not; rows that two cells share; the second call starts from a solution |
| `boundary_cells` | as `methods_compared` | the Dirichlet values are in a boundary cell's correction twice (finding) |
| `coarse_quadrature` | as `methods_compared` | the load of a source that varies within a coarse cell is wrong (finding) |
| `ranks` | 3 ranks, the 6 runs of the two programs: 1 to 7 operations of the algorithm, 2 or 3 behind it | any rank throws anywhere, several do, all do; none, one or two solves skipped alone |
| `permeability_field` | 3 ranks, blocks with own and foreign rows, init create create create init create | ranks two calls apart; both parts; a field after a second init |
| `diffusions` | 2D: 2 to 8 segments, 1 to 16 ranks; 3D: 2 and 4 segments, 1 to 8 ranks; overlap 0, 1, 2; every rank. Reservoir of 2x3x2 blocks, 3 points, 2 threads, no file, a short one, a broken one, a whole one | left-over processors in every dimension, blocks at every border, rows over several layers; points in different blocks and on the upper right |

Two calls are enough because nothing but the store (or, for the reference
solver, one solution) outlives a call.  Two threads are enough for `io` and
`diffusions` since a race is between two threads; three let one stay in a visit
while two others go on.  Three ranks let two that have gone on leave a third.
With fewer than three coarse cells no cell is without boundary intersections.  A
system that has made all its calls stops: hence `CHECK_DEADLOCK FALSE`.

Fairness is weak and only of what the program does by itself: a thread in a visit
goes on (the direct solvers end, one way or the other), a parallel walk
with cells left gives them to some worker (TBB does), the calling thread or rank
proceeds, a collective operation all ranks have come to ends.  No fairness forces
a new call, an exception or a solver's failure.

`RunEnds` has three exceptions, in its definition `Excused`.  They are hangs the code
has: unlike operations that MPI does not let pass; a FEM solve that threw on
one rank only and was caught while the others are inside the solve;
and an exception that comes when the other ranks have fewer than two operations
left for its handler's reductions (`main_init.cc:104`: rank 0 alone writes
`memory.csv` behind the last one).

## 4. Proofs

For all values of the constants TLAPS checks:

* `DiscreteFunctionIO_proofs`: `StoreInv` is inductive.  Its core is ownership: the
  cells of a walk are split into those still to be taken and those visited, a
  visited cell belongs to one thread; a thread between `find` and the end of
  `emplace` in the first walk owns an absent key; and in later walks every key
  is present.  From it: the assertion in `get`, no dangling reference, only
  the first walk inserts, no insertion is lost, and the refinement of `BackendMap`.
* `MsfemSolver_proofs`: `SolverInv` is inductive.  It says for each stage which
  cells are stored, with what and whether scaled, and that a cell is in at most
  one of `todo` and the threads' visits.  From it: `CoarseSystemFresh`, `LoadsSucceed`,
  `StoreHoldsOneSave` and the refinement of `MsfemRun`.
* `ErrorReport_proofs`: the projection's `IInv` is inductive.  A thread that writes
  has the current cell of its own fine cell (`Searched`); a fine cell that was taken
  is either written or has a thread at it (`NoneLost`), and that thread has written
  the nodes before its dof counter (`WrittenSoFar`).  From it: `OwnCorrection` and
  `EveryNodeFromItsCell`, for any grids.  Every behaviour of the composition is one
  of the projection (`CalculatorRunsProjection`), so these hold of `print()` too; a second
  invariant, `CalcInv`, says at each place of `print()` which solutions exist, hence what was
  registered.  From both: `LookupsSucceed`, `ErrorsOfAllSolutions`, and that no error
  of a projected solution is computed before the walk is over.
* `LocalGrids_proofs`, the grids: the steps only lay down what the grids are made from
  (`IInv`); the rest is arithmetic about one local grid in one dimension.  A side is
  whole if the layers fit in or all reach out, and then a local grid has one element per
  micro cell (`OneElementPerMicro`).  Hence the elements that pass `covers()` are the fine
  cells of the coarse cell: `CoveredIsCell`.  With the ceiling of `layers / micro` in
  `make_coarse_grid`, the layers end inside the cells held: `PatchOnRank`, for any number
  of layers.  `GridsThenSearch` carries both parts over to the composition.
* `LocalGrids_proofs`, the search: `SearchInv` relates the iterator, the round count
  and the number of cells looked at to the distance from the start of the call.
  From it: the iterator is valid, the current cell is right, one round
  suffices, a search fails only for points in no cell (given at least two cells
  in the grid: `search_minimal` shows why), and the refinement of `CellSearch`.
* `PermeabilityField_proofs`: `IInv` is inductive.  Per rank it says what its place
  in its program implies (`AtPlace`): which realization is in its layer, in which
  rows it has arrived, which operations it has joined.  What ties the ranks
  together are two facts: a rank that has left a computing call was preceded by
  all ranks at its closing fence (`FencesPassed`), and the owner of a row that is
  wanted stays between its fences (`ReadersHeld`).  From them: the field is whole,
  and no layer is written while it is read.
* `Diffusions_proofs`, the reservoirs: `IInv` is inductive.  `InParts` says that every
  index any thread leaves in Tarbert's members, and so every entry read with it, belongs
  to its direction; `Progress` that a thread alone, or one of SPE10's, has in them what it
  wrote up to its statement.  `BlockOfPoint` adds the arithmetic: the block the code
  computes from a point contains it, and no other block does.  From it:
  `DirectionsKept` and `OwnValue`, for any blocks, points, files and threads.
* `Diffusions_proofs`, the random field, for any powers of two of segments and ranks, any
  overlap, in two dimensions and in three.  Shifts are powers (`PowerOfSum`), so the
  processors per dimension divide the segments and the ranks the layers
  (`PartitionDivides`); the position of a rank on the grid of processors is its number in
  mixed radix (`OneRankPerPlace`).  Hence `BlockSegmentsDistributed`.  `BlockInv` is inductive: the
  number of values fetched is that of whole rows before the current one (`RowOK`),
  and each of these values is where the evaluation looks for it (`Fetched`): the next get
  reads its row from where the transform has put it (`RowFromLayer`) and writes the next
  line.  When the last row is fetched, what a point reads with positive weight are
  the corners of its segment: `BlockInterpolates`.  The same facts show that no get leaves
  the window of the rank it reads from (`GetsStayInWindows`).
* `MethodsCompared_proofs`: `GalerkinInv` is inductive.  During the walk the matrix, the
  vector and the shift are, in the field, the sums over the cells come to (`Assembled`);
  the constructor's rest makes of them unit rows and rows with the lifted
  Dirichlet values taken off (`Constrained`); what `apply_inverse` returns has the Dirichlet
  values and balances the assembled rows of the free dofs (`Balanced`).
  `BalancedIsOrthogonal` turns such a row, a sum of integrals of two cells, into the weak
  equation of the method: the integrals are linear in the correctors (`EnergyLinear`),
  and a source that is constant on a coarse cell has the same load with the
  micro cells' shape functions as with the coarse ones, because the differences of squared
  distances telescope (`SameLoad`).  Hence `GalerkinOrthogonal`, for any prime, grid,
  coefficient, source, boundary, any layers and any linear solver.  All of this rests on
  the laws of sums over the grid: `PartialSums` is a recursive function, and
  `TotalIs` characterizes what it computes, without a further induction.
* `MethodsCompared_proofs`, the reference solver: `FemInv` is inductive.  A call walks with
  the sums over the micro cells come to (`FemAssembled`), on top of a shift that has the
  previous solution in the interior; the constrained rows have that shift taken off
  (`FemConstrained`).  The rows applied to a function are the fall of its flux
  (`RowOfFem`), and `FineSolution` falls by the load (`FineFits`, `FluxesBalance`).  So the fine
  solution less the shift solves the constrained system, and a solver that has inverted the
  matrix finds no other (`SolutionUnique`, from the two ways of summing a square array,
  `SumsSwap`).  That it has inverted it also shows that `FineSolution` is not a
  division by zero (`RiseNotZero`).  Hence `EveryCallSolves`.
* `MethodsCompared_proofs`, the cells: `CellsInv` is inductive, given `GalerkinInv`
  (`CellsFit`).  A local solver that returns has inverted its matrix, so a corrected shape
  function has one flux in its local grid and the correctors of the two add up to
  nothing (`Fits`, `SolvedFits`).  Hence the operator is symmetric and zero on constants
  (`OperatorOfDiffusion`).  A coarse solver that returns has inverted its matrix too.  With a
  free border it could not, since the correctors cancel the shape functions
  (`RegularIsClosed`); with Dirichlet values at both ends it could not either if the
  resistances of all micro cells added up to zero (`HarmonicNotZero`), so `FineSolution` is
  not a division by zero.  Without layers the values of the fine solution in the coarse
  nodes balance the assembled rows, and a regular system has one solution:
  `CoarseIsFine`, whence `NodalValuesAgree`.  Inside of a cell without source both functions
  have one flux and the same values at the ends, so they are the same
  (`SameFlux`).  What a boundary cell's correction gets on top, Dirichlet minus Neumann
  corrector, solves the local problem of the shape functions weighted with the
  Dirichlet values, and that has one solution (`DirectionIs`).  Hence the correction of a
  cell up to exactly this part: `ReconstructionExact`.
* `MethodsCompared_proofs`, when a run succeeds: the remaining half of `DiffusionOperator` says
  that a run fails only with a free border (`FailsOnlyOpen`).  That needs two
  hypotheses, which the theorem states.  `SolverSolves`: the linear solver solves every
  system whose matrix makes nothing but zero zero (the assumption of section 5).
  `Definite`: in the field some sums of resistances are not zero; over the reals they are
  positive because the coefficients are.  P = 101 is large enough for the problems of
  the run `methods_compared`: TLC, given `Definite` as an invariant there, finds it true
  of every one.  The argument is used twice.  In a row of cells whose resistances do not
  add up to zero, only zero vanishes in the fixed ends and has a flux that does not fall (`ChainKernel`): so the local problems have
  solutions, and, as the coarse matrix is that of a row of cells whose conductances are
  the entries of the cells (`CellStiffness`, `CoarseFall`), the coarse problem has one.
* `RankPrograms_proofs`: `IInv` is inductive.  Its core is a count (`Counted`): the
  operations behind a rank in its program and in its handler are all those that
  were completed, and one more for each solve it skipped.  Behind the algorithm there
  are the run time, if any, and the two of `mem_usage()`; a failed rank takes part in two
  that are not in its program, and each skipped solve makes up for one.  So a rank that
  is through has left no other behind by more than it has skipped:
  `SuccessMeansAllComputed`, for any sequences of operations.  A rank skips no more solves
  than its algorithm catches; where these are no more than the run time has operations
  the algorithm is whole on every rank (`WholeRunsAreComputed`).  `MsfemIsWhole` shows
  that `msfem` without `msfem.fem_comparison` is such a run.

The assumptions on the constants are those named in the modules: a calling thread
among the threads, cells to work on, an owner for each row, an `init` before any
`create`, finitely many ranks, fine cells and threads of the reservoirs.  Otherwise
the sets of threads, cells, ranks and rows may be any.

Liveness (`RunEndsClean`, `CallEnds`, `ReportEnds`, `RunEnds`, `ScriptEnds`) is only
model checked: it needs ENABLED and fairness, which the prover does not handle.
Every safety property of the passing runs is stated by a theorem, with the hypotheses
and assumptions given above.
What a recursive *function* of the natural numbers computes can be proved: the least
number for which it would be wrong does not exist (`LeastNumber`), and
the function does (`RecursionOnNat`).

## 5. Assumptions about code that is not in the repository

* The grid walker (dune-gdt / TBB) visits every cell of its view once, joins its
  visits before it returns, and forgets its functors after a walk; so the second
  `assemble` in `CoarseScaleOperator`'s constructor does not assemble the cells
  again.  When a visit throws, no further cell is handed out, the visits under
  way end, and the exception continues in the caller.
* `add_to_entry` of a matrix or vector is atomic.
* A linear solver reports a singular system by an exception, on all ranks of the
  communicator alike, and solves a regular one.
* FFTW's transforms are collective and leave layers of equal size in row-major
  order.  MPI's fences complete the gets of their epoch and no more.
* All collective operations of a run are on one communicator.  An exception inside
  `handle_exception` is not modelled.
* A YaspGrid with an overlap of n cells holds all cells up to n away from the
  rank's interior ones.
* A local grid covers its coarse cell, so its own search finds every point of it.
* A data file of the reservoirs is not longer than the table.  Quadrature never
  evaluates Tarbert on the domain's upper right.

What an interval cannot show is left open: a coarse cell with more than two shape
functions on a face, Neumann functionals of faces (on an interval the data are at the
ends only), and the gradients of `coarse_rhs_functional.cc:77`, which like the values
are taken at a position of the micro cell and in more than one dimension do depend
on it.

## 6. Where the code disagrees with its docs, comments and tests

Shown by a run, and listed as findings:

* `search_minimal`: with a single coarse cell a search that has succeeded throws
  (`localgridsearch.cc:46`), in a set-up a test lists.
* `projection_constant`: `heterogenous.cc:74` divides dofs that were set, not
  summed; the test of the projection expects the constant.
* `boundary_cells`: `msfem_solver.cc:116` writes that "Dirichlet correctors are broken and
  disabled"; line 103 adds them, on top of correctors weighted with dofs that have the
  Dirichlet values already, and a boundary cell's solution is not the fine one.
* `coarse_quadrature`: `coarse_rhs_functional.cc:76` evaluates the coarse shape
  functions at a local position of the micro cell, and its comment takes the
  quadrature points for the same.

Met while modelling; the modules follow the code:

* `localsolution_proxy.cc:20` asserts that the coarse leaf index set has as many
  indices as there are corrections.  Under any overlap it has more.
* The correctors of the boundary (`msfem_solver.cc:102-105`) are added after the cut to
  the coarse cell, so they reach into the overlay (`LocalCorrections`); `apply()` counts
  them in the coarse right hand side, too.
* `cgfem`, and `msfem` with `msfem.fem_comparison`, may return 0 while another rank has
  not finished its algorithm, if a caught solve failed on one rank alone
  (`SuccessMeansAllComputed` says by how much).  No line of the repository says what they
  should return.
* Tarbert's reading loop tests for the end of the file only (`tarbert.cc:179`): at an entry
  that is no number it does not end.
* `error_calc.cc:172` drops the fine FEM solution when the coarse solve has
  failed.
* `spe10.cc:35` and `tarbert.cc:25` give the local problems a `subBoundaryInfo`
  with the settings of the domain.  A local grid then has Dirichlet values only on
  faces with the normal of a Dirichlet face; on the others the border is free,
  and the correctors cancel the shape functions.  In the model (last part of
  `DiffusionOperator`) the coarse system of every such boundary is singular, for every
  grid and coefficient (`OperatorOfDiffusion`), and
  the run ends with "Coarse solve failed."; nothing in the repository says what
  the authors expect.
* `random_permeability.hh:246` ignores the result of `partition()`, which is false
  for a number of ranks that is no power of two; the assertion on the layers
  excludes it in builds that have assertions.

## 7. Not modelled

* Floating point, quadrature orders, the linear solvers' iterations, and the
  formulas of the smooth model problems (`synthetic.cc`, `er2007.cc`): no state, and no
  statement about them that a finite instance could refute.  The parts of
  `problems/` that are left out are these, and `thirteen.cc`, which no problem name
  selects (`selector.cc:38-78`).
* The disk backend of the store: its operations throw `NotImplemented`.
* The flow through a surface that `error_calc.cc` logs.
* Output, visualisation, logging, and the demonstration programs `thread_vis`,
  `fail` and `minimal`: no state that anything else reads.
* Distribution of a grid over the ranks, which is the grid library's; the check of it
  in `make_fine_grid` is commented out in the code.
* Two-dimensional reservoirs, and domains of more than one dimension in
  `MultiscaleSystem`.

What could follow: the composition of `LocalGrids` and `PermeabilityBlock` (whether
the local problems evaluate the field inside the block of their rank, given that one
overlap is derived from the layers and the other one is `grids.overlap`), and a
refinement from `MultiscaleSystem`'s walk to `MsfemSolver`'s `AssembleCell`.
