# TLA+ models of the JDFTx lattice utilities (pythonJDFTx)

This directory holds TLA+ models of the lattice core of the code under `src/`
(`src/jdftx/core/LatticeUtils.cpp`) and of its storage classes
(`src/jdftx/core/ManagedMemory.cpp`, `src/jdftx/electronic/matrix.cpp`,
`src/jdftx/electronic/ColumnBundle.cpp`), including the parallel file I/O. Each model
is checked with TLC. Every definition is translated from the C++ source, and
`PROJECT.json` maps each definition to the lines it models.

## 1. Inventory

### Components

| Component | Source | State it keeps | Operations |
|---|---|---|---|
| LatticeReducer | `LatticeUtils.cpp` 26-58 `reduceLatticeVectors` | working lattice `Rreduced`, transmission `t`, its inverse `tInv`, loop indices `k1,i,j`, flag `changed` | one greedy sweep after another of 27 shears; apply the first improving shear; stop after a sweep without change |
| SymmetryFinder | `LatticeUtils.cpp` 60-94 `getSymmetries` | reduced lattice and `t,tInv` (from the reducer), output vector `sym` | reduce; search the 3^9 matrices with entries in {-1,0,1} that keep the reduced metric; map each back as `t*m*tInv`; drop those that mix truncated and periodic directions |
| SupercellBuilder | `LatticeUtils.cpp` 96-233 `Supercell::Supercell` | `kmesh`, `kmeshTransform` (index-aligned), `kBasis`, `super`, `Rsuper` | mesh closure under symmetry and inversion, wrap into the centred zone, dedup; choose three short independent differences; reduce them; Bravais checks (die); integer supercell (die); pivot columns; fix the sign |
| CellMapBuilder | `LatticeUtils.cpp` 236-302 `getCellMap` | `iCellMap`, `iCellSurface` list | enumerate a bounding box; classify interior / boundary / outside; group boundary cells equivalent under supercell translations with weight 1/n; assert the weight sum; head process dumps the file |
| ManagedMemory | `core/ManagedMemory.cpp` 86-340 | `category`, `nElements`, `c`, `onGpu` | `memInit`, `memFree`, `memMove`, `data`/`dataGpu` (may move the buffer), `toCpu`, `toGpu`, MPI send/recv/bcast/allReduce, file read/write, BLAS wrappers |
| MemUsageReport | `core/ManagedMemory.cpp` 26-83 | per-category and total `current`/`peak`, `usageLock` | Add / Remove under the mutex, Print |
| matrix / diagMatrix | `electronic/matrix.cpp` | `nr`, `nc` over ManagedMemory | init, reshape, copy/move, element and strided sub-matrix get/set |
| ColumnBundle | `electronic/ColumnBundle.cpp` | `ncols`, `col_length`, `basis`, `qnum` over ManagedMemory | init, free, copy/move, getSub/setSub, products; `write`/`read` of the wavefunction file by every MPI process (nBytes sync by bcast, offsets, conversions) |
| Wavefunction start-up | `electronic/ElecVars.cpp` 231-270 | `Y`, `nBandsInited` | read `Y` with the conversion, then randomize the bands that were not read |
| Custom fillings | `electronic/ElecVars.cpp` 133-161 | `band_index` per process, `F[q]` | check each entry of an own k-point and push its band; set `F[q][band_index[j]]`; recount the electrons |
| Wannier gradient layout | `wannier/WannierMinimizer.cpp` 35-145, 193-207 | per k-point `B`, `B1`, `B2`, the gradient | calc_V1, compute's two stages and gradient blocks, precondition/constrain, dot, randomize, step; `Kpoint::operator<`, `operator==` |
| Physics | `ElecVars`, `ExCorr`, `operators`, `IonInfo`, `ElectronScattering`, `BandMinimizer`, `DumpChargedDefects`, `SaLSA`, `Fex_ScalarEOS`, `IdealGasPsiAlpha.h` | fields and wavefunctions | floating-point functionals and minimisers (out of scope, spec section 1) |

### How they interact

`getSymmetries` calls `reduceLatticeVectors`. The Supercell constructor calls
`reduceLatticeVectors` twice: on the k-point basis, and on `R * ~kBasisInv`. It
also consumes the `sym` vector that `getSymmetries` produced. `getCellMap`
consumes a unit cell and a supercell, typically `Rsuper`. All of these are
synchronous, single-threaded functions. The only shared mutable state in the
core is what ManagedMemory gives every matrix and ColumnBundle: the buffer
and its location (CPU or GPU), and the global usage counters, which several
threads update under a mutex.

`write` and `read` of a `std::vector<ColumnBundle>` run on every MPI process
at once: each process owns a contiguous range of k-points, the processes
exchange their byte counts with one `bcast` per rank, and each seeks to the
sum of the counts of the ranks below it. A file may be read by a later run
with another process count, band count or cutoff; `ElecVars::setup` then
randomizes the bands the read did not fill. It also applies the
command's custom fillings, each process to the k-points it owns.

### What is hard

- Floating-point tolerance standing in for exact arithmetic: every comparison
  in `LatticeUtils.cpp` uses `symmThreshold`.
- Greedy choices whose order matters: the first improving shear, the first
  strict minimum among the mesh differences, and the first best pivot.
- Completeness claims nobody checks: that the {-1,0,1} search finds every
  symmetry, that the Bravais checks accept exactly the lattices, and that the
  weights add up.
- Ownership in ManagedMemory: early returns in `memFree`/`memInit`, swap-based
  moves, and const accessors that relocate data (which the threaded operators avoid
  racing on by launching one thread in a GPU build).

### Properties that make each component correct

- Reducer: `Rreduced = R*t` and `t*tInv = I` at every step. It terminates, and
  the result admits no improving shear (spec 8, the reduction fixpoint).
- SymmetryFinder: the result contains the identity and every element keeps the
  ORIGINAL metric. It is complete: the whole point group compatible with the
  truncation, whatever basis the lattice is given in.
- Supercell: each transform record reproduces its k-point, and the mesh is
  closed under the symmetries. It dies exactly when the closed mesh is not a
  shifted lattice. Otherwise every mesh point is integral in the dual of
  `super`, `det(super) = |kmesh| > 0`, and a product grid gives a diagonal
  `super`.
- CellMap: every equivalence class of boundary cells has weight 1/size, and
  the weights sum to the cell count.
- ManagedMemory: no leak or double free across any sequence of
  init/free/move/relocate calls. A moved-from object is empty. The usage counters never underflow and `peak >= current`.
- matrix: sub-matrix access stays inside the matrix, and assigning an empty
  matrix leaves an empty one.

## 2. Plan

Modules, in order of importance (what is built so far is marked):

1. `IntMatrix3`: exact integer 3x3 algebra standing in for `matrix3`. **built**
2. `LatticeReduce` + `ReduceAbstract` + `MCLatticeReduce`: the reduction loop,
   and its refinement of the one-step abstract reduction. **built**
3. `SymmetryFinder` (EXTENDS LatticeReduce) + `MCSymmetryFinder`: soundness and
   completeness against crystallographic point groups. **built**
4. `SupercellBuilder`, which composes the reducer (via INSTANCE) with the
   output of the symmetry finder. K-points are integer vectors over a common
   denominator N, so rounding and the centred-zone wrap are exact. Phases:
   closure (one action per loop iteration), basis pick, Bravais check, super
   matrix, pivot, sign. Reference definitions for "closed mesh is a shifted
   lattice" and "integral in the dual basis". MC: cubic/tetragonal symmetry
   groups and fcc, N = 4, irreducible lists of 1-3 points, invertList
   {1} or {1,-1}. **built**
5. `CellMap`, which models the bounding box, the boundary grouping loop (list
   erase while iterating) and the weight-sum assertion. The Wigner-Seitz
   predicate is modelled from its definition (faces from the supercell
   translations S*m, m in {-1,0,1}^3), exactly, for integer lattices. **built**
6. `ManagedMemory` (+ `MemUsageReport`): two objects, three blocks, any
   order of init/free/data/dataGpu/memcpy/destroy calls. Invariants cover
   leaks and shared blocks, and counter wrap. **built** (single-threaded;
   the threads sharing one bundle are in `ColumnBundleThreads`)
7. `MatrixStorage`, which EXTENDS ManagedMemory. It covers every
   constructor, copy/move assignment, reshape and the element and
   sub-matrix bounds, with violation runs for the `||` asserts and for
   assigning an empty matrix. **built**
8. `ColumnBundleStorage`, which EXTENDS ManagedMemory: init/free, copies,
   moves, similar, getSub/setSub with the unspecified order of their two
   dataPref() calls. **built**
9. `BlockProducts`: the index layout of tiledBlockMatrix*matrix, Y1^Y2 and
   Y*M in spinor mode, against reference layouts. **built**
10. `ColumnBundleIO`: write then read of the wavefunction file by 1-2 MPI
   processes, with the bcast sync, every conversion branch and the band
   initialisation that follows; termination under per-process fairness.
   **built**
11. `CustomFillings`: the two loops over the custom fillings, per MPI
   process, with a violation run for the index mismatch. **built**
12. `ColumnBundleThreads`: the worker threads of diagouterI and
   Idag_DiagV_I sharing one bundle, with toGpu() in steps. **built**
13. `BlockProducts` "wannier" jobs: the sub-matrix layout of one Wannier
   k-point (parameters, gradient blocks, constrain, the metric of dot).
   **built**; the k-point ordering is not.

## 3. Modules built

### IntMatrix3
Matrices are tuples of rows, `m[r][c]`, and code index k is index k+1 here.
`Congruent(g, t) = ~t*g*t` is the metric of `R*t` when g is the metric of R.
`SmallMatrices` is the candidate domain of `getSymmetries`.

### LatticeReduce (`reduceLatticeVectors`)
- The code looks at R only through `nrm2(R*d)` = sqrt(trace(~d ~R R d)), so a
  lattice is represented by its metric tensor `~R*R`, which is an integer
  matrix here. For integer metrics with trace below about 2.5e7, the test
  `nrm2(Rproposed) < nrm2(Rreduced) - symmThreshold` (symmThreshold = 1e-4)
  holds exactly when the trace drops by at least 1. `Improves` models it that way.
- The variables are `R` (input), `Rreduced`, `t`, `tInv`, `changed`, `pos`
  (the iteration 0..26 of the k1/i/j loops, with 27 meaning after the sweep),
  and `pc`.
- The actions are `ApplyShear` (lines 44-50), `SkipShear`, `NextSweep`
  (`changed` was set: another sweep of `while(true)`), and `Converged`
  (`if(!changed) break`, then return).
- `ReduceAbstract` is what a reduction promises. In one step the result is
  `R*trans`, with `trans*transInv = I`, and no column plus up to one each of
  the other columns is shorter. Its liveness is `<>(result # NoResult)`.
  `LatticeReduce` maps `result/trans/transInv` to `Rreduced/t/tInv` once
  `pc = "done"`.

### SymmetryFinder (`getSymmetries`)
EXTENDS LatticeReduce, adding `isTruncated` and `sym`. `ReduceStep` is the
reducer's step; `FindSymmetries` is the candidate loop, modelled as one action
because no iteration depends on an earlier one. With integer metrics, the
relative test at line 78 is exact equality. `sym` is a set; the order of the
returned vector is not modelled yet (the supercell will need it).

### SupercellBuilder (`Supercell::Supercell`)
- A k-point is the integer vector of its numerators over a common
  denominator `N`. The wrap `offset = -floor(0.5+k)` is `CenterOffset`, the
  fuzzy `PeriodicLookup::find` is exact equality of wrapped points, and every
  `round(..., &err) > symmThreshold` test is a divisibility test.
- Variables: `in` (the arguments: metric `GR = ~R*R`, `kmeshReduced`, `sym`,
  `invertList`), `phase`, `iter` (the iteration of the three closure loops),
  `kmesh`, `kmeshTransform`, `kBasis`, `super`, and the reducer's variables,
  which the two `reduceLatticeVectors` calls share.
- Actions, in the order the constructor runs them:
  - `ClosureStep` is one iteration of `for(invert) for(iReduced) for(iSym)`.
  - `PickBasis` builds `kmesh333` in the iZone loop order, picks v0, v1 and
    v2 as the first strict minima, and calls the reducer on the basis metric
    through `Reducer!Start`.
  - `ReduceStep` is a step of whichever reduction is running.
  - `CheckBravais` applies `kBasis*t`, then runs the integrality and count
    checks. It either dies or starts the second reduction. That reduction
    works on `Adj(B) GR ~Adj(B)`, which is the metric of `R*~kBasisInv` up
    to a positive factor.
  - `SuperMatrix` computes `superTemp = N ~Adj(B) t / det B`. It dies unless
    the result is integral.
  - `Canonicalize` applies the first best permutation (scores compared as
    exact fractions), then negates the matrix if its determinant is
    negative.
- `Rsuper = R*super` and the logging are left out.

### CellMap (`getCellMap`)
- Lattices are integer: the unit cell `R` and the supercell matrix `S` come
  from a small input set (`MCCellMap`), and the Wigner-Seitz cell of the
  supercell is built exactly from its faces (`Faces`, `FaceTable`), its
  vertices (Cramer's rule) and its circumradius. These, and `OnBoundary` and
  `Interior`, are the external `WignerSeitz` class modelled from its
  definition.
- Variables: `in`, `pos` (the bounding-box iteration), `iCellSurface` (the
  list of boundary cells), `iCellMap` (cell to k, the weight being 1/k),
  `iter`, `iter2`, `equiv` (the cells erased into the current class) and
  `phase`.
- Actions: `Classify` (one bounding-box cell: interior cells get weight 1,
  boundary cells are deferred), `EndBox`, `StartOuter`, `EraseEquivalent` and
  `SkipInequivalent` (the inner loop, which erases while iterating),
  `AssignWeights` (the class gets 1/(1+n)), and `CheckWeights` (the
  weight-sum assertion, or death).

### ManagedMemory (`ManagedMemory.cpp`)
- Variables: `alive` (the object exists), `mm` (per object: `category`,
  `nElements`, `onGpu`, `c`), `heap` (per block: free, cpu or gpu),
  `usageMap` and `usageTotal` (current and peak) and `failed` (the process
  died: `oom`, `gpu`, `category` or `memcpy`).
- Each member function is a pure operator from a record of all of these to
  the next record (`MemFree`, `MemInit`, `MemMove`, `Relocate` for
  `toCpu`/`toGpu`, `Data`, `DataGpu`, `Memcpy`). `Commit` makes one call one
  step, so a call that invokes others (memInit calls memFree, memcpy calls
  dataGpu twice) is one action, as the code runs it on one thread.
- `Malloc` takes the first free block. `fftw_malloc(0)` returns a block of
  its own; `cudaMalloc` of 0 bytes returns null. A failed allocation is a
  death, as is `onGpu` in a build without a GPU.
- ManagedMemory is checked through the classes that derive from it: memInit,
  memFree, memMove and memcpy are called by the matrix and ColumnBundle
  operations, and `CallData`/`CallDataGpu` (the public `data()` and
  `dataGpu()`) are the `DataAccess` action of the ColumnBundle run.

### MatrixStorage (`matrix.cpp`)
- EXTENDS ManagedMemory and adds `nr`, `nc`, `movedFrom` and `outOfBounds`
  (some strided or element access touched an index outside a matrix's
  storage).
- A moved-from matrix gets `nr = nc = Indeterminate`. The move constructor
  swaps them with the new object's uninitialised fields. The client may then
  only assign to it or destroy it (`Usable`).
- Actions: `ConstructMatrix` (`init`, which calls memInit only when
  `nr*nc > 0`), `ConstructDiag`, `Construct3`, `CopyConstruct`,
  `CopyAssign`, `MoveConstruct`, `MoveAssign`, `Reshape`, `GetElement`,
  `SetElement`, `SubGet`, `SubSet` and `DestroyMatrix`.
- Sub-matrix access checks the asserts exactly as written (`RangeAsserts`:
  `&&` on i, `||` on j). `CallersValid` adds the j-range the asserts were
  meant to enforce. The strided loop's indices are checked against both
  storages by `StridedOk`, using C truncating division (`CDiv`, `CeilDiv`)
  and column-major `Index`.

### ColumnBundleStorage (`ColumnBundle.cpp` 31-118)
- EXTENDS ManagedMemory and adds `ncols`, `colLength`, `movedFrom` and
  `outOfBounds` (some eblas_copy of getSub or setSub touched an element
  outside a bundle's storage).
- `CBInit` is `ColumnBundle::init`: memFree when there are no columns,
  otherwise memInit of `ncols*col_length` elements of category
  "ColumnBundle". `CBCopyInto` is init followed by memcpy when `nData()`.
- Actions: `ConstructCB`, `Free`, `CopyConstruct`, `CopyAssign`,
  `MoveConstruct`, `MoveAssign`, `Similar`, `GetSub`, `SetSub` and
  `DestroyCB`. As in matrix, the move constructor swaps the fields with the
  new object's uninitialised ones, so the moved-from bundle's shape is
  `Indeterminate`.
- getSub and setSub pass `ret.dataPref()` and `dataPref()` as two arguments
  of one `eblas_copy`, an order C++ leaves unspecified. `BothDataPref`
  takes either order (`first`); in a GPU build each call may relocate.
  `SetSubCount` is the clamp `min(Y.nCols(), nCols()-colStart)`.

### ColumnBundleThreads (`operators.cpp` 284-326, 547-605)
- EXTENDS ColumnBundleStorage with `call` (the running operator: diagouterI
  on X, or Idag_DiagV_I on C with the new `VC = C.similar()`) and `thr`,
  one record per worker thread: its pc, column range, current column, which
  of the column's bundles it is at, and the blocks it holds.
- `NThreads` is the code's `isGpuEnabled() ? 1 : nProcsAvailable`.
  `ColStart` is diagouterI_sub's `iThread*nCols/nThreads`. threadLaunch
  and isGpuMine are in core/ and not in the repository. `Launch` takes
  thread 0 as the GPU's owner, and each other thread may or may not own it.
- Per column, a worker calls `dataPref()` on X (getColumn) and, for
  Idag_DiagV_I, twice on VC (setColumn's eblas_zero and accumColumn).
  toGpu() is split into its steps: `Check` (return if onGpu or !c, then
  myassert(isGpuMine()) and cudaMalloc), `CopyIn` (cudaMemcpy from c),
  `FreeOld` (fftw_free(c)) and `SetPtr` (c = cGpu, onGpu = true). `Use` is
  the eblas call on the returned pointer. A step on a block that is no
  longer where the thread expects it sets `failed = "race"`.
- The launching thread waits in threadLaunch, so the storage operations
  run only between calls (`call = NoCall`). `Join` returns when every
  worker is done.
- The workers cannot race: a GPU build launches one thread
  (`NThreads`), and a CPU build's `data()` never moves storage. The
  failure branches of `Check`, `Touch` and `Use` are the code's myassert
  and the use-after-free a second worker would meet; no state reaches
  them. What the module adds is the relocations the operators make,
  which `OwnershipBetweenCalls` checks.

### BlockProducts (`matrix.cpp` 766-780, `ColumnBundle.cpp` 312-390)
- The index layout of three products that rearrange results with strided
  sub-matrix get and set: `tiledBlockMatrix::operator*`, `Y1^Y2` when
  exactly one bundle is a spinor, and `Y*M` in spinorMode.
- A matrix is `[nr, nc, e]` with `e` column-major. Elements are tags naming
  what was computed there (`<<"P", r, c>>` an entry of the zgemm result,
  `<<"M", r, c>>` of the input matrix, `<<"T", i, offs, j>>` a block
  product); `Unset` marks storage the constructor left uninitialised. The
  floating-point arithmetic itself is not modelled: only where each value
  goes.
- `MatGet`/`MatSet`/`SetFrom` translate `matrix::operator()(...)` and
  `matrix::set(...)`, asserts as written, strided copies exactly. A failed
  assert sets `pc = "died"`.
- Each call is one job from the constant `Jobs`; `pc` steps through the
  statements (`TiledStart`, `TiledBlock` per loop iteration, `TiledEnd`;
  `DotGemm` then the two sets of the spinor branch; `TimesStart` then the two
  `Mtmp.set` calls).
- "wannier" jobs (`WannierMinimizer.cpp` 35-145) follow one k-point of
  nCenters `nc`, nIn `ni`, nFixed `nfx`, nFrozen `nfr` through
  `WannierStart` (B and the zeroes() matrices), calc_V1 (`V1Block`,
  `V1Dagger`, `V1Keep` when nIn > nCenters), `Stage2`, the gradient blocks
  `Grad1`/`Grad2`, `Constrain` (precondition), `Dot` (the range
  `DotRange` of the hermitian completion, recorded as the positions `W`
  it counts twice) and `Randomize`. B's entries are tags `<<"B", r, c>>`
  (conjugate `"B*"`); cis_grad's outputs are `"G"` tags; "zero" is what
  zeroes() wrote. `DaggerSym` keeps dagger_symmetrize's support: an entry
  is zero only where both it and its transpose are.

### ColumnBundleIO (`ColumnBundle.cpp` 181-295, `ElecVars.cpp` 231-270)
- One behaviour is a writing run followed by a reading run (`StartRead`),
  each with its own `nProc` and k-point `split` (rank r owns
  `split[r]..split[r+1]-1`). `job` fixes the writer's band count and column
  lengths, the reader's, and the reader's conversion (`None`, or realSpace,
  nBandsOld and whether EcutOld differs).
- Per process: `Count` (the local nBytes), `Bcast` (one round of the sync
  loop; a receiver waits until the root has entered its round, the root
  returns at once), `Open` (offset, fsize, fopen, fseek; the read dies when
  the file's length is not fsize), `WriteQ`/`ReadQ` (one fwrite/fread and
  conversion per k-point), `Close`, and for the reader `ReadRealSpace` (the
  real-space branch, no collectives) and `InitBands` (randomize above
  nBandsInited).
- Data are tags: the file is a set of `<<position, <<"F", q, b, i>>>>`;
  a column of `Y` is `<<"F", q, b>>` if read intact, `<<"U", q, b>>` as
  init() left it, `Garbage` or `Random`. `Converted` keeps the code's three
  conversion branches (G-space column conversion, setSub, getSub).
- `Describes` says the conversion matches the file; the read properties are
  stated for such conversions, since a wrong one of the same total size is
  not detectable by the code.

## 4. Runs

| Run | What it checks | Result |
|---|---|---|
| `lattice_reduce` (MCLatticeReduce.cfg) | `TypeOK`; `BasisChangeConsistent`: at every step `Rreduced = R*t` and `t*tInv = I`; `ImplementsReduceAbstract`: the loop terminates at a locally minimal basis (refinement) | pass, 1220 states, depth 141 |
| `supercell` (MCSupercell.cfg) | `STypeOK` (transform records stay index-aligned with the mesh); `MeshIsClosure`: after the loops the mesh holds exactly one centred representative of every image; `AcceptsExactlyShiftedLattices`: it dies iff the closed mesh is not a shifted lattice (reference: closed under a-b+c); `SupercellCommensurate`: `det(super) = |kmesh|` and every point is integral in the dual basis of `super` | pass, 31728 states, about 25 s |
| `symmetries` (MCSymmetryFinder.cfg) | `SymmetriesAreSymmetriesOfR`: the identity is returned and every element keeps the original metric; `SymmetriesComplete`: exactly the point group of the lattice restricted to the truncation | pass, 3708 states, about 75 s |
| `cell_map` (MCCellMap.cfg) | `CMTypeOK`; `CoversWignerSeitz`: from the end of the box loop on, every unit cell on or inside the Wigner-Seitz cell is in `iCellMap`, in the boundary list or in the current class; `WeightsPartitionUnity`: the weight-sum assertion never fires, and at the end each class has weight 1/size and there are det(S) classes | pass, 2245 states, about 7 s |
| `matrix_lifecycle` (MCMatrixStorage.cfg) | `MatTypeOK`, `OwnershipExact`, `UsageMatchesLive`; `ShapeMatchesStorage`: every usable matrix has storage of exactly `nr*nc` elements (none when empty) | pass, 10286 states, about 5 s |
| `matrix_access` (MCMatrixAccess.cfg) | `OwnershipExact`; `AccessInBounds`: element and strided sub-matrix get/set, with column ranges the asserts intend, never touch an index outside a storage (GPU build, so dataPref relocates) | pass, 6592 states, about 25 s |
| `matrix_copy_empty` (MCMatrixCopyEmpty.cfg) | `MemcpySizesAgree`: copy assignment never trips memcpy's size assertion | violation (see Findings) |
| `matrix_subrange` (MCMatrixSubRange.cfg) | `AccessInBounds` with column ranges that pass the asserts as written | violation (see Findings) |
| `cb_storage` (MCColumnBundle.cfg, GPU build) | `CBTypeOK`, `OwnershipBetweenCalls` (`OwnershipExact` whenever no operator call is running), `UsageMatchesLive`; `CBShapeMatchesStorage`: every usable bundle holds exactly `ncols*col_length` elements of category ColumnBundle (none when it has no columns); `CopySizesAgree`: copies never trip memcpy's size assertion; `SubInBounds`: getSub and setSub, with either order of their two dataPref() calls, copy only inside both storages. The run also calls the inherited `data()`/`dataGpu()`, so it checks ManagedMemory's relocation on its own, and the threaded operators of `ColumnBundleThreads`, whose relocations `OwnershipBetweenCalls` checks after each call | pass, 89722 states, about 10 s |
| `block_products` (MCBlockProducts.cfg) | `BPTypeOK` (the block loop never passes nBlocks); `TiledProductCorrect`: the tiled product equals the block-diagonal product and no zgemm writes past the result; `SpinorLayoutCorrect`: Y1^Y2 and spinorMode Y*M put every element at its documented place in a result of the documented shape; `WannierMetricConsistent`: after compute, precondition and dot of a Wannier k-point, the gradient is non-zero exactly at the entries of B that B1 and B2 hold, and dot weighs each entry as many times as B1 and B2 hold it (twice for stage 1's block and its dagger, once for stage 2's); `ProductsNeverAssert`: no sub-matrix assert fires | pass, 265 states |
| `cb_io` (MCColumnBundleIO.cfg) | `IOTypeOK`; `WriteLayout`: no process ever writes an element outside its place in k-point order, and the closed file holds every k-point's bundle; `ReadRoundTrip`: with a conversion that describes the file the read never dies, and each process leaves read() with the first min(nBands, nBandsOld) columns read intact and the rest untouched; `BandsComplete`: after ElecVars' randomize no band is uninitialised or garbage; `Termination`: every run of write and read ends on every process | pass, 251720 states, about 55 s |
| `custom_fillings` (MCCustomFillings.cfg) | `FillingsApplied` with 1-2 processes, 2 k-points, 2 bands and three two-entry lists | violation (see Findings) |

Inputs (`MCLatticeReduce`): four short-basis metrics H (simple cubic, fcc,
bcc, hexagonal), each presented in four bases B (identity, the spec's
10-fold shear, and two mixed unimodular skews). The input metric is `~B*H*B`.
These 16 inputs take 1 to 11 sweeps, apply shears on every column and with
both signs, and include the spec's scenario 2.

`MCSymmetryFinder` adds three truncation masks: bulk, slab (direction 3
truncated) and wire (directions 1 and 2). The reference point group is found by
the same search applied to H itself; an ASSUME pins its order to 48 (m-3m) or
24 (6/mmm). It is carried to the input basis as `B^-1 g B`. A Python sweep,
run while building the model, over 20000 random skew bases of ten lattice
types found no input on which the greedy reduction misses a symmetry. The
TLC run checks the same claim exhaustively on the bounded input set.

`MCSupercell` uses N = 4 and 372 inputs. Each input combines three things:
- One of six lattice/symmetry pairs:
  - orthorhombic, tetragonal, cubic and fcc metrics, each with the full
    `getSymmetries` vector for that metric, in loop order. The vectors are
    written out, and ASSUMEs check them against the loop.
  - orthorhombic and cubic metrics with the identity only.
- One of 31 irreducible lists:
  - a single point with coordinates in {0, 1/4, 1/2};
  - two-point lists in both orders;
  - the non-lattice triple {0, (1/2,0,0), (0,1/2,0)}.
- An `invertList` of {1} or {1,-1}.

Together these cover:
- meshes of 1 to 64 points;
- deaths in the Bravais check (152 of the 372 inputs);
- bases of negative determinant;
- non-diagonal supercells such as fcc.

`MCCellMap` has seven unit cell/supercell pairs: diagonal supercells of
the cubic cell (2x1x1 and 2x2x2), fcc, bcc and a rotated square supercell,
a tetragonal unit cell, and a sheared supercell. These give boundary
classes of two, four and eight images (faces, edges, corners). An ASSUME
checks that the faces from {-1,0,1}^3 translations give the same vertices
as those from {-2..2}^3.
### CustomFillings (`ElecVars.cpp` 133-153)
- Per process, `Check` is one pass of the first loop (skip an entry of
  another process, `die` on a band outside `F[q]`, else `push_back`), and
  `Apply` one pass of the second (`F[q][band_index[j]] = filling`). `j`
  counts entries of the whole list in both loops, as in the code.
- `HOMO[q]` is any band: `findHOMO` lives in ElecInfo, outside the
  repository. A negative band wraps to a huge `size_t`, which `BandOk`
  rejects as the code's `band >= F[qnum].size()` does.
- `ReadBandIndex` is the undefined read: past the end of `band_index` it
  may return any band or `OutOfRange`, a write past `F[q]` (`corrupt`).
- `FillingsApplied`: once a process is through both loops, each band of
  its k-points holds the filling the last entry for it asks for, or its
  old one, and nothing was written outside `F`. The electron recount
  (lines 155-161) is left out, since no property reads `nElectrons`.

The storage runs use two objects and three blocks: two objects can share,
swap and copy storage, and the third block lets a relocation allocate while
both objects hold one. Dimensions go up to 2 (`MaxDim`), so there are empty,
1-element, row, column and 2x2 matrices, and strides 1 and 2. In the failing
configurations, column ranges reach one before and one past the matrix.
Callers never ask memInit for an empty block: matrix and ColumnBundle never
do (see Not modelled). `matrix_lifecycle` is a CPU build;
the matrix access and ColumnBundle runs are GPU builds, where
`dataPref` may relocate. The storage runs use object symmetry. It is sound there: objects are created only by
`Fresh`, and no choice depends on their identity. Block symmetry would be
unsound, because `Malloc` takes the first free block.

The ColumnBundle runs use the same two objects and three blocks, up to 2
columns (`MaxCols`) of length 1 or 2, and one category. `MCBlockProducts`
enumerates tiled products of 1-3 blocks of 1x1 to 2x2 with 1-2 output
columns, Y1^Y2 with 0-2 columns on each side in the four spinor
combinations, and Y*M with Y of 0-2 columns and M of n or 2n rows and 0-2
columns. This covers every branch of each product, strides of 2 over results
of 2 and 4 rows, and empty bundles in the standard mode. `ValidJobs` keeps the calls whose
callers meet the preconditions the comments state (square tiles, non-empty
bundles in spinor mode, a non-empty Y for Y*M). Wannier jobs have 1-2
centers, nIn from nCenters to 3 (so both the square case, where dot adds
nothing, and a rectangular one with a 2-column completion occur) and every
nFixed, nFrozen below nCenters. What the code does with empty bundles in spinor mode
is recorded as hazards in `PROJECT.json` (`ColumnBundle.cpp:317`, `:377`).

`MCCustomFillings` has 1 or 2 processes, 2 k-points and 2 bands, and
every HOMO. Its lists have one entry per k-point in both orders, so a rank
meets an entry of the other rank before its own, and two entries on one
k-point, one of them below band 0. Two entries are the fewest for the
mismatch; one process is the case where the code is right. The cfg sets
`CHECK_DEADLOCK FALSE` because the loops end, or `die`.

`MCColumnBundle` lets diagouterI and Idag_DiagV_I run on any bundle in
any location, with 2 available threads (`NProcsAvailable`). Two threads
are the fewest for a race, and 2 columns give each thread one column when
two run. In the GPU build the launches start one thread, and in a CPU
build `data()` never relocates, so no two workers ever race on a block:
there is no thread-safety property to check, and the run checks what the
operators' relocations do to ownership.

`MCColumnBundleIO` has 2 k-points and 1 or 2 processes in each run, so a
rank holds none, one or both k-points and the reading split may differ from
the writing one; 1-2 bands and column lengths 1-2 per k-point, so that band
count and basis each may change between runs, and every conversion (13
choices). That is 3328 initial states, each with every interleaving of the
processes.

Each property has a mutant in `PROJECT.json` that TLC must catch:
- the tInv update on the wrong side;
- `<=` in place of the strict-with-margin comparison, which never terminates;
- the conjugation `tInv*m*t`;
- the truncation filter with `||` in place of `!=`;
- the closure loop pushing the point but not its transform;
- the wrap without the half shift, `-floor(k)`;
- the Bravais check without the zone-coverage count;
- the pivot without the sign fix;
- a cell classified past the bounding box; the iterator advanced after
  erase; the weight stored for `*iter` alone;
- memFree that does not reset nElements, or clears the fields before
  reporting the removal; a relocation that keeps the old block; memMove
  that copies instead of swapping;
- `init` calling memInit even for an empty matrix; move assignment that
  moves the storage but not the shape; `ceildiv` one too large;
- dot's hermitian completion starting one column early (`DotRangeEarly`).
- ColumnBundle init that keeps the old storage for an empty bundle; move
  assignment that does not swap col_length; setSub without the clamp;
- the block loop one block short or one block too far; the spin-down
  component copied into the spin-up columns; the Mtmp row range one past
  its end.
- the offset summing `iSrc <= iProcess`; the bcast loop not copying; setSub
  and getSub chosen the wrong way round; nBandsInited ignoring nBandsOld;
  a process without k-points skipping the sync (some process then waits in
  bcast forever).

## Findings

- **Assigning an empty matrix dies in memcpy** (`matrix.cpp:104`).
  `init(0,0)` sets the shape but skips memInit, so the target keeps its old
  storage. memcpy's assertion `a.nData()==b.nData()` then fails (run
  `matrix_copy_empty`: construct a 1x1 and a 0x0 matrix, assign the second
  to the first).
- **The column asserts of sub-matrix get/set accept any range**
  (`matrix.cpp:204-205`, `242-243`). They use `||` where the row asserts use
  `&&`. Run `matrix_subrange` reads outside a 1x0 matrix with a column range
  that passes them.
- **Custom fillings index band_index by the wrong counter**
  (`ElecVars.cpp:153`). The first loop pushes a band only for entries of
  the process's own k-points, but the second reads `band_index[j]` with
  `j` the position in the whole list. Run `custom_fillings`: with two
  processes and the entries (q=1, HOMO), (q=0, HOMO+1), rank 0 holds one
  band and reads `band_index[1]`, past the vector's end. The band it then
  writes is undefined, and `F[0][1]` never gets its filling. With one
  process the property holds.

Behaviour read from the code while modelling, recorded as hazards in
`PROJECT.json` but not checked by a run (the runs keep to inputs that avoid
it):
- tiledBlockMatrix mixes row and column offsets (`matrix.cpp:773`):
  `offs = iBlock*mBlock.nCols()` is the row offset into both `other` and
  `result`, whose blocks start at `iBlock*mBlock.nRows()`. The assert allows
  non-square blocks, and with one the results land in the wrong rows and
  the last zgemm writes past the result. The only caller
  (`WannierMinimizer.cpp:401`) tiles the square `Qk`, so `block_products`
  checks square blocks.
- Spec scenario 3 depends on the order of the k-points
  (`LatticeUtils.cpp:157`): listed as (1/2,0,0), (0,0,0) the supercell is
  `diag(2,-1,-1)`, not the spec's `diag(2,1,1)`. `v[1]` and `v[2]` are the
  first shortest differences in `kmesh333` order, and the determinant-sign
  fix cannot undo two negated columns. Both matrices describe the same
  supercell.
- memInit of 0 elements on the CPU keeps the block `fftw_malloc(0)` returns,
  and memFree's early `if(!nElements) return;` never frees it
  (`ManagedMemory.cpp:100`). matrix and ColumnBundle never ask for 0, so
  this is not listed as a hazard.
- nFrozen or nFixed equal to nCenters: compute's `B(nFrozen,nCenters, ...)`
  of an empty range would assert. Both are set up outside the repository,
  so the Wannier jobs take them below nCenters. getOmega, cis, cis_grad,
  `step` (an axpy of whole matrices) and the bcast of U are floating-point
  or whole-matrix and left out.
- Empty bundles in spinor mode (`ColumnBundle.cpp:317`, `:377`): Y1^Y2
  returns the unexpanded product when the spinor bundle is empty, and
  fails `iStart<nr` when the other one is; Y*M with a 0-column Y and a
  0-row M takes spinorMode and fails the same assert.

## 5. Fairness

Every modelled function runs to completion on one thread, with no waits, so
weak fairness on the next-state relation is exactly what the code's
scheduling gives. The final state of each run is the function's return and
has no successor, so the cfgs set `CHECK_DEADLOCK FALSE`. The storage
models are client-driven state machines: no property is a liveness property,
and the matrix cfgs set `CHECK_DEADLOCK FALSE` because a failed memcpy
assertion ends the process.

`ColumnBundleIO` is the one concurrent model: its processes are separate MPI
ranks, each running its own program, so each gets weak fairness on all its
actions (`Fairness`). The receivers of a bcast are blocked until the root
enters the round, which weak fairness handles since the root's step stays
enabled. No fairness is put on `StartRead`, the user's starting a second
run, so `Termination` is stated per run. The program stops after the
reading run or a failed fopenRead, so that cfg sets `CHECK_DEADLOCK FALSE`.
`CustomFillings` has no liveness property: each of its processes runs two
finite loops on its own.

`ColumnBundleThreads` has no fairness and no liveness property: its
property, `OwnershipBetweenCalls`, is a safety property. Its run checks
deadlock. A call always ends in `Join`, and no failure
state is reachable in the GPU build.

## 6. Not modelled, and why

- Floating-point effects of the tolerances: near-symmetric lattices, the
  absolute `symmThreshold` in the reducer for very small or very large cells,
  and round-off in pivot scores. The models use exact integers or rationals;
  the hazards are listed in `PROJECT.json`.
- Physics modules (ElecVars, ExCorr, ...): numerical, out of scope of the
  spec and of TLC.
- File dumps, logging and MPI calls inside ManagedMemory: pure I/O. The
  eblas wrappers (`zero`, `scale`, `axpy`, ...) only reach the data through
  `dataPref()`, which is modelled.
- Threads sharing a ManagedMemory other than through the two operators of
  `ColumnBundleThreads`: the other threaded loops of `operators.cpp` and
  `ExCorr.cpp` and `Fex_ScalarEOS.cpp` take raw pointers obtained before the launch, so their
  workers never call `dataPref()`.
- Element values, diagMatrix and the matrix arithmetic: numerical data that
  no property distinguishes.
- ColumnBundle randomize and the BLAS arithmetic: data; the products'
  arithmetic is abstracted to tags that record where each value comes from.
  The I/O moves tags too: `changeGrid`, the G-space column conversion and
  the orthonormalisation in ElecVars change values, not which band a column
  holds. MPIUtil (fopen, fseek, bcast) is not in this repository: bcast is
  modelled by its MPI semantics and fopenRead by the length check its hint
  message describes.
- The Wannier k-point ordering (`Kpoint::operator<`, `operator==`): not
  modelled.
