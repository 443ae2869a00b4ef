# A TLA+ verification of rslab

rslab (`src/`) is a sparse direct solver: a symbolic analysis, supernodal
LDL^T and LU factorizations, a KLU path for circuit matrices, solves, an
automatic path that chooses among them and refactors in place, Krylov solvers
and Python bindings. What its floating-point arithmetic makes of rounding is
outside what a model checker says anything about. What surrounds the arithmetic
is not: schedulers on atomics, a pipeline of spinning pieces, a thread hand-over
with an erased lifetime, orderings raced against one another, caches filled once
by whoever comes first, panels moved inside one buffer, pivots delayed from front
to front, and an index machinery in which one wrong row goes unnoticed until a
residual is bad. The library promises more than correctness there: "the factor
is bit-identical for every thread count".

This directory holds TLA+ modules translated from that code, TLC configurations
that check them on small instances, and TLAPS proofs that carry the most
important properties to every instance. Paths below are relative to `src/src/`
unless they begin otherwise.

1. [Inventory](#1-inventory)
2. [Modules and the code](#2-modules-and-the-code)
3. [Runs, properties and bounds](#3-runs-properties-and-bounds)
4. [Fairness](#4-fairness)
5. [Proofs](#5-proofs)
6. [Where the code and its documentation differ](#6-where-the-code-and-its-documentation-differ)
7. [What is not modelled](#7-what-is-not-modelled)
8. [Plan](#8-plan)
9. [Running it](#9-running-it)

## 1. Inventory

How the parts interact: a matrix comes in through the **formats** (a file, a
SciPy matrix, triplets). Its pattern goes through the **symbolic analysis**
(orderings raced, elimination tree, column counts, supernodes); the
**left-looking schedule** turns the supernodes into rows, updater lists and a
forest; the **forest scheduler** runs a factorization kernel over that forest,
the kernels writing to the **panel arena**; pivots that fail in an **LU front**
are delayed to the parent; the **LDL^T driver** pivots within its panels. The
**solve** walks the same forest by a plan of its own. **KLU** has an analysis of
its own (block triangular form), a pivoting factorization, and a *refactor* that
replays the stored pivots on new values. The **solver objects** own a factor and
lend works to concurrent solves; the **automatic solver** owns one factor per
path and decides for every value set; **refinement** and **block GMRES** iterate
around a factor. All of them enter rayon pools through the **thread policies**,
which a worker of a foreign pool does through a **hop thread**, and run their
loops in **parallel sections**. The **Python classes** lend these objects to
threads that pass one interpreter lock around.

| Component | State it keeps | Operations | What is hard | What makes it correct | Status |
|---|---|---|---|---|---|
| Forest scheduler (`numeric/supernodal/forest.rs`) | refcounts, pending counts, failed flag, error slot | run a task, free panels, start a parent | interleaved atomics, failures in the middle | panels alive while read, emitted once after the last reader, faithful outcome, it ends | modelled, proved |
| Left-looking schedule (`schedule.rs`) | rows, updater lists, parents, leaves | build, forest | off-by-one in flat lists, stale "last hit" | rows are the factor's, every update once, in order; leaves line up | modelled, proved |
| Panel arena (`panel.rs`) | slots, overflow, the buffer | claim, assemble, write, close, reuse | panels moved in place over others | zeros under an assembly, panels whole and back to back | partly, proved |
| LU driver (`numeric/lu/`) | front structures, delayed pivots | build, factor a front, delay, fall back | columns and rows moved across supernodes | every update lands in its front; one pivot per row and column | modelled, proved |
| LDLT driver (`numeric/ldlt/`) | panels, pivot kinds, deferred updates | factor panels, replay, look ahead | 2x2 pivots at a boundary, two panels under way | P A P' is L D L' exactly | partly |
| Supernodal solve (`solve.rs`) | per-node counts, accumulator slots | plan, forward, diagonal, backward | interleaving, rows shared through slots | nothing written while read; same terms in the same order | modelled, in part proved |
| Solver objects (`direct.rs`, `*/solver.rs`) | factor, plan, lent works | factor, refactor, solve, clone | a failed refactor, a pool of works | no solve with a stale factor | modelled, proved |
| KLU refactor (`numeric/klu/refactor.rs`) | values, epoch marks across calls, error slot | serially, by levels, pipelined, blocks side by side | spinning pieces, an epoch that wraps, failures, interrupts | what one thread would return; disjoint ownership | modelled, proved |
| KLU analysis and factorization (`klu/`) | blocks, pivots, fill | factor, solve, transposed solve, pattern check | a reach through pruned columns, repaired diagonals | L U is the matrix; the fill is the predicted one | partly |
| Block triangular form (`ordering/btf.rs`) | matching, stacks | match, decompose | augmenting paths with cheap look-ahead | maximum matching; strong components in order | modelled, proved |
| Automatic solver (`numeric/auto.rs`) | two once-cells; three factor slots a solver | factor, refactor, fork, clone | who analyzes first, failed refactors, forks of forks | solves use the last value set's factor; forks replay their origin | partly, proved |
| Iterative refinement (`refine.rs`) | iterate, best | correct, measure, stop | NaN, stalls, the budget | what is certified is achieved | modelled, proved |
| Krylov solvers (`krylov/block.rs`) | columns, cycles, room for bases | solve, continue, close, admit | memory runs short, columns wait, calls are cut | residuals are the solutions'; nobody is left out | partly, proved |
| Entering a pool (`settings.rs`, `Hop`) | a slot, its mutex and condition variable | call, serve, drop | erased lifetime, spurious wake-ups, panics, thread end | closure used only while its call is blocked, no lost signal | modelled, proved |
| Scoped pools (`settings.rs`) | kept pools per thread | enter, build, evict | nesting, reuse | the width and stack asked for; nothing recent rebuilt | partly, proved |
| Parallel sections (`parallel.rs`) | pieces, slots | each, map, init, owned, any, scope | pieces in any order, taken items | what the loop gives | partly, proved |
| Ordering race (`symbolic/race.rs`) | slots, started flags, the champion | order candidates, speculate dissection, pick | speculation, ties, failures, any finishing order | the result of one thread; no seed twice | modelled, proved |
| Logging (`logging.rs`, `python/src/logging.rs`) | one sink, one level | emit, install | locks of two runtimes | the sink outlives its records | modelled, proved |
| Tree, postorders, counts (`ordering/`, `symbolic/column_counts.rs`) | arrays | build, postorder, relabel, count | two renumberings, signed counts | the structure of the factor | modelled |
| Supernodes, grouped vertices, analysis (`symbolic/`) | groups under merging | detect, merge, collect, compress, expand | merges that move each other, structure carried not recomputed | consecutive columns, exact heights, one forest | partly, proved |
| Minimum degree and fill (`crates/rslab-ordering-core`) | quotient graph, marks, buckets | eliminate, absorb, merge, defer | signed fields, marks that reset | the elimination the graph stands for | partly |
| Nested dissection, RCM (`crates/rslab-metis`, `-rcm`) | pieces, coarse graphs, cuts | coarsen, cut, refine, separate | projections, rebalancing | separators separate; an order | partly |
| Scaling (`scaling/`) | matching, duals, heap | match, equilibrate | shortest paths over changing duals | optimal matching, entries at most one | partly |
| Formats, matrix files (`sparse/`, `io/mtx.rs`) | compressed columns | read, write, assemble, scatter, transpose | duplicates, symmetry, order of sums | a matrix is what its file says; forms agree | modelled / partly |
| Python classes (`python/src`) | handles, borrows | all methods | the interpreter lock passes | an answer is of one value set | partly, proved |
| Supernodal input, dense kernels, tuning, diagnostics, memory, ordering crates' entry points | | | numerical, or pure I/O | | see section 7 |

The hazards that follow from this list, each at its line, are in
`PROJECT.json` under `hazards`, with the properties that would catch them.

## 2. Modules and the code

Every module states at its head what it translates; `PROJECT.json` maps every
definition to lines. Columns, supernodes and blocks count from 1 in the models
(from 0 in the code), `NONE` stands for `None` or `usize::MAX`. A definition
whose comment begins with "(slip)" restates another one with a bug one could
plausibly make (a dropped guard, an off-by-one); nothing uses it but the mutants
of section 3.

### The numeric factorization

**ForestSchedule** is `ll_forest`. One *task* per supernode moves through
`waiting / spawned / factoring / freeing / last / done`; each atomic operation
of the code is an action of its own: reading `failed` (`Start`), the kernel's
end (`FactorOk`, `FactorErr`), the error slot under its lock (`Report`),
`fetch_sub` on an updater's refcount (`CountDown`), emission (`EmitFree`), the
own refcount's check (`CheckSelf`), `fetch_sub` on the parent's pending count
and the spawn (`HandOn`), the end of the scope (`Join`). The serial loop of the
code is the same actions under `SerialTurn`. **ForestFactorization** is what any
scheduler of the forest promises; `ForestSchedule!ImplementsPromise` is the
refinement. **AssemblyForest** holds `IsSchedule`, the contract between the
schedule and the scheduler.

**LlSchedule** is `LlSchedule::build` and `forest`: the rows bottom-up, the hits
of the rows on column runs one row at a time (with the `last` and `each_hit`
logic of the code), the parents and leaves by the explicit stack. Its input is
an analysis that satisfies `IsAnalysis`, its output satisfies `IsSchedule`.

**LuFronts** is the LU driver's structure: `LuStructure::build`, what a front
makes of it when its children delay pivots (the extra rows and columns it reads
off the updaters), the overflow and the run without delays. Which pivot is stable
is any choice. **PanelArena** is the one buffer the panels are written into: slots
fixed or claimed lazily, the room and its overflow, the panels moved down into
the factor in place, the buffer of an earlier factor reused. **LdltFactor** is
the LDL^T driver: panels with 1x1 and 2x2 pivots and floors, the replay on the
deep rows, the deferred update in tiles and the lookahead; its arithmetic is
exact, over **PrimeField**, so that "the factor is the matrix" can be said.

### KLU

**BlockTriangle** is `btf.rs`: Hopcroft-Karp with its seeds and phases, or MC21
with its budget, then Tarjan's pass visit by visit. A breadth-first pass stops
within a level, so what it leaves of the next one is open, and a search may follow
a path one step longer than the shortest. **KluFactor** is the
factorization of every block (pruned reach, pivoting with the repaired
diagonal, failed and interrupted blocks), the solves, transposed solves, the
predicted fill and the pattern check of a refactor, over PrimeField.
**KluReplay** is `KluSolver::refactor` over blocks one after the other: epochs
(`Ready::next`, with its wrap and its clearing), the three modes, and the
pipelined replay statement by statement: pieces take runs of columns from the
shared counter, poll the interrupt, spin until a column is published, publish.
What persists between refactors persists in the model, which runs any number of
them. **KluBlocks** is the other branch, blocks dealt into runs that replay side
by side, with the error of the lowest block. **SparseFormats** has the Matrix
Market reader and writer line by line, triplets into compressed columns, the
layout and its scatters, transposition, the symmetric patterns, the products,
and the conversions of the Python package. Its values are the lists of the
numbers summed into an entry, in order.

### Threads

**Hop** is the hand-over of a closure to a hop thread: the mutex, the condition
variable with spurious wake-ups, `slot` as the enum of the code, panics, the
drop at the worker's end. **HopPromise** is the abstract call it implements.
**ScopedPools** is `in_scoped_pool` and `scoped_pool`: which pool work enters,
which is built, which makes room. **Sections** is `parallel.rs`: loops cut into
pieces and scopes whose tasks start tasks. **OrderingRace** is `race`: every
candidate and every dissection is a task; the eager start, the speculative start
by the first candidate, stage 2 and the champion's choice are steps of their own.

**SolveWalk** is `solve.rs`: the plan (`FromPanels`: the cut of the tree, the
accumulator slots, the pulls) and the sweeps, where a node's kernel is two steps
between which other nodes run. A row is the *sequence of terms* subtracted from
it, so two sweeps give the same bits where their sequences are equal. What a plan
promises the sweeps is its contract `IsPlan`; the property compares a row with the
terms of the sequential sweep in its order (`Writers`, `TermWith`, `Earlier`).
**BlockGmres** is the block solver: columns that step, close for memory, wait, are
admitted again, deflate or fail, over calls that continue one another; **Sums**
is the sum over a finite set its books are kept with. **LogSink** is the log sink
between the Rust and the Python lock.

### Analysis and orderings

**EliminationTree** holds the pure algorithms as operators and folds: Liu's
construction with path compression, postorders, the Gilbert-Ng-Peyton counts,
supernode detection and merging. **SymbolicAnalysis** composes them as the
analysis does, one action per stage and one per supernode looked at during
merging, with the groups of indistinguishable vertices; its reference is the
elimination game. **QuotientGraph** is minimum degree and minimum fill from
workspace to permutation. **Dissection** is nested dissection: coarsening, both
kinds of trial, the cut's refinement, separators, with any draws; and RCM, which
unlike dissection takes repeated rows as they are stored. **Scaling** is
MC64's matching by shortest augmenting paths, the scaling from its duals, and
the equilibrations, over logarithms.

### Solver objects

**AutoSolver** is `auto.rs`: `AutoSymbolic`'s two once-cells and any number of
solvers on threads of their own. A factor is abstracted to the value set it is
of, the analysis it is over and, for KLU, the value set whose pivot order it has.
**DirectSolver** is an LU or LDLT solver object and its lent works. **Refinement**
is `refine_against`. **PythonHandles** is the Python classes: what runs off the
interpreter lock and on which copies, borrows, refactors.

### How they compose

Within a component the modules EXTEND one another (SymbolicAnalysis extends
EliminationTree, PanelArena and BlockGmres use Sums). Between components, a
contract is stated where they meet and each side is held to it: LlSchedule
promises `AssemblyForest!IsSchedule`, ForestSchedule assumes it; MC_Numeric feeds
LlSchedule with what EliminationTree makes of a pattern and TLC evaluates that it
satisfies `IsAnalysis`; LuFronts assumes `IsAnalyzed` of its own analysis, which TLC
evaluates on every matrix of the run; `FromPanels` promises `IsPlan`, the sweeps' proofs assume
it; Hop implements HopPromise. Five MC modules (MC_Klu, MC_Threads, MC_Numeric,
MC_SymbolicAnalysis, MC_Solvers) put components of a kind side by side: a
variable `part` says which component moves in a behaviour, the others keep the
state they start in. So a run's state count is the sum of its components', and
nothing is lost: the components of one run share no variable.

## 3. Runs, properties and bounds

Twelve runs: five compositions that must hold, seven that show a disagreement of
section 6. Every property of a passing run also has a *mutant* in
`PROJECT.json`: a plausible bug in a mapped definition under which TLC finds the
property violated.

**klu** (`Klu.cfg`; 309,011 states).

| Component | Property | What it says | Instances |
|---|---|---|---|
| BlockTriangle | `BlockFormIsSound` | the transversal is maximum; the blocks are the strong components, in an order without entries below | all 512 patterns of three columns, four larger ones with a long augmenting path or nested cycles |
| KluFactor | `FactorSolves`, `FailsAtTheFirstDependentColumn`, `RefactorSolvesOrRejects`, `FillIsPredicted` | A x = b and A^T x = b exactly; a failure names the first dependent column whatever the pieces ran; a refactor solves its matrix, fails or rejects it; the predicted fill is the factor's where pivots stay on the diagonal, the estimate a bound | systems of one to three blocks over GF(3), with permutations, any pivot among the nonzero candidates |
| KluReplay | `PieceViewsAreSound`, `ReplayIsFaithful` | pieces own columns apart and read replayed ones; a refactor returns one thread's values or error | a block of three columns, the third reading two that may fail in either order, in any mode, then one of two; two pieces on two workers, none, one or any two pivots vanishing (`MaxVanished`), interrupts at any time, refactor after refactor with epochs modulo 3, so that the wrap and the old marks it meets happen (the code's modulus is 2^32) |
| KluBlocks | `BlocksAsInOrder` | every block once, a failure after all blocks before it | four blocks of one to three columns in one to four runs on two threads |
| SparseFormats | `MatrixIsTheFile`, `FormsAgree` | a file read is the matrix it says, summed in the file's order, or refused; what is derived from a matrix agrees on every way it is made | files of up to three columns and five lines, well-formed or not, three readers; arrays that need not be matrices |
| KluReplay, KluBlocks | `RefactorsReturn` | no refactor runs for ever: no piece spins on a column nobody publishes | as above |

The pipeline's hazards need a reader and a published column, two pieces and a
failure between them; the error slot needs two columns that fail, the higher one
first; a third piece repeats a second, and the safety part is
proved for any number. GF(3) has pivots that vanish after an update and products
that cancel; over a field whose pivots may be any nonzero number, a chain of
field operations that is right is right over the reals up to rounding.

**threads** (`Threads.cfg`; 266,588 states).

| Component | Property | What it says | Instances |
|---|---|---|---|
| Hop | `HandshakeIsSound`, `ImplementsPromise` | the lent closure is touched only while its call is blocked, no signal is lost; every call runs its job once and returns what it did, a panic included | three calls, each ending well or not, then the worker's end: the first starts the thread, one follows a panic, one a normal end |
| ScopedPools | `EntersWhatWasAsked`, `RebuildsNothingRecent` | width and stack as asked; a need among the last served builds nothing | three needs of two widths, two pools kept, two nested, four built |
| Sections | `SectionIsTheLoop` | what the loop gives; every task of a scope once | up to seven items, one or two threads, a scope of six tasks |
| OrderingRace | `RaceIsSequential` | the outcome of one thread, every seed at most once, none read before it ran, at most one wasted | two candidates, two seeds, every factor size and failure; where the pattern is too small to dissect the other gates are not asked, and a heavy candidate is one worth dissecting |
| SolveWalk | `SweepsAreSound`, in `EndsAsPlanned` the plan's size | no row written while another node uses it, nothing read before it is final, every row the terms of one thread in their order | all structures of four supernodes, as one tree, two, or without a tree, and seven supernodes whose updates skip ancestors; by levels, by tasks, serially |
| BlockGmres | `BooksAreKept` | the residual held of a column is its solution's; a call nothing cut short leaves out no column it could have gone on with; room is made before a step | two and three columns, two calls, three levels of residuals, room for all bases, some, one, precision lowered or not |
| LogSink | `SinkOutlivesItsRecords` | the sink a record is handed to stays until it returns | two Python threads, two levels, two sinks installed in turn |
| all | `EndsAsPlanned` | the calls, the race and the sweeps end | as above |

**numeric** (`Numeric.cfg`; 143,923 states).

| Component | Property | What it says | Instances |
|---|---|---|---|
| ForestSchedule | `PanelsAreHandedOver`, `ForestReturns`, `ImplementsPromise` | panels alive while read, emitted once after the last consumer, faithful outcome; it ends | two trees of seven supernodes: three levels, updaters that skip a level, a node with four updaters (above the threshold of three that stands for `FREE_PAR_MIN_UPDATERS`), a lone one; any may fail |
| LlSchedule | `ScheduleIsSound`, `RowsAndLeaves` | every update once and in order, a forest fit for the scheduler; rows are the factor's, the leaves below a supernode stand together | all patterns of four vertices, amalgamated and not, all trees and cycles of five |
| LuFronts | `FrontsAreClosed` | every update and every passed row and column lands in its front; every row and column gets one pivot; the panels hold the elimination's fill | patterns of four columns, patterns of five with a wide root, any pivots delayed |
| PanelArena | `PanelsAreKept` | assembly onto zeros, panels whole and back to back after the move; the fallback exactly where the fronts need more than the room | three panels, fronts as analyzed and larger, two factorizations into one buffer |
| LdltFactor | `LdltIsTheMatrix` | P A P' = L D L' plus what the floors added, each index numbered once | five columns in one supernode, three supernodes with rows that skip one, over GF(5), panels of two and three, blocks of one and two, lookahead on and off, any pivots |

**analysis** (`SymbolicAnalysis.cfg`; 304,216 states): `TreeIsTheFactors`,
`GroupsAreExact`, `SupernodesAreSound` on all 64 patterns of four vertices in
three orders and all 1,024 of five (an order of a pattern is another pattern's
numbering), directly and through their groups, with both ways the unstable sorts
can leave ties, and 26 amalgamation settings. Five vertices give trees with
several merge candidates at one parent, and merges that change what a later one
finds; larger patterns are not covered.

**solvers** (`Solvers.cfg`; 754,273 states).

| Component | Property | What it says | Instances |
|---|---|---|---|
| AutoSolver | `ServesLastFactored`, `ForksAgree` | a solve uses the value set last factored; one analysis; forks replay their origin | two solvers over a pattern nobody analyzed ahead, three value sets: symmetric and singular, symmetric, unsymmetric; the one that comes first makes the route |
| DirectSolver | `ObjectIsConsistent` | a solve reads one value set's factor whole or is refused; no two solves share a work | four value sets, one that fails, one with rows of its own; three callers |
| Refinement | `CertifiedIsAchieved` | a certified outcome is finite, within the target and the budget | errors of three sizes, two corrections |
| QuotientGraph | `OrderingIsTheElimination` | the quotient graph is the elimination's; degrees bound; marks fit; the order has the fill counted | every graph of four vertices, seven of six to eight, fill, absorption and deferral on and off, a largest mark so small that marks are reset |
| Scaling | `ScalingIsSound` | the duals stay feasible, the matching is largest, entries at most one, equilibration within its bound | all patterns of three columns with two magnitudes, symmetric ones with three, 1,500 drawn of five |
| Dissection | `DissectionIsSound` | coarse cuts are fine cuts, covers smallest, separators separate, a refined cut is the least met in balance, a vertex its heap misses does not fit, the order is dissected; RCM orders every vertex, as often as stored, so once without repeated rows | every graph of four vertices, with and without rows stored twice, graphs of five to eight; limits so low that each binds |
| PythonHandles | `HandlesAreSound` | an answer is of one value set, a borrowed handle whole, a subspace has one user | two threads over a handle of each class at a time |

**klu_permuted, klu_shifted, analysis_relaxed, auto_forks, gmres_continue,
refine_best, log_install** show the disagreements of section 6.

Deadlock is checked in `klu` and `klu_permuted`, where something can always
happen next (a driver that refactors again; the other components of `klu` are
given a step at their end). The other systems end (a factorization, an analysis,
a race, a worker's life) or are driven by a caller who may stop.

## 4. Fairness

Liveness is stated of the compositions (`EndsAsPlanned`, `ForestReturns`,
`RefactorsReturn`), each part under the fairness of its module:

* the forest: weak fairness of the whole next-state relation. No task blocks, so
  as long as one worker lives some step is taken. Nothing is assumed about which.
* KLU: weak fairness of the driver and of each piece, of the dealing and of each
  run of blocks: a spinning piece yields, and rayon starts a queued piece when a
  worker is free. A piece queued behind spinning ones is *not* assumed to start:
  `StartPiece` needs a free worker. Nobody must refactor or interrupt.
* Hop: strong fairness of the two threads: a mutex and a condition variable with
  spurious wake-ups enable and disable a waiter's step again and again. No call,
  no end and no spurious wake-up is assumed.
* the race, the sweeps: weak fairness of the threads together; orderings and
  kernels end. GMRES: weak fairness of what a call does once made; its iteration
  budget is finite.
* LogSink (in `log_install`): strong fairness of each thread's lock steps, so that
  the counterexample is a deadlock and not a thread never scheduled.

The other components have no liveness property: they are sequential code whose
loops are bounded by their inputs.

## 5. Proofs

TLAPS checks the theorems for every value of the constants. In each proof module
the shape is the same: an inductive invariant (checked by TLC as an invariant
before it was proved), one lemma or step per action, then the theorems. The
theorems a reader should know of are listed in `PROJECT.json` under `theorems`.

**ForestSchedule_proofs** (from `ScheduleAssumption`: `IsSchedule` and a natural
threshold): `TypeCorrect`, `PanelsLiveWhenRead`, `EmittedOnce`,
`OutcomeFaithful`, `PanelsHandedOver`, `ForestImplementsPromise`. That a panel
read is alive follows only when refcounts and pending counts are tied to what
they count (`RefcountCounts`, `PendingCounts`, in finite cardinalities), and when
started tasks have everything below them done (`Order`), which for updaters
further down needs the induction along the tree in `UpdatersBelow`. `Errors` ties
the flag, the slot and the failed task.

**Numeric_proofs**, three components.

* The schedule, for every analysis with `IsAnalysis`: `ScheduleSound` (lists
  ascend, are the hits, fit the forest) and `RowsAndLeavesHold`. For the lists the
  invariant follows the three phases: rows contain what the children leave; the
  lists hold exactly the supernodes whose *walked* rows hit; the walk ascends,
  which is what makes comparing with `last` enough to enter every updater once.
  For the rows it is an equality with what the elimination leaves, and the
  analysis' counts are their number. For the leaves it is a *line*: the leaves
  found so far, then the stack from its top, are roots of disjoint subtrees in
  which what lies below any supernode stands together; a visit replaces a
  subtree's root by its children in place. `IsSchedule`, the conclusion, is what
  the forest's theorems assume. That the analysis satisfies `IsAnalysis` is
  model-checked (`SupernodesAreSound`, `TreeIsTheFactors`, and the assumption
  `AnalysesHold`, which TLC evaluates on every analysis of the run).
* The arena, under `ArenaAssumption` (sizes are natural, what is kept of a front
  is no more than the front): `PanelsStay`. The panels are moved down in the order
  they were claimed, so the invariant contains the code's own assertion that a
  panel's place is not above where it lies (`at <= src`), that the panels not yet
  moved are where they were written, and that the claimed slots are apart and
  add up to what the room was charged, by the sums of Sums_proofs.
* The fronts, under `FrontsAssumption` (`IsAnalyzed`: columns in ascending runs,
  updaters before what they land in and with them their parents on the way up, a
  structure that holds the entries and what updates fill; TLC evaluates it on every
  matrix of the run): `FrontsClosed`. The invariant says that a front leaves, parted,
  what it took in; that its rows and columns lie in its own and earlier fronts or
  where its supernode updates; and that each row and column is held by one factored
  front. From it an update lands by the structure or by what the passed pivots
  brought. For the fill, an entry goes up with passed pivots until the front that
  pivots its row or column first, which has the other in its panel; that what
  elimination leaves is an entry or such fill is by the least supernode where it
  were not, over the function `Remaining`.

**Klu_proofs**: `TypeCorrect`, `ConsumesReplayed`, `OneOwner`, `PieceViews`,
`ValidFresh` for any pattern, pieces, workers and epoch modulus. No mark runs
ahead of the epoch; a mark equal to it is on a replayed column behind the driver
or the counter and outside what the pieces own; the pieces' runs are apart; so a
wrapped epoch meets no old mark, because the wrap clears them. `ReplayFaithful`
adds that the error is the sequential one, under the hypothesis that the block's
columns keep their original order (`ColumnsInOrder`); run `klu_permuted` shows
the code does not give more. `BlocksInOrder` is the branch side by side, under
`BlocksAssumption` (the blocks' starts ascend): the runs a dealing makes cover the
blocks in order, and the lowest error kept is after every block it is said to be.

**BlockTriangle_proofs**, under `SquarePatterns` (rows are numbers of columns):
`BlockFormHolds`. That a matching is maximum is Koenig's argument (`Koenig`): a
*shut* set, whose columns' rows are all matched within it, and which holds every
unmatched column, is short of rows by just the number of unmatched columns, and no
set is short by more. So the invariant needs a shut set where the search ends. With
Hopcroft-Karp it is what the last breadth-first pass reached (`LevelsClose`: a column
on the n-th level would need n + 1 columns, so no level is left open). With MC21, where every column is
searched from once, it grows: a search that fails reached a shut set
(`NoPathShut`), and a later path never enters a set that is shut, so it stays shut
after the rematching (`TurnedShut`). For Tarjan's pass the invariant `Walks` says
of every moment: what has been emitted leads nowhere else; what has been looked at
has been discovered; of two columns on the stack the earlier reaches the later, and
each reaches a column still being searched that was discovered no later; a lowlink
is the number of a column on the stack that its column reaches, and no higher than
any number its part of the stack has looked at, from its discovery to that of the
column searched above it. When a column ends with its own number, nothing above it
on the stack leads below (`Completes`), so what is emitted is sealed and strongly
connected. Reachability is membership in every closed set, so no path is ever
counted. The recursions over columns (seeds, levels) are functions because there is no
least step from which they are not (`Iterates`), and what holds of every step is
proved the same way.

**Threads_proofs**, six components.

* Hop, for any number of calls: `ClosureIsAlive`, `SignalsArrive`, `Handshake`,
  `HopImplementsPromise`. A blocked call has exactly one token: the job in the
  slot, the hop thread at it, or the answer in the slot.
* ScopedPools, under `PoolsAssumption`: `PoolsServe`, and the action property
  `LastPoolsAreKept`: a kept list is in the order of last use, so what is pushed
  out is none of the last needs.
* Sections, under `SectionsAssumption`: `SectionsAreLoops`. The pieces tile the
  items and each is a prefix of its own; `any`'s answer is one that holds; a scope's
  tasks are started once because their starters are.
* LogSink: `SinkIsAlive`, from the read and write holders of the lock.
* BlockGmres, under `GmresAssumption`: `BooksHold`. The books of the bases are
  sums over columns, so that closing, lowering and a step change one term each;
  columns close in an order, and a prefix of it is what room demands; who is left
  out of the next step is tied to why (converged, spent, waiting for room that
  others hold). The bound proved for the room is "no larger than the room, or than
  what was held before", with the exception the property names (section 6).
* OrderingRace, under `RaceAssumption`: `OutcomeHolds`, `SeedsRunOnce`,
  `CountedRanAndWasteIsBounded`, `RaceAsOneThread`. The invariant says what the
  champion and the pick are *so far* and which seeds have been started by then.

**Solvers_proofs**: for AutoSolver, under `AutoAssumption` (a fresh factor's pivot
order replays on its own values) and `NoneAssumption`: `TypeCorrect`,
`SolvesServeLastFactored`, `AnalysisIsShared`, `ForksReplayTheirOrigin`,
`ForksAgreeAlways`; a solver's invariant has four parts: its call, its slots, the
factor in use, the origin. For DirectSolver: `ObjectConsistent` (works out, in the
pool and lost are told apart by number). For Refinement: `Certification`. For
PythonHandles, under `HandlesAssumption`: `HandlesStaySound`, an invariant per
class of call: what it copied, what it borrows, and what nobody else may then hold.

**Structure_proofs**, two components that rest on the rows of a factor alone.

SymbolicAnalysis, under `PatternsAssumption` (a pattern lists rows it has):
`GroupsHold` and `SupernodesHold`, for every pattern, order and setting, *as long
as the tree and the counts in use are those of the factor*
(`StructureIsTheFactors`, the hypothesis: the code asserts it in test builds and
carries it through the postorders on trust, the run `analysis` checks it). The
elimination game, a recursive function on the columns, gives a column the rows of
every column it is the parent of (`FactorShape`), so in a run of columns that each
have the next for parent the rows are those of the last column and the run itself
(`Chain`). The invariant `Merged` says of every group just what survives a merge:
it ends where its own fundamental supernode ends, its columns are those whose
supernodes the union-find leads to it, their rows are its columns and its last
column's rows. Then the parent of a group's last column lies in the group of its
parent (`ParentGroup`), a merge joins two runs to a run, and the heights the code
adds up are the numbers of rows. Without the two rules that pad, a merged column
is as tall as its rows (`Tight`). Detection is exact because a parent with one
child and one row less has that child's rows (`FundamentalRuns`); what is collected
is a forest because the rows of a last column all lie in the group of its parent.
TLC checked the invariant on every state of the run.

SolveWalk, under `PlansAssumption` (a plan keeps its contract `IsPlan`: trees and
ancestors hold every node once, rows lie above, a slot stands for one row, an
ancestor pulls every slot of its rows in the order of the sweep; TLC evaluates it
on every factor of the run): `SharedViewSound`, `SweepsHold` and `OneOrderOfTerms`.

* Who runs when (`WalkInv`): the pending count of an ancestor is the number of its
  unfinished children; that no sweep ends with a node left out takes a minimal
  idle ancestor (a maximal one backward) whose count must then be zero; that a
  node reads what is final, that the set of idle ancestors is closed upwards.
* What the rows took (`TermsInv`): a slot sums, ascending, those of its source's
  nodes that have handed over (`AccumulatorsHold`); a row has the terms of the
  nodes `Taken`, in the order of the sweep (`RowsHold`), and which nodes those are
  is a function of phase, level and statuses alone. So a step is right when what it
  takes is complete (a released ancestor finds all its sources done, `FlowReads`)
  and comes after what was taken (`AllPrecede`); rows that take terms at once never
  take any from a slot (`NoMix`), and in the degenerate chain a level is one node.
  TLC checked the invariant on every state of the run.
* Terms in the order of the sweep are one list (`OneOrderOfTerms`: the order is
  strict, and a strictly ordered list is determined by its elements, by the least
  place where two would differ), so the bits do not depend on the schedule.

**Sums_proofs** is the library those books rest on: a sum over a finite set
(a fold of a set by any choice) exists, is one, splits off any element, is
monotone and compares term by term; a set of numbers in ascending order is a list
with its elements in order. The induction theorems that take an operator
cannot be instantiated by the provers here; the lemmas argue by a minimal
counterexample among the subsets instead (`LeastSet`), and so do the proofs of
the schedule and the sweeps (a least or greatest number of a set).

Only model-checked, and why:

* liveness under fairness, and whatever rests on ENABLED: out of the prover's reach;
* what a recursion or fold over data computes (the elimination tree, its counts
  and postorders, hence `TreeIsTheFactors`; QuotientGraph, Dissection, Scaling,
  SparseFormats' sums): an induction over data takes an operator parameter;
* what field arithmetic over a whole factorization gives (`FactorSolves`,
  `RefactorSolvesOrRejects`, `FillIsPredicted`, `LdltIsTheMatrix`);
* that `FromPanels` keeps the contract `IsPlan` (TLC evaluates it on every factor
  of the run): the cut is a recursion over the tree;
* `IsAnalysis` of what the analysis makes.

## 6. Where the code and its documentation differ

Seven disagreements met while modelling; each has a run in which TLC shows it, and
an entry under `findings` that quotes both sides.

* `klu_permuted`: the pipelined and level replays of KLU keep the error with the
  lowest *original* column, the sequential one stops at the first column in
  *final* order; where the block is permuted and two pivots vanish these differ.
  Comments at `numeric/klu/refactor.rs:496` and `:581` say they agree.
* `klu_shifted`: a KLU refactor compares the row indices of a matrix with the
  factored one's, entry by entry, never its column pointers; a matrix of another
  pattern with the same row indices is accepted and another system solved (`:300`
  against `:261`).
* `analysis_relaxed`: the relaxed merging rule subtracts in the direction that is
  never positive, so `max_extra_rows` never binds (`symbolic/supernode.rs:287`
  against the doc at `:10`).
* `auto_forks`: over a pattern not analyzed ahead, what a fork makes of a value set
  by LU depends on which value set needed LU first, even on one thread
  (`numeric/auto.rs:577` against the doc of `fork` at `:445`). `AutoSymbolic::analyze`
  avoids it.
* `gmres_continue`: a call that continues a block solve under a tighter tolerance
  may return a column unconverged without a step, its budget unspent
  (`numeric/krylov/block.rs:636` against `:600`).
* `refine_best`: an iterate whose every row reads a NaN measures zero and becomes
  the best one, returned for a finite one (`refine.rs:340` against `:295`).
* `log_install`: a thread that sets a Python sink holds the interpreter lock while
  it waits for the sink's write lock; one that hands a record to the sink before
  holds its read lock while it waits for the interpreter (`logging.rs:160`,
  `python/src/logging.rs:57`).

Smaller ones, met on the way and not given a run:

* On a pattern that stores a row twice RCM queues that neighbour twice
  (`crates/rslab-ordering-core/src/rcm.rs:78`): the assertion at `:88` fails and a
  release build returns more than n vertices. `CscPattern::new` accepts such rows
  (the test at `lib.rs:277`), and the doc at `rcm.rs:28` says it never fails on them.
  `OrderedAsStored` states how often each vertex comes and runs on such patterns;
  that the order is a permutation is asked of patterns without repeated rows. The
  drivers give RCM validated matrices, which repeat none, and refuse an order that is
  no permutation (`symbolic/ordering_graph.rs:224`).
* After a failed KLU refactor nothing refuses a solve; the doc says the handle is
  invalid until a successful one (`klu/refactor.rs:264`, `python/src/factor.rs:1083`).
  The LU and LDLT objects refuse, and the automatic solver has no
  active factor then.
* `numeric/krylov/settings.rs:75` and `krylov/block.rs:309` say the bases never hold more
  than the room and one column's step. Two waiting columns admitted and opened
  together overrun the room; the free room saturates at zero, closing takes a
  finished column's basis, and both step. `BooksAreKept` states the bound that holds.
* After a call cancelled right after a check, a stale flag lets the column
  close at its next check though there is room by then.
* The automatic solver's refactor takes an interrupt for a failed path and tries
  the next (`numeric/settings.rs:102` says a call returns).
* `python/src/symbolic.rs:255` and `:504` promise one release of the interpreter
  lock; the one-shot functions release it twice and look at the dtype after the
  analysis.
* The header of the separator module calls the cover "minimum-weight"; the König
  cover it takes is the smallest by number.

## 7. What is not modelled

* Floating-point results: dense kernels, magnitudes of pivots, the accuracy of
  scaling, of refinement, the convergence of Krylov methods, the measured tuning.
  Where control depends on a number (a vanishing pivot, a prediction against a
  threshold) the model takes every outcome.
* Memory ordering weaker than sequential consistency. The code's release/acquire
  pairs are on the very atomics the models step on; a relaxed access that ought
  to be stronger would not be seen.
* Panics inside kernels (Hop models a panicking job), and a sink that itself calls
  `set_log_sink`.
* The rspool and rayon pools themselves: sections run their pieces in any order.
* The single-vector Krylov solvers, BiCGSTAB and the recycling of subspaces between
  operators; determinants, condition estimates, inverses.
* NaN value sets and an interrupt raised in mid-call in AutoSolver; flat storage
  and narrow indices in LlSchedule; row lists and scratch pools in PanelArena;
  hashes, parallel splits and the memoised compression of the ordering graph; the
  wavefront of the column counts; the storage of the quotient graph's lists; the
  inertia and the memory plan of LDLT.
* What an analysis keeps for later factorizations and how values enter it
  (supernodal input); stored factors; the choice between candidate forms in KLU.
* Digits of numbers, right-hand-side files, generated test matrices, logging's
  format, estimates, Python settings classes and wrappers.

## 8. Plan

Done: every component the code names as a mechanism of its own, in the order
forest, schedule, KLU refactor, hop, analysis, race, automatic solver, then the
arena, the solve, the solver objects, KLU's factorization, fronts, LDLT, block
form, pools, sections, orderings, scaling, formats, Krylov, refinement, logging,
Python. Left, in order:

1. That `FromPanels` keeps `IsPlan`, and `OverflowIsTheTotal` of fronts composed
   with the arena's jobs.
2. A composition of LuFronts and PanelArena: the jobs of the arena as the fronts
   make them.
3. Supernodal input: how values enter an analysis that is kept.

## 9. Running it

In this directory, `tlc -config <cfg> <module>` for the pairs listed in
`PROJECT.json` under `runs`, and `tlapm <module>_proofs.tla` for the proofs. The
longest run takes about three minutes on two workers; of the proofs
Structure_proofs takes the longest, some nine minutes from nothing.
