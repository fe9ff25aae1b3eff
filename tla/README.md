# A TLA+ model of the register-pressure-aware trace scheduler

The repository is an LLVM pass plugin that schedules instructions in SSA form
before register allocation, either over *traces* (hot paths of several blocks)
or within single blocks, plus a driver and a benchmark harness. This directory
models the two passes, their analyses and the benchmark suite, checks them with
TLC, and proves each of them correct with TLAPS, down to the statement that
either pass, on any function, changes the program by legal code motion only.

## 1. Inventory

| component | source | state it keeps | operations |
|---|---|---|---|
| trace identification | `include/traceIdentification.hpp` | visited set, the trace being grown, the traces, the seed cursor, three counters | `identifyTraces`, `bestSuccessor`, `bestPredecessor` |
| liveness | `include/liveness.hpp` | IN/OUT per block, `changed` | `computeLiveness` |
| dependence graph | `include/ddg.hpp` | nodes, edge vectors | `buildDDG`, `addEdge`, `getDelay` |
| critical path | `include/critical.hpp` | `criticalPath` per node | `topologicalSort`, `computeCriticalPath` |
| list scheduler | `include/listScheduler.hpp` | `predCount` per node, ready queue, live set, schedule, peak | `listSchedule`, `pickBest`, `pressureDelta`, `updateLiveSet` |
| schedule legality | `include/scheduleLegality.hpp` | none (edits one block) | `isSchedulingAnchor`, `reorderBlockWithinRegions` |
| schedule application | `include/applySchedule.hpp` | the function's instruction lists, dynamic live sets, hoist counters | `applySchedule` |
| local pass | `include/localScheduler.hpp`, `src/schedulerPass.cpp` | the block whose turn it is | `runLocalScheduler`, `buildLocalDDG` |
| global pass | `src/schedulerPass.cpp` | the trace whose turn it is, the graphs | `globalSchedulerPass::run` |
| reaching definitions | `include/reaching.hpp` | search order, OUT/IN per block, `changed` | `computeReaching` (its result is handed to `buildDDG`, which does not read it) |
| dominators | `include/dom.hpp` | search order, dominator sets, immediate dominators | `computeDominators` (the passes use LLVM's tree) |
| driver | `src/schedRegAllocDriver.cpp` | none | one sequence of LLVM calls |
| benchmark suite | `scripts/run_suite.py`, `bench_worker.py`, `gem5_worker.py`, `ci_gate.py` | binaries, gem5 statistics, stage files, the CSV on the disk; rows in memory; the gate's exit code | `run_suite`, `bench_worker`, `gem5_worker`, `ci_gate` |

**Interaction.** The global pass calls, in this order, liveness (and reaching),
trace identification, `buildDDG` for *all* traces, `computeCriticalPath` for
each graph, and then for each trace in hotness order `listSchedule` and
`applySchedule`. Liveness and graphs are thus computed before anything moves and
read after other traces have moved; the graphs stay right, liveness does not
(section 3). The local pass computes liveness once and
then, block by block, graph, critical path, schedule, reorder. The two passes
share the list scheduler and the region reorder.

The benchmark suite is a separate program that shares no state with the passes
but the plugin it builds with. `run_suite.py` starts a worker per benchmark and
stage; they communicate only through files (`stageA.json`, `stageB.json`) and
exit codes. `--resume` skips a stage whose file exists, `results.csv` is
rewritten after every benchmark, and `ci_gate.py` reads it afterwards.

**What is hard here.** The passes are sequential; nothing runs concurrently. The
difficulty is in long sequences of individually plausible steps whose
combination must stay legal: counts that must stay exact while two lists are
walked; greedy choices with a global guarantee; moves whose legality depends on
all earlier moves; facts computed up front and used later; fixpoints that must
neither stop early nor run for ever; growth of traces in two directions under
one visited set. A unit test sees one order of events; TLC sees all of a bounded
family. The benchmark suite is the part that meets crashes: it may die between
any two file accesses, is resumed from what the disk holds, and files of earlier
runs and earlier builds of the plugin survive. `PROJECT.json` lists each hazard
at its line.

**What makes each component correct.**

* trace identification: traces are disjoint, cover what can be executed, are
  forward paths of hot edges, come hottest first, and are maximal;
* liveness, reaching definitions, dominators: exactly what their definition by
  paths says, in any block order, and the three agree on which values exist
  where;
* graphs and critical path: acyclic for traces, urgency decreases along edges;
* list scheduler: dependences respected, nothing lost, nothing twice, ordered by
  urgency, ties by pressure;
* legality and application: the program after any number of steps is one that
  legal code motion could have made of the original; counters add up;
* the passes: the same, across blocks and traces, and they end;
* the benchmark suite: no row without the evidence it rests on, no measurement of
  a wrong program, a finished run's CSV agrees with the stage files, and the gate
  passes only what deserves it, after any history of runs.

## 2. Modules

| module | models | notes |
|---|---|---|
| `CFG` | control-flow graphs, and LLVM's dominators, loops and paths over them | operators; external code defined by meaning |
| `IR` | SSA functions, opcode classes, anchors, latencies, the liveness sets | a program is a function from blocks to instruction sequences |
| `DDG` | `buildDDG`, `buildLocalDDG`, `addEdge`, `computeCriticalPath` | operators; `topoSortDFS` and the loops over its result are recursive functions |
| `ListScheduler` | one call of `listSchedule` | actions `CollectLeaf`, `Pick`, `Release`, `Return` |
| `ScheduleLegality` | `reorderBlockWithinRegions` | one operator on the block's sequence |
| `LegalMotion` | when moving instructions is legal, and what a well-formed function is | operators, in terms of paths |
| `CodeMotion` | the promise: a program changes by legal code motion only | the abstract specification |
| `ApplySchedule` | one call of `applySchedule` | `ReorderBlock`, `StartHoisting`, `HoistInstruction` (`SkipAnchor`, `Hoist`, `Stay`), `Return` |
| `LocalScheduler` | the local pass | composes `ListScheduler` and the reorder; implements `CodeMotion` |
| `TraceIdentification` | one call of `identifyTraces` | `PickSeed`, `GrowForward`, `StopForward`, `GrowBackward`, `StopBackward`, `Return` |
| `GlobalScheduler` | the global pass | composes `TraceIdentification`, `ListScheduler` and `ApplySchedule`; implements `CodeMotion` |
| `Liveness` | one call of `computeLiveness` | `VisitBlock`, `NextRound`, `Return` |
| `Reaching` | one call of `computeReaching` | the same actions; `gen` and `kill` as in the code, by *name* of the value |
| `Dominators` | one call of `computeDominators` | `VisitBlock`, `NextRound`, `StartIdoms`, `FindIdom`, `Return` |
| `Analyses` | the three on one function, one after another | composes the three modules above; `Call` starts the next one |
| `BenchSuite` | `run_suite`, both workers and `ci_gate`, invoked again and again | one action per file access, decision or failure; section 2.1 |
| `IR_proof` | theorems and lemmas about the operators of `CFG`, `IR`, `LegalMotion`, `ScheduleLegality` and `DDG` | section 6 |
| `ListScheduler_proof`, `TraceIdentification_proof`, `ApplySchedule_proof`, `Analyses_proof`, `BenchSuite_proof` | the theorems about single calls and about the suite | section 6 |
| `LocalScheduler_proof`, `GlobalScheduler_proof` | the theorems about the two passes, joined from those about the calls | section 6 |

State names are the source's (`readyQueue`, `predCount`, `currentLive`,
`dynamicLive`, `bfsOrder`, `seedCursor`, ...). `pc` names the loop a call is in;
`worklist` and `next` are the loop's iterator. An instruction and its value
share a name. An opcode stands for its class: `add` for any pure one-cycle
instruction, `sdiv` for one that may trap, `call` for a call with a result.

Abstractions worth knowing:

* constants and block operands carry no dependence and are left out of `use`;
* graphs come to the list scheduler as records with the liveness facts that
  `pressureDelta` and `updateLiveSet` would look up; in the two passes they are
  computed in `Init`, which for the global pass is where the code computes them
  and for the local pass is equivalent, since a block changes only in its turn;
* two equally good nodes in the ready queue are resolved by position, as the
  strict comparisons of `pickBest` do;
* `TraceIdentification` reads frequencies and probabilities from the profile
  record; equal probabilities in `bestPredecessor` may be resolved either way,
  because LLVM's predecessor order is an implementation detail;
* dominators (in the passes), loops and speculation safety are LLVM's and
  defined by meaning.

### 2.1 The benchmark suite

`BenchSuite` models `main()` of `run_suite.py` as a process with a program
counter. Contents of files stand for where they come from: a Stage A result is
the plugin version it was made with and, per configuration, whether the outputs
were right (`out`), different (`other`) or missing (`error`); a measurement is
the version of the binary that was simulated, 0 for none. So "stale" is visible
as a version that is not the current one. A stage file being written is `Cut`
until it is closed. The CSV is, per benchmark, a row for each configuration that
has one, of the columns the gate or a property reads, in the file's order:
`error`, the figures of Stage A (`mca`), those of Stage B (`perf`) and
`correctness_ok_vs_original` (`ok`).

* `Start` chooses `--resume`, `--skip-gem5` and `--only`. The loop follows
  `main()`: `SkipStageA` or `RunStageA`, `BuildConfig` once per configuration,
  `OpenStageA`, `CloseStageA`, `CorrectnessGate`, `Simulate`, `OpenStageB`,
  `CloseStageB`, `WriteRows`, `CloseCsv`; then `Finish` and, at any time after
  that, `Gate`.
* Failures are actions of their own: `StageAFails` and `StageBFails` (a worker
  returns non-zero, at any point of its work), `Kill` (the invocation dies
  between any two steps; only files are left), `Abort` (`json.load` raises on a
  file an earlier crash cut off, which nothing catches). `Rebuild` changes the
  plugin between invocations.
* A kill while the CSV is written leaves what was flushed (`LeaveFlushedRows`):
  of each benchmark its first rows, the last row of the file perhaps torn after
  any of its columns (`Torn`). The next `--resume` loads that as if it were
  whole; the rows of the benchmarks it selects are made again, those of others
  stay. Which benchmarks come first in the file is left open, which allows more
  files than the code writes. A row cut inside its benchmark or configuration
  name belongs to no benchmark of the suite (or, cut where one configuration's
  name is the beginning of another's, is one more row torn after its key) and is
  left out. A row cut inside a cell counts as the cell's columns before it, or,
  for a number, still as of its build.
  The header is shorter than the write buffer, so it is whole in any file that
  has rows.
* A configuration that fails leaves the binary of an earlier run, or, when it
  fails after the link, its own. Any set of the simulations of a stage may fail,
  as one fault.
* Taken as given: every exception `run_config` catches has a text, so a result
  with an error is one the gate sees (`ci_gate.py` tests the text for being
  empty); the original can fail but not be wrong, because it is what the others
  are compared with.
* Left out: a killed `run_suite.py` may leave a worker's container running for a
  while, which may then still write its files.

A torn row is the one thing the verdict does not survive. If the row of a
benchmark has lost the columns the gate reads and the next `--resume --only`
does not name that benchmark, the row is read as one without an error, and the
gate may pass although the lost column held one. No comment or document of the
repository promises otherwise for rows an invocation was not asked for, so
`GatePassIsEarned` speaks of the benchmarks that were selected and, among the
others, of rows that are `Intact`.

Operators with a suffix (`Release_StopAtReady`, `Fails_NoDominance`, ...), marked
*Fault* in a comment, are plausible bugs. No action uses them; they exist so
that each property can be shown to notice one.

## 3. Runs

Passing runs (distinct states are of the order given):

| run | question | bounds | states |
|---|---|---|---|
| `list_scheduler` | is `listSchedule` correct on the graphs of traces? | every filling of three slots with three opcodes and all available operands, in one block or two, plus a loop block with a PHI; both pressure modes | 2·10^4 |
| `apply_schedule` | is one `applySchedule` call legal code motion, complete and correctly counted? | a diamond of four blocks and a loop of five, three free instructions around a PHI and a call, every schedule the dependences allow; budget 2; both modes | 6·10^4 |
| `local_scheduler` | is the local pass legal, and what exactly does it schedule? | a one-block loop with a PHI and three slots of three opcodes | 4·10^4 |
| `global_scheduler` | do several traces, one after another, stay legal with facts computed up front? | a five-block line with side exits and a five-block loop, two or three traces each, four free instructions | 7·10^4 |
| `trace_identification` | are the traces what the pass needs? | every graph of an entry, two blocks and an exit with splits below, at and above the threshold, one block also with both edges to the same block: diamonds, nested and irreducible loops, unreachable blocks | 1·10^5 |
| `analyses` | do the three fixpoints stop, at the right sets, and agree? | a loop left from its header, its body or both, with or without an inner loop, all layouts, all operands; and the graphs of four blocks with at most two successors each | 7·10^4 |
| `bench_suite` | does any sequence of runs, rebuilds, crashes and failures keep CSV and verdict honest? | two benchmarks, the original with one configuration that gates and one that does not, two plugin versions, two faults | 7·10^6 |

Why the bounds are enough: three slots give chains, diamonds, independent ties
and duplicate operands, which is all the counting and tie-breaking can tell
apart; four blocks give every relation between two growing traces (joining,
splitting, wrapping around a loop); two or three traces give a move before and
after another trace's turn; budget 2 is reached and exceeded; the graphs of four
blocks include irreducible loops, blocks that cannot be executed, and unnamed
values, and need several rounds of a fixpoint. `Rounds` in
`MCTraceIdentification` bounds how long the profile's flow is followed. In the
suite, `MaxVersion` = 2 gives results of an older build, and `MaxFaults` = 2 a
crash followed by a failure in the resumed run; the number of invocations is not
bounded, and the proofs of section 6 need none of these bounds.

What they show, beyond type correctness:

* `PredCountExact`, `ReadyQueueExact`, `DependenceOrder`, `ScheduleComplete`:
  no wake-up is lost or doubled, no use before its definition, nothing is left
  out. (On trace graphs the critical path orders nodes along edges too, so a
  node that is merely queued too early is still picked late enough; it takes a
  queue that loses a node to put a use before its definition.) `CriticalPathOrder`, `PickIsBestChoice`: the greedy choice sorts the
  whole schedule by urgency and pressure only breaks ties.
  `CriticalPathCoversSuccessors`, `NoneWaitsForUnmovable`: trace graphs meet
  the two conditions that ordering and completeness rest on.
* `IsCodeMotion` (in three runs): every step of the detailed specification is a
  step of `CodeMotion` - instructions are neither lost nor duplicated, anchors
  keep their order in every block, on every path operands are computed before
  they are used, a trapping instruction keeps its place between the anchors,
  and nothing changes loops. `CodeMotion` talks about *paths*, the code about
  dominators and DDG edges. `EndIsLegalMotion`, `PassIsLegalMotion`: the moves
  also compose to one legal motion from the first program to the last.
* `NoMissedHoist`: one pass over the schedule reaches a fixpoint.
  `HoistedInScheduleOrder`: hoists into one block keep the schedule's order.
  `StatsAccount`: candidates = done + reasons.
* `DDGIsFresh`, `OnlyTraceChanges`: the nodes, edges and bodies that the graphs
  were built from are still those of the program when a trace's turn comes,
  because earlier turns changed only blocks of other traces. Liveness is computed
  once too, and it does *not* stay right: a hoist makes values live in blocks
  where they were not. The model uses it as the code does, stale; it decides
  ties between equally urgent nodes and the budget test, never whether a motion
  is legal, which is why legality holds all the same.
* `ScheduleIsUnblockedPart`, `RegionsAllOrNothing`: the local pass schedules
  exactly what does not wait for a PHI, and a region with a blocked instruction
  stays as it was, any other being sorted by urgency.
* `ReachableBlocksInOneTrace`, `TracesAreHotPaths`, `HotnessOrder`,
  `TracesCannotBeJoined`, `StatsCoverTraces`.
* `NeverTooMuch`, `ResultIsLiveness`, `ResultIsReaching`, `ResultIsDominance`:
  soundness on the way and exactness at the end, for every layout and graph.
  `IdomIsClosest`: the second phase of `computeDominators` finds the tree.
  `LiveValuesAreDefined`: the backward and the forward analyses agree - what is
  live at a block has been computed whenever control gets there. Values that a
  PHI takes are excepted: counted as uses at the top of the PHI's block, they
  are live before a loop that has yet to compute them.
* `RowsMatchStageA`, `GatedPerformance`: at every moment, crashed or not, a row
  rests on the stage file on the disk, and measurements appear only beside right
  outputs. `FinishedCsvMatchesFiles`: resuming ends where the files say, also
  from a CSV a crash has cut short or torn. `GatePassIsEarned`: what passes did
  compile and give the right output, and after a fresh run in this version.

Runs that end in a violation, each of a statement a comment or document makes:

| run | the statement | what the code does |
|---|---|---|
| `hoist_budget` | a hoist stays within the budget (`applySchedule.hpp:221`) | the test credits dying operands that the set never loses |
| `local_complete` | local and global differ only in region (`CODE_WALKTHROUGH.md:468`) | users of a PHI are never scheduled locally |
| `trace_back_edges` | rejected edges close loops (`traceIdentification.hpp:88`) | breadth-first order also rejects forward edges |
| `bench_stale_gem5` | after a failed Stage B the row has no gem5 data (`run_suite.py:206`) | the `stageB.json` of an earlier run is loaded |
| `bench_gate` | every benchmark must match (`correctness-suite.yml:3`) | one whose Stage A fails has no row, and the gate sees only rows |

None of the first three makes the output program wrong: `IsCodeMotion` holds in
spite of them. They cost schedule quality or mislead a reader of the statistics.
The last two concern what the numbers and the gate's verdict stand for. Further
differences from comments, of less weight, are visible in the modules: a local
graph with a PHI around a loop is cyclic (`CODE_WALKTHROUGH.md:345` calls the
DDG a DAG), a block that cannot be executed is in no trace
(`traceIdentification.hpp:157`), and `dynamicLive` starts from live-in although
instructions are inserted at the end of a block (`applySchedule.hpp:94`).

## 4. Fairness and liveness

The `Spec` of a single call, of the local pass and of `Analyses` has weak
fairness of its own `Next` and nothing stronger: the code is one thread that
keeps running until it returns, so a step that can be taken is taken; which step
it is never depends on a scheduler. `GlobalScheduler` splits the same assumption
in two, `WF_vars(Step)` and `WF_turn(FirstTurn)`: the second is the step that
builds all graphs, named by the variable it changes so that TLC need not build
them to know that the step can be taken. `Termination` under it says that the
loops end: the queue of `listSchedule` drains, the fixpoints of the analyses are
reached, every seed round of `identifyTraces` visits a block, the global pass
reaches the end of its last trace, `applySchedule` included. The local pass, a
`for` loop over the blocks around the same steps, is checked for safety only.
These systems really stop, so their configurations do not check for deadlock.

`BenchSuite` assumes no fairness: nobody has to invoke `run_suite.py` again, and
a kill may come at any time. Its run checks for deadlock instead: whatever the
files look like, the suite can go on or be started again.

## 5. Composition and refinement

`LocalScheduler` instantiates `ListScheduler` (as `List`) over its own
variables; `GlobalScheduler` instantiates `TraceIdentification` (`Identify`),
`ListScheduler` and `ApplySchedule` (`Apply`), and takes the callee's `Next` one
step at a time, so that the traces the pass schedules are those its own
`identifyTraces` found and not any the checker may choose. `Analyses` composes
`Liveness`, `Reaching` and `Dominators` in the same way.

`CodeMotion` is instantiated by `ApplySchedule`, `LocalScheduler` and
`GlobalScheduler` with the program `body` as its only state; the refinement
mapping forgets queues, graphs, live sets and counters. Its `Spec` is a
`PROPERTY` of three runs, and all three refinements are proved (section 6).

## 6. Proofs

Eight modules hold theorems. None needs a bound of the runs: they hold for every
set of functions, graphs, profiles or benchmarks that meets the named
assumptions, which TLC evaluates on the instances of the runs. For the two passes
and the analyses these assumptions say no more than what LLVM guarantees of a
verified function, its dominator tree and its profile; nothing is assumed about
the repository's own searches, graphs or critical paths. Every safety property
of the passing runs is the property of a theorem. Every inductive invariant
below was also checked by TLC, on the instances of the runs or on smaller ones,
before it was proved.

The longest chain runs through all modules: what LLVM guarantees -> the
breadth-first order puts a block after those that dominate it -> the traces of
`identifyTraces` lead forward in that order -> an operand's block is no later in
a trace than its user's, so a trace's graph is acyclic -> critical paths decrease
along its edges -> every trace's schedule is complete and sorted by urgency. That
the pass only moves code legally needs less of the graph: schedules are in
dependence order on any graph, cyclic ones included.

**`IR_proof`**: operators, for every function.

* Fixed points. The iterations of `CFG` and `IR` run for as many rounds as there
  are blocks; an iteration that only grows has closed by then (`IterationCloses`:
  each round that changes something adds an element). So
  `DominatesIsMustPass`: the dominance used for LLVM's tree is "on every path
  from the entry"; `LiveInIsLive`: the liveness sets the schedulers read are the
  values with a path to a use that computes them no earlier. Paths are sequences
  of blocks (`IsPath`).
* Motion. `IsLegalMotion` depends on two things only, the block of each
  instruction and the order of pairs in a block (`Before`), so a step is legal
  if it keeps the blocks and the order of every pair with an anchor, and puts no
  operand after its user (`ReorderIsMotion`), or if it moves one instruction to
  the end of a dominating block that its operands dominate (`HoistIsMotion`).
  That `reorderBlockWithinRegions` is a step of the first kind rests on what
  `Among` takes and in which order, and on each region being an interval that
  the reorder permutes (`RegionReordered`, `ShuffleIsPermutation`).
* Graphs. `LocalDDGIs`, `TraceDDGIs`: the graph of a block or a trace is well
  formed, with an edge from every operand to its user among the nodes that can
  be queued; `DependenceKeepsOperands`: a schedule in the order of such a graph
  lists no instruction before an operand; `TraceDDGKept`: nodes and edges of a
  trace depend on nothing outside its blocks.
* Critical paths. `CriticalPathDescends` is about any graph, cyclic or not: along
  an edge that enters a set which no edge leaves, the critical path decreases.
  The depth-first search lists such a set's nodes before whatever leads into it,
  so they have their final numbers when they are read. For an acyclic graph that
  covers every edge (`s` with all that follows it is such a set, and `n` is not in
  it). The search is followed by the number of nodes it has not visited yet, which
  every recursive call lowers.
* Search order. `BreadthFirstIs`, `BreadthFirstSearches`: the list holds each
  block that can be executed once, at the end of a path of blocks listed before
  it, so after all that dominate it. `TraceCriticalPaths` joins the two: along a
  forward trace operands are listed before their users, as the block of an operand
  dominates that of its user, so the graph has no cycle and its critical paths
  decrease.
* Regions. `RegionTakesSchedule`: a region whose members are all in the schedule
  holds them in the schedule's order afterwards; `IncompleteRegionStays`: any
  other is what it was.

**`ListScheduler_proof`**, for every set of `Graphs` that are well formed
(`GraphsAssumption`: edge vectors without repetition, as `addEdge` guarantees),
and for every call, the first and those after it (`Starts`: `peak` is carried
over):

* `TypeCorrect`;
* `InductiveInvariant`. `DependenceOrder` is not inductive: that the node just
  picked has all predecessors scheduled follows from its count being zero, so
  `PredCountExact` is needed; that a queued node's count stays zero while
  `Release` decrements others needs `QueueInv` (queued and scheduled nodes have
  no predecessor left, hence are on no worklist); that nothing is queued twice
  needs `WorklistInv` (the inner loop's rest has no repetition, leaves still to
  be looked at are not queued yet) and `ScheduleInv`;
* `PredCountCorrect`, `ScheduleRespectsDependences`, `ReadyQueueCorrect`: its
  consequences. They need no acyclic graph, so they hold for local graphs too;
* `PickedBest`, the action property `PickIsBestChoice`: of the nodes ready at a
  pick the chosen one is the most urgent, and with the pressure flag no equally
  urgent one leaves fewer values live. What `pressureDelta` computes is the
  change of the live set only if no movable node uses its own result
  (`NeverUsesItself`, its hypothesis);
* `ScheduleSortedByUrgency`: if critical paths decrease along edges between nodes
  that can get ready (`ReadyEdgesDescend`), the schedule is sorted by them.
  `UrgencyInv` strengthens it: neither a queued node nor one about to be released
  is more urgent than a scheduled one. `NeverReady` - what waits, directly or
  through others, for a node that is never queued - is left out, because a local
  graph may be cyclic there;
* `ScheduleIsComplete`: if critical paths decrease along every edge
  (`EdgesDescend`) and movable nodes wait only for movable ones
  (`WaitsOnlyForMovable`), the call returns with every movable node scheduled
  once. Were some left, the most urgent of them (`MostUrgent`) would have no
  unscheduled predecessor and be in the empty queue;
* `TraceGraphDescends`, `TraceGraphBlocksNone`, `TraceSchedule`: the graphs
  `buildDDG` and `computeCriticalPath` make of forward traces of functions
  (`IsTraceGraph`) meet all these conditions, so their schedules are complete,
  sorted and best-picked. The run's graphs are such graphs: TLC evaluates
  `TraceDDGAssumption` of `MCListScheduler` on every one.

Local graphs meet `ReadyEdgesDescend` and `NeverUsesItself`, but not the two
conditions of completeness: that is what `local_complete` shows.

**`TraceIdentification_proof`**, for every set of profiles of which
`ProfilesAssumption` holds (`IsProfile`: what LLVM guarantees of a graph and its
frequencies; a block that can be executed has one above zero). That the
breadth-first search lists exactly the reachable blocks and the stable sort
keeps them, hottest first, are lemmas. Proved are
`TypeCorrect`, `TracesPartitionBlocks`, `HotPaths`, `ForwardTraces`,
`HottestTraceFirst`, `TracesAreMaximal`, `StatsCoverEdges`. The invariant has three parts besides the
type. `VisitedInv`: the visited blocks are those of finished traces and of the
one that grows, and the cursor has passed only visited ones. `GrowthInv`: the
trace that grows is a hot path of new blocks whose seed is the hottest of what
was left, and once it grows backward its forward end rejects every unvisited
block. `TracesInv`: for each finished trace, what was true when it was finished
- its hottest block was the hottest of all blocks then unplaced, and both ends
rejected every block then unplaced. The last is what makes maximality work: of
two traces that could be joined, the one finished first saw the other's end
unplaced and rejected the edge. For the counters, `StatsInv` counts the edges of
the trace that grows as well: a step that adds one edge has just counted at
least that edge as above the threshold and not as a back edge.

**`ApplySchedule_proof`**, for every set of calls of which `CallsAssumption`
holds (`IsCall`: the function is well formed, the trace has no block twice, the
schedule lists instructions of the trace, none twice and none before an operand;
`IsFunction`: SSA with its terminators last, and dominators on every path, what
LLVM's verifier and its dominator tree ensure):

* `CallIsCodeMotion`: a call implements `CodeMotion`, one step for each block
  reordered and each instruction hoisted. `MotionsAddUp`: the moves compose.
  Legality of a motion is not transitive in general, so the invariant
  `MotionInv` says that the program is one legal motion from the *first*, that
  terminators are still last, and (`MovedInTurn`) that what left its block had
  its turn and is no anchor: an instruction whose turn it is stands at home,
  where the dominator checks of the code look for it;
* `HoistsKeepOrder`: the last instruction hoisted into a block is behind all
  others that were;
* `NothingIsMissed`: no instruction could be hoisted further when the call
  returns. `Settled` says it of the turns that are over; it is preserved because
  an instruction's operands have their turns before it, so what a block answered
  then it would answer now;
* `StatsAddUp`: from `Counted`, candidates are the instructions whose turn is
  over and that had an earlier block to try.

**`LocalScheduler_proof`**, for every set of well-formed functions
(`FunctionsAssumption`):

* `LocalPassIsCodeMotion`: the local pass implements `CodeMotion`. `LocalInv`
  says that the blocks whose turn has not come are as they were, so that the
  graph is that of the block as it is, and that the call of `listSchedule` is
  one of those `ListScheduler_proof` is about; its result is in dependence
  order, so reordering by it is legal;
* `LocalScheduleIsUnblockedPart`: for functions in SSA form, exactly the nodes
  that wait neither for a PHI nor for the terminator are scheduled. A node left
  out that is not blocked waits for another such node; the first of them in the
  block would wait for none, since edges to nodes that are no PHIs lead forward;
* `LocalScheduleIsSorted`, `LocalPicksAreBest`, under the same hypothesis: sorted
  by critical path and best-picked, cycles or not. An edge between nodes that
  can get ready leads forward in the block; the nodes from its end on, together
  with the blocked ones, are a set no edge leaves, so `CriticalPathDescends`
  applies (`LocalEdgesDescend`; `NeverReadyIsBlocked` joins the list scheduler's
  view of what is blocked with the pass's);
* `LocalRegionsAllOrNothing`: a region of a block is reordered as a whole or not
  at all, and then by urgency. It takes what is scheduled
  (`UnblockedPartIsScheduled`), in which order (`PassUrgency`, the list
  scheduler's `UrgencyInv` while a block is scheduled), what the reorder does to
  complete and to incomplete regions, and that blocks whose turn has not come
  are as they were (`BlocksAreKept`).

**`GlobalScheduler_proof`**, for every set of functions that are well formed and
have a profile (`FunctionsAssumption`):

* `GlobalPassIsCodeMotion`, `PassMotionsAddUp`: over all traces, in whatever
  order their schedules and hoists come, the pass changes the program by legal
  code motion, and the program it ends with is one legal motion away from the
  one it was given;
* `GraphsStayFresh`: a graph built before the first move still has the nodes and
  edges of the program when its trace is scheduled;
* `OnlyTheTraceChanges`: a turn changes the blocks of its trace only and adds
  nothing to a loop header;
* `NoneWaitsInTraces`, `CriticalPathsInTraces`: in the graphs the pass builds, no
  instruction that can be queued waits for one that cannot, and critical paths
  decrease along every edge;
* `TracesAreScheduled`, `TracesAreSortedByUrgency`, `TracesArePickedBest`: so
  every call of `listSchedule` returns each movable instruction of its trace
  exactly once, most urgent first, with the pressure flag deciding among equals.
  No condition on the graph is left: that traces lead forward comes from the
  invariant of `identifyTraces`, that operands come first from SSA form.

`GlobalInv` joins the invariants of the three callees. `TurnInv`: the graphs are
those of the first program, and the blocks of the traces whose turn has not come
are as they were, because traces share no block (`TracesInv` of
`TraceIdentification`) and `applySchedule` changes blocks of its trace only
(`StepChanges`). `ProgramInv`: the program is one legal motion from the first.
`CallsInv`: `listSchedule` runs on the graph of the trace whose turn it is, and
`applySchedule` on its result - so each is called as its own proof assumes
(`ApplyStarts`, `DDGsAreGraphs`), and its step lemmas carry over. The lemmas
named `Same...` say that the instances in the pass's module and in the proof
modules are the same operators.

**`Analyses_proof`**, for every set of functions of which `FunctionsAssumption`
holds (`IsFlow`: the entry and all successors are blocks of the function; what
the breadth-first order lists is proved, not assumed):

* `LivenessIsExact`, `ReachingIsExact`, `DominatorsAreExact`: when a fixpoint
  stops, its sets are exactly those defined by paths. The invariant says that
  the sets are *sound* at every moment (each value in a set has a path that puts
  it there; for dominators, no block is missing that every path passes) and
  *settled* for the blocks the round has visited without a change. When a round
  ends without a change all equations hold; completeness then follows from the
  first position on a path at which the sets would be wrong (a least
  counterexample, since induction over paths is beyond the prover);
* `LivenessIsSound`, `LivenessIsLeastSolution`, `ReachingIsReachability`,
  `DominatorsAreDominance`: the same in the terms of the runs' invariants, which
  use closures that TLC can compute; `IR_proof` joins the two. For reaching
  definitions no two values may have one name (`UniqueNames`), as `kill` goes by
  name;
* `IdomIsNearest`: the immediate dominator found is the strict dominator that
  every other one dominates;
* `LiveValuesAreComputed`: `LiveValuesAreDefined` for every function in strict
  SSA form (`StrictSSA`, what LLVM's verifier demands, is its hypothesis).

**`BenchSuite_proof`**, for every list of benchmarks and configurations and any
number of rebuilds and faults (`SuiteAssumption`: the lists have no repetition,
something gates, file contents are distinct from the absence of a file):
`TypeCorrect`, `RowsAreBacked`, `PerformanceIsGated`, `FinishedCsvIsCurrent`,
`GatePassIsDeserved`. `StageAInv` says what a finished stage file can hold;
`RowsInv` ties the rows, in memory and in the file, to it and says that there
are none for a benchmark while its file is made anew; `FreshInv` that a run
without `--resume` has only rows of its own version; `BehindInv` that rows
behind the loop are final, benchmark by benchmark; `VerdictInv` ties the verdict
to the rows it was given for. `FlushedRows` is the lemma on crashes: a prefix of
backed rows, the last one torn or not, is backed.

**Only model-checked.** `Termination`, the end of all loops: it is liveness under
fairness, of which the prover knows nothing. TLC checks it in four runs. All other
properties of the passing runs are proved; the runs show that the theorems'
hypotheses are met by interesting instances, and the mutants that the properties
can fail.

What the proofs take on trust is what the modules take from LLVM: that its
verifier, dominator tree and profile are what `IsFunction`, `IsFlow` and
`IsProfile` say.

## 7. Not modelled

* `src/schedRegAllocDriver.cpp`: one straight sequence of LLVM calls (parse
  the module, look up the target, open the output, run the code generator's
  pipeline, keep the output) with an early exit on each error; it keeps no state
  that a step could leave inconsistent.
* `scripts/manifest.py` and `analyze.py`: a table of benchmarks and
  configurations, and a formatter of results.
* The shell scripts, tests and benchmark programs: command sequences and inputs.
* In modelled components: environment variables are constants (`Threshold`,
  `Budget`) or a choice (`usePressure`); printing is left out, the numbers
  printed are state; the parsing of gem5's and the compiler's output, and the
  numbers in the CSV, which stand for the build they come from, are data the
  properties do not tell apart.
