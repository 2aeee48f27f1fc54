# Specifications of MeshInsight

MeshInsight predicts the latency and CPU overhead of a service mesh. An *offline
profiler* drives an echo server behind an Istio proxy and measures what the proxy costs
per request; an *online predictor* finds the critical path of Jaeger traces with CRISP
and adds up the modelled cost of every call on it. CRISP's own report program, kept beside
the predictor's version of it, tabulates and draws the critical paths of many traces. This
directory specifies them in TLA+, checks the specifications with TLC and proves theorems
about them with TLAPS.

Paths below are relative to the repository; `graph.py`, `process.py` and
`process_unmodified.py` are in `meshinsight/predictor/CRISP/`, `online_predictor.py` in
`meshinsight/predictor/`, `offline_profiler.py` in `meshinsight/profiler/`,
`funclatency_filter.py` in `meshinsight/profiler/latency/`.

## 1. The system

| Component | State | Operations | Hard behaviour |
|---|---|---|---|
| Trace graph (`graph.py` `Graph.__init__`, `parseNode`, `findARoot`) | `nodeHT` (ordered), `parent`, `children`, potential roots | read spans, link, search a root | arbitrary input: repeated ids, missing parents, cycles of references; order of insertion decides |
| Span windows (`sanitizeOverflowingChildren`) | start, end, duration of every span, links, counters | cut or drop a child, recurse, delete after the loop | window copied before the recursion, fields edited separately, two links to delete |
| Critical path (`computeCriticalPath`, `happensBefore`) | call stack, `lrc`, path | take the latest child, then earlier ones with 1 % overlap allowed | ties, zero durations and a division, overlaps of three children |
| Metrics (`getMetrics`, `computeGraphStats`) | six dictionaries keyed by operation or call path | add a span, subtract it from its parent | negative intermediate values, call paths shared by several spans |
| Trace pool (`process`, `mapReduce`, `run_CRISP` of `process.py`) | one result per trace | map a trace file to metrics, path, name | two result shapes, and a file that raises ends the map |
| Predictor (`online_predictor.py`) | parsed paths with four accumulators | attach a protocol to each call, add predictions, twice when there is a speed-up profile | an unreadable file, a missing model or root ends the whole run |
| Profiler driver (`offline_profiler.py`) | wrk processes, pods, getpid loop, profile in memory, `profile.pkl` | deploy, wait, load, measure, kill, save, clean up | aborts and restarts, pidof races, fixed lifetimes, torn file |
| Latency probe (`funclatency_filter.py`) | BPF maps `start`, `avg`, `latency_table`, `ret_value`; intervals of the reader | entry probe, return probe, read and print | threads, nested calls, calls in progress at attach, narrow integers, reads between updates |
| CRISP report (`process_unmodified.py`) | metrics of every trace, merged dictionaries, renamings, flame graphs, tables | pool of workers, `sanitizeNames`, `aggregateMetrics`, `flameGraph`, `heatmapAndSummary` | workers finish in any order, dictionaries changed in place, broken files, zeros in quantiles |
| CPU breakdown (`offline_profiler.py` 251-479, `cpu/flamegraph.pl`) | a flame graph, the x ranges of two processes, results per load | merge stacks to frames, drop narrow ones, round borders; scrape frames within a range, subtract nested ones, make points of regressions | frames on the border of a range, rounded borders, one function in several processes, nested frames |
| Stack collapsing (`stackcollapse-perf.pl`) | current stack, counts | fold `perf script` lines | missing blank lines |
| gRPC benchmark, filters, wrk scripts, YAML, install scripts | none | – | stateless or data |

Interactions: `online_predictor.py` calls `run_CRISP`, which maps `process` over the trace
files; `process` builds a `Graph` (links, root, windows), asks it for the critical path and for
metrics. The passes over the graph share the span objects: each relies on what the one before
left. `process_unmodified.py` uses the graph in the same way, with one worker process per
`--parallelism`, and hands the list of metrics from one step to the next: `flameGraph` changes
in it what `aggregateMetrics` read before. In both programs `process` has no handler: what it
raises `Pool.map` raises again, and the results of all files are gone. The profiler's driver
starts `wrk`, `kubectl`, `funclatency_filter.py` and `perf` as processes and talks to them
through their output and `kill`; predictor and profiler share only `profile.pkl`.

What makes each part correct, in words (the modules state it as properties, and
`PROJECT.json` lists under `hazards` the lines where it could go wrong):

- trace graph: below the root that is chosen there is a proper tree whatever the
  references of the file; the root is the outermost match and no match is missed;
- span windows: every child that stays fits its parent, start, end and duration keep
  describing one window, links stay two-sided, the counters say what was cut;
- critical path: connected, backwards in time below each span, overlapping by less than
  the allowance, with nothing left out that would fit, and never a division by zero;
- metrics: exclusive times add up to the root's duration, although entries are negative on
  the way; flat and call path profiles agree;
- CRISP report: every trace's times stand in its own column and behind its own names, each
  percentage is of the whole, and there is a report about all files or none;
- CPU breakdown: a process is charged for all its drawn calls and for no foreign one but where
  its range ends; the shares of the models are the samples of those calls;
- predictor: each call on a path is counted once in each pass and in its own accumulator,
  and a run fails only for the reasons the code has;
- profiler: never two load generators over any history of aborts, measurements under load,
  complete profiles, nothing left behind by a run that ends;
- latency probe: exactly the innermost calls of the traced process are timed, tables that
  are updated one by one by many threads tell the same story.

## 2. The modules

| Module | Models | Built on |
|---|---|---|
| `TraceGraph` | `Graph.__init__`, `parseNode`, `findARoot` | – |
| `SpanWindows` | `sanitizeOverflowingChildren` | – |
| `CriticalPath` | `findCriticalPath`, `computeCriticalPath`, `happensBefore` | implements `BackwardPath` |
| `BackwardPath` | abstract specification of a critical path | – |
| `SpanMetrics` | `getMetrics`, `computeGraphStats`, the end of `process` | extends `CriticalPath`, composes it with `SpanWindows` (INSTANCE) |
| `CrispReport` | `process_unmodified.py`, from its arguments to the HTML file | – |
| `Predictor` | `run_CRISP` to the printed overheads | – |
| `OfflineProfiler` | `main`, `clean_up`, the two experiments, with wrk, pods, file | – |
| `CpuBreakdown` | the frames `cpu/flamegraph.pl` draws, and the arithmetic of the cpu experiment on them | – |
| `FuncLatency` | `funclatency_filter.py`: BPF probes and reader | – |

Each has an `MC` module with the values of its instance and one `.cfg` per run; proofs are
in `SpanWindowsProofs`, `SpanMetricsProofs` (of `CriticalPath` as well, which `SpanMetrics`
extends), `TraceGraphProofs`, `PredictorProofs`, `CrispReportProofs`,
`OfflineProfilerProofs` (of `CpuBreakdown` as well, which it extends) and
`FuncLatencyProofs`; `FiniteSums` has the lemmas on sums and finite sets that most of them
use. A definition that precedes the one of the code and carries the comment "fault variant"
is the code's definition with a plausible slip. It is not part of `Next`; it documents which
slip each property detects.

### SpanWindows
A node is the position of its span in the ordered dictionary `nodeHT`, so that "the order of
`children`" is the order of numbers. The Python call stack is `stack`; the loop variables of
a call (`todo`: children not reached yet, `removeList`) are kept per node, since no node is
entered twice (a consequence of one parent per node; the proofs establish it). The four
branches of the loop are the actions `KeepChild`, `TrimFront`, `TrimBack`, `MarkDropped`;
the code after the loop and the return are `Return`. `called` is a history variable. `Init`
is every link structure `parseNode` can leave below a root, unreachable reference cycles
included, with every window.

### CriticalPath and BackwardPath
The graph is what `SpanWindows` leaves (`Linked`, `Fitted`); `WalkLeavesFittedTree` of
`SpanWindowsProofs` is the theorem behind `Fitted`. In the composition the graph is fitted only
as far as the search can reach, since dropped spans are not cut; `FitInv` of `SpanMetricsProofs`
says so, and the theorems about the path hold there too. A call's `sortedChildren` is the order
`ComesFirst` (a stable sort, reversed, so ties come in reverse file order); the calls' lists are
concatenated in the order of the calls, so `cp` is extended at the entry of a call.
`TakeLatest`, `TakeEarlier`, `SkipOverlapping` and `Return` are the branches. The floating point
test `overlap / duration < 0.01` is `overlap * Allowance < duration`, exact for integers and
`Allowance = 100`; instances use 2 and 3, so that small durations have overlaps on both sides of
it. `BackwardPath` says what is promised, without stack and order of evaluation: a set that
grows from the root; below a span the child that ends last is picked first, each later one
starts and ends before all its picked siblings.

### TraceGraph
`ReadSpan` takes any next span (identifier, references, matching names or not), so the file
is the environment's choice. `AddPotentialRoot`/`Link` are one iteration of the third pass;
the recursive search `findARoot` is an agenda of nodes still to visit (`Descend`, `Find`,
`NextCandidate`, `GiveUp`). Names of services and operations are reduced to "is the wanted
one", `matches`. The pass over the processes of the file and the `_TESTING` section are left
out.

### SpanMetrics
Three passes over one graph; the behaviours are those of `ProcessSpec` (`ProcessInit`,
`ProcessNext`), since `Init`, `Next` and `Spec` are `CriticalPath`'s. `CutSpans` are the actions
of `SpanWindows` on windows that may stick out of each other in every way; `StartPath` hands
what they leave to the actions of `CriticalPath`; `AddSpan` is one iteration of the loop over
`reversed(criticalPath)` with all its dictionary updates (`left` is the position it has
reached), and `Finish` is `computeGraphStats` with the `totalTime` entries of `process`. A
dictionary is a function whose domain is the set of its keys; a call path is the sequence of its
operations.

### CrispReport
`phase` is the position in `__main__`. `Take`/`Finish` are `Pool.map`: files are handed out in
order and finished in any order; `Gather` is its return, which raises if a worker did.
`SanitizeTrace` and `AggregateTrace` are one iteration of their loops, `FlameGraph` one
percentile, `HeatmapAndSummary` the tables, tool tips and summary. What `getMetrics` returns
for a trace is `Metrics(t)`, computed from the exclusive times of its call paths
(`SpanMetrics` shows that a run of the code gives such times); `exampleMap` of both summaries
records durations, as the code does. Dictionaries are functions on their keys, file names are
the sequences of their pieces between dots, quantiles are exact, in hundredths.
Assumptions: the trace directory is not empty; an operation's name does not contain "->", at
which the code splits call paths. HTML, tool tip texts and links are left out: `report` holds
what they show.

### CpuBreakdown
`Stacks` are the call stacks perf can have sampled, in the order in which `flamegraph.pl` draws
them; `generate_flamegraph` chooses how often each was. What the script reads is computed as
`flamegraph.pl` does it: a frame is one beginning of stacks over all their samples (`flow`);
one that is narrower than a tenth of a pixel is not drawn (`Drawn`); the borders of the others
are rounded to tenths (`Edge`, which rounds a tie up where `sprintf` looks at the binary
fraction). `Canvas` is the width of the picture in tenths, 11800 as the tool is called. Borders
count in halves of a tenth, because `get_target_xrange` adds the printed width to the printed
left border as floating-point numbers and may miss the right border by the last bit (`bit`); the
script compares with exactly that number. `FindRanges`, `NotDrawn` and `Breakdown` are the
script's steps for one load, `build_cpu_model` the end; the behaviours are those of `CpuSpec`.
Named assumptions say what the stacks are (section 5). A share is a number of samples: the
rounding of a percentage to two places in the SVG file and the factor to virtual cores do not
appear. Frames of the whole picture and the idle share, which is computed and not used, are left
out.

`ChargedCalls` says what is in a share as positions in stacks, not as frames of a picture: the
process's own drawn calls, wherever they are drawn, and those of others on the end of its range. `SharesAsSampled` compares the shares the models are built from with the samples at
those positions.

### Predictor
`ProcessTrace` is one file of `mapReduce`; its result has one of two shapes, or is what
`process` raised, since it opens, parses and analyses the file without a handler. `MapRaises` is
`Pool.map`, which raises it again when all files are done. `LoadProfile`, `ParsePath`,
`PredictCall` (one call of one trace in one of the four passes), `NextTrace`, `PassEnds`,
`Report` and `ReportOpt` are the script's steps in order. Inputs are arbitrary: files that are
broken, without a root or with one, paths, whether profile and deployment can be used
(`inputsReadable`), proxies from the deployment, models in the profile, the form of the speed-up
profile, which may be unreadable too. That the configuration can be loaded and the directory of
traces exists is assumed: without them CRISP is not reached. Five components are two (`read`,
which the code treats differently, and the others); overheads are in hundredths so that
percentages are whole numbers; request size and rate are the same for all calls and part of
`Cost`.

### OfflineProfiler
`pc` is the position in the script; `stage` remembers where `clean_up` was called from. A wrk
process is `forked`, then `running` (only then `pidof` finds it), and has `left` time. `Abort`
may happen at every step and undoes nothing; `Raise` is the abort the code runs into by what
it finds. Pods come up by themselves (`PodsStart`) or never do (`Deploy` with a file that
deploys no echo server). Steps that last seconds (`Long`) end only when a forked process has
been executed; `GetPid` is not such a step, which is the race at `offline_profiler.py:215`.
The number of measurements in a workload is that of the code: a probe for each of the
proxy's functions (`ProxyProbes`, by protocol) and of the application's (`AppProbes`), or the
runs of mpstat and the flame graph (`WorkloadLength`). A measurement takes one unit of time, and
wrk lives for `WrkLife` of them: ten, since the longest workload has ten probes. In seconds, with
`-d 800` a probe may take 80.

### FuncLatency
Threads call and return (`Call`, `Return`); the entry probe is part of the call, the return
probe is part of the return up to its first update of a shared table, and then continues with
`AddTotal`, `AddCount`, `AddLatency`, so that probes of different threads and the reader
interleave between updates. One thread's probes do not interleave with its own calls. A frame
remembers if the return probe was attached when its call began, because the kernel hooks the
return at the entry. The script attaches function by function, sleeps, copies the table key
by key, reports and clears. `sample`, `missed` and `cleared` are history variables.
`(int)delta` is `% Width`, with the upper half of the keys beyond every bucket; `TablesAgree`
therefore compares times modulo `Width` and counts exactly. Clearing `avg` is one step (the
code clears two slots).

## 3. The runs

| Run | Instance | Shows |
|---|---|---|
| `SpanWindows` | 3 spans, starts and durations 0..3, all parent functions | `ChildrenFit`, `LinksAgree`, `WindowsConsistent`, `ShrinkAccounted`, `CalledWindowsFrozen`, `Termination` |
| `CriticalPath` | 4 spans, starts 0..2, durations {0,2,3,4}, allowance 1/2 | `PathConnected`, `OverlapBounded` for all pairs, `NoTripleOverlap`, `NoGapMissed`, `NoZeroDivision`, and that the recursion implements `BackwardPath` (`PicksBackwards`) |
| `TraceGraph` | files of up to 4 spans over 3 identifiers, up to 2 references each | `TreeBelowRoot`, `NoMatchMissed`, `OutermostMatch`, `Termination` |
| `SpanMetrics` | 4 spans, 2 operations, starts {0,2}, durations {1,3,4,5}, root from 0 to 1 or 5, allowance 1/3 | `TimeConserved`, `CallPathTimes`, `ProfilesAgree`, `SelfTimeBounded` |
| `Predictor` | 2 trace files, broken, without a root or with one, 4 possible paths of up to 2 calls, 2 services, 2 protocols, every form of the speed-up profile | `EachCallOnce`, `FailureExplained` |
| `CrispReport` | 3 files, 2 workers, 4 different traces, one without a root, a broken one; 6 command lines | `HeatmapExact`, `TooltipsExact`, `RenamedOnce`, `AllOrNothing`, `PercentBounded` |
| `OfflineProfiler` | 2 protocols, 2 workloads each of 6 to 10 measurements, 3 starts of the script, 2 pids | `AtMostOneWrk`, `MeasuredUnderLoad`, `SavedProfileComplete`, `CleanExit`, `SpinnersFromAborts`, `RunEnds` |
| `CpuBreakdown` | 13 stacks of 6 processes, 5 of which may be missing, rare or frequent, 15 tenths of a pixel, 3 protocols, 2 loads | `NoCrossTalk`, `SharesAsSampled` |
| `FuncLatency` | 2 threads, 2 functions, 3 calls nested up to 2 deep, clock 0..4, 2 intervals | `OnlyInnermost`, `NoneMissed`, `TablesAgree` |

`SpanWindows` and `CriticalPath` also check their `TypeOK`, which their proofs build on.

Why these bounds are enough for the interesting cases. `SpanWindows`: three spans are a parent,
a child cut against it and a grandchild cut against the window that was cut, or two siblings of
which one is dropped; with times 0..3 all thirteen positions of two intervals and zero lengths
occur. The root is the middle node, so that children come before and after it. `CriticalPath`,
`SpanMetrics`: four spans are a root with three children, the smallest family in which a third
child lies in the overlap of two others, or a chosen child with a family of its own. In
`SpanMetrics` the root begins first and is shorter than every child but one, or as long as the
longest: children are cut at either end, dropped, and overlap by less and more than the
allowance. `CrispReport`: three files are the fewest of which one is in a percentile and another
not, with a third to finish between them; the four traces share call paths, have an operation on
two call paths, one without time of its own, one that calls itself, and equal totals; a name
with a second dot separates the two ways to derive an identifier. `CpuBreakdown`: right of proxy
and application are processes that call the same functions. With 11 to 24 samples on 15 tenths,
frames of one sample are drawn in some pictures and not in others, a sample moves a border by
more or less than a tenth, and each of these occurs: a foreign frame exactly on the end of a
range, half a tenth beyond it and so left out, half a tenth before it and so counted; one that
begins a sample later and is rounded onto the end; calls of the proxy too narrow to be drawn;
packets handled within its writes, some of which reach the bridge and some do not; a write
within a write, counted twice. `TraceGraph`: four reads of three identifiers force a repetition
and leave room for cycles of one, two and three. `OfflineProfiler`: three runs are an aborted
run, an aborted run on what that one left, and a run to the end; a second pid is what a second
wrk would need. `FuncLatency`: three calls are a nested pair and a sibling, or a pair and a call
of the other thread; with a clock up to 4 and `Width` 4 a call can be long enough for its key to
wrap around. Bounds that cut behaviour off are `MaxSpans`, `MaxRuns`, `MaxTime`, `MaxCalls`,
`MaxDepth`; all are guards of input actions. Symmetry is used where no liveness is checked
(`SpanMetrics`: operations; `FuncLatency`: threads, functions). Deadlock is not checked anywhere
because every system here may stop: the recursions and scripts end; where ending matters it is a
property (`Termination`, `RunEnds`).

### Where the code departs from what it says
These runs check a sentence of the repository and show a behaviour that violates it
(`findings` of `PROJECT.json` quotes both).

| Run | Sentence | What happens |
|---|---|---|
| `PredictorPercent` | "10 means there is a 10% speedup" | four of five terms are not divided by 100 |
| `OfflineProfilerWait` | "If we can not find echo server status, the yaml files are probably wrong" | that code is unreachable, and the wait is over when there are no pods |
| `CrispFlameGraph` | "Produce SVG flame graphs from critical paths for different percentiles" | the sums are lost: a loop variable hides their dictionary, and the last trace is drawn with its times doubled once per percentile |

Other departures can be read off the definitions and have no run of their own:

- `MarkDropped`: "child outside of parent rantge => drop" (`graph.py:363`) also drops a child
  that covers its parent; `totalDrop`, which is logged, is never incremented.
- `RecordChain`: `self.callChain` is tested and `callChain` is written (`graph.py:506`), so of
  "the set of callChains reaching this operation" one is left.
- `AddSpan`: the "worst case example of exclusive time" is chosen by duration.
- `Finish`: what the predictor calls the "depth of the critical path" is that of the whole tree.
- `Metrics` of `CrispReport`: both example maps record durations; `callChain` has one call path
  of an operation, so that tool tips lack the times of its other call paths, in each trace
  (`TooltipsExact` speaks of the one that is kept).
- `traceIDIndex`: a column is named after the file name up to its last dot and looked up in
  what was stored under the name up to its first: a second dot ends the program (`AllOrNothing`
  has it as a reason). `ToolFails` is an exception after the traces were analysed.
- Not in the model: the links of the heat map's columns lack a slash after the server's address,
  and its images are looked for beside the HTML file, where `getOutputDir` puts them only for
  a directory of traces.
- `get_cpu_breakdown`: for `grpc` the application's range is that of "server" and its total
  that of "echo-server", so that what is left for the others has the application in it; what the
  proxy handles of incoming packets within its writes, as it does when a sidecar writes to the
  application over loopback, is in `envoy_process_backlog`, in `envoy_loopback` and once more in
  `envoy_userspace`. `others`, under the comment "Get other background processes CPU usage"
  (`offline_profiler.py:451`), therefore lacks these packets three times, but for what reaches the
  bridge, and may become negative; `SharesAsSampled` states the number that comes out. `Breakdown`
  computes `virtual_cores` from a measurement and uses `core_count` instead.
- `Inside`: "We are only interested in function that is within the xranges"
  (`offline_profiler.py:388`), but the end of the range is included: a foreign call that is drawn
  there is charged (`NoCrossTalk` allows this and no more), and whether it is may depend on the
  last bit of `x1 + width`.
- `LoadProfile` to `PassEnds`: the shipped `speedup.yml` has no key `SPEEDUP`, so the second
  pass raises with it (`FailureExplained` has it as a reason).
- `CheckFails` (`-t`): a return value that does not match leaves its start behind, although
  "only the innermost calls will be recorded"; `RecordedInnermost` excludes `-t`.
- `ParsePath`: a trace without a root has a bare `Metrics` as its result, and the script raises
  for all traces (`FailureExplained` has it as a reason). `MapRaises`: so it does if one file
  cannot be opened or parsed.
- `AttachReturn`: a call that begins when only its entry probe is attached leaves its start
  behind, and the call around it may be recorded with it. `OnlyInnermost` speaks of the calls
  that begin after everything is attached.
- `Chosen`: with `-n`, the bucket that does not fit is left out as a whole: the report holds
  fewer than N calls, even none.
- `AddLatency`: nanoseconds are narrowed to `int`, so 4.3 s and more count as short.
- `ClearAverage`: `avg` is cleared for every interval, `latency_table` never.
- `offline_profiler.py:30` has "default duration is 15s" beside `default=30`, and the help
  texts of `-c` and `-l` (28-29) are swapped. A run with neither flag saves an empty profile
  over the previous one; `SavedProfileComplete` calls that complete, since nothing was asked
  for.

## 4. Fairness

- `SpanWindows`, `TraceGraph`: `WF_vars(Next)`. One process executes a
  recursion or a loop; a step that can be taken is taken. It is what `Termination` needs and
  all that is assumed: the walk ends because of the shape of the graph, which the file decides.
- `OfflineProfiler`: `WF` of `Step` (the script goes on while it can), of `PodsStart` (a pod
  that was deployed comes up; without that `wait_until_running` polls for ever, as in the
  code), of `Exec` (the scheduler runs a forked process) and of `Raise` (a step that cannot
  succeed raises). Nothing makes the user start or abort the script.
- `CriticalPath`, `SpanMetrics`, `Predictor`, `CrispReport`, `CpuBreakdown` and `FuncLatency`
  are checked for safety only and have none.

## 5. What is proved

All theorems hold for every value of the constants under the named assumptions of the modules.

- `SpanWindowsProofs` (any finite set of spans, any times, any links): `TypeCorrect`,
  `WindowsStayConsistent`, `LinksStayTwoSided`, `WalkLeavesFittedTree` (`ChildrenFit`),
  `EnteredWindowsFrozen`, `ShrinkIsAccounted` (`ShrinkAccounted`). That every child fits at the
  end is not inductive. The invariant adds that no span is a child of two others (`OneParent`),
  that what has not been called is as it was read (`Fresh`), that waiting and marked children
  have not been called (`ToWalk`), that each child of a called span is waiting, marked, or
  called and within (`Fate`), and that a call that has returned leaves none waiting or marked
  (`Returned`). Windows of called spans are frozen because only a child that has not been called
  is ever cut: this makes the copies `parentStart`, `parentEnd` of the code safe. It is also why
  the counters are right: a span loses time in one step only, and `Fresh` says that it had its
  original duration before it. `WalkRunsOut`: every step lessens `WorkLeft`, twice the number of
  waiting children and the depth of the stack, a natural number, and while a call is in progress
  a child is next or the call may return (`FirstOfSet`: a finite ordered set has a first
  element). The walk ends whatever the references.
- `SpanMetricsProofs`, part 1, theorems of `CriticalPath`'s `Spec` (any finite fitted graph, any
  allowance): `TypeCorrect`, `PathIsConnected`, `PathGoesBackwards` (chosen siblings go
  backwards in starts and ends), `NeverDividesByZero`, `ImplementsBackwardPath`. The invariant
  says that what a call has not looked at is not on the path (`Untouched`), and that `lrc` is
  the child on the path that starts and ends first (`LrcEarliest`), from which the comparison
  with `lrc` alone orders all siblings. The division needs that the spans on the path hold their
  children (`PathFits`): a parent of zero duration then has only children of zero duration at
  the same instant, and `Staggered` fails for those. Nothing else does, so the invariant itself
  asks only for a graph with consistent windows and links (`GraphRead`). `SearchRunsOut` is the
  variant of `WalkRunsOut` for this recursion. The refinement maps `picked` to the set of spans
  in `cp`; `TakeLatest` and `TakeEarlier` are `Pick`, everything else stutters.
  `OverlapsBounded` (`OverlapBounded`), `NoThreeOverlap` (`NoTripleOverlap`),
  `NothingFitsIsMissed` (`NoGapMissed`): the code compares a child with the one picked last
  only; that this bounds all pairs needs the order from `LrcEarliest`, and for three siblings
  the count of events: a third in the overlap would be a third event (`ThreeEvents`; the set of
  siblings is finite, `FiniteAssumption`). Nothing is missed because what a call has not looked
  at ends no later than what it picked last (`LaterEndEarlier`), a skipped child therefore ends
  within that one's window (`NothingMissed`), and only calls on the stack have children left
  (`RestOnStack`).
- `SpanMetricsProofs`, part 2, theorems of `ProcessSpec` (any finite tree of spans, any windows,
  operations, allowance): `EachProfileConservesTime` (`TimeConserved`), `TheProfilesAgree`
  (`ProfilesAgree`), `TimesOfCallPaths` (`CallPathTimes`), `SelfTimesAreBounded`
  (`SelfTimeBounded`). `ProfileInv` follows all three passes: the links stay those of a tree in
  which every span has a call path (`LinksOK`, by `ClimbExists`); the path begins at the root,
  has no span twice and with each span its parent (`PathOK`); and what the loop has added is
  stated for its middle (`TimesInv`), where an entry may be negative: a profile adds up to the
  root's duration once the root is counted and to nothing before, since each span adds its
  duration and takes it from its parent's entry; the entry of a call path is the durations of
  its spans so far less those of the spans just below. `TimeConserved` and `CallPathTimes` are
  this with everything counted. That an exclusive time is bounded is a property of the cutting:
  `FitInv` carries the invariant of `SpanWindows`, instantiated, through the first pass (the
  instance's assumptions are proved, `CutsAsAssumed`) and `FittedWhenFinished` out of it, and
  `ShareInv` bounds what a span has given away to the children on the path by the time from the
  start of the one picked last, but for an allowance for each one before.
- `SpanMetricsProofs`, part 3, again of `ProcessSpec`: `PathIsRightInPipeline` has the
  properties of part 1 for the path found after any cutting, without assuming a fitted graph. A
  step after the cutting is one of `CriticalPath` or leaves its variables alone
  (`SearchOrNothing`), it begins on a graph part 1 accepts (`StartSearch`), and `FitInv` gives
  the division what it needs. `PipelinePicksBackwards`: the pipeline contains `BackwardPath`;
  `StartPath` leads to an initial state of it, and each later step is one of its steps or a
  stutter. It is stated as an action property because the abstract behaviour begins only when
  the cutting is over. `PipelineRunsOut`: every step ends a pass or lessens what is left of it.
- `TraceGraphProofs` (any number of spans, any identifiers and references): `TreeIsBelowRoot`
  (`TreeBelowRoot`), `NoMatchIsMissed` (`NoMatchMissed`), `OutermostIsChosen`
  (`OutermostMatch`). Since references may be cyclic, the ancestors of a span are the least set
  that holds it and the parents of its members. The invariant says of the links that both ends
  are those of the references read (`LinksOK`) and children are in the order of the file
  (`ChildrenInOrder`); of the search (`SearchOK`) that what is still to be visited has no match
  above it and that every match that hangs from a root has an ancestor still to be visited. When
  nothing is left to visit there is therefore no such match. `SearchEndsOnCycles`: the code
  keeps no set of visited spans and still visits none twice. `VisitOK` says that all that is
  still to be visited hangs from a root and none of it is above another; what hangs from a root
  is on no cycle (`NoCycle`: references lead around a cycle and never out of it, and a root has
  none), so the children that take the place of a visited span leave it out for good, and the
  number of pending spans, the depth-first search's variant, falls (`DescendVisits`).
- `PredictorProofs` (any number of traces, paths, protocols, models): `PrintedOverheads`
  (`EachCallOnce`), `FailuresExplained` (`FailureExplained`). The accumulators of a parsed path
  are sums over the calls its passes have done (`SumsOK`, with `Handled` counting them from the
  script's position), every call behind had a model (`HandledOK`), and what is printed, or was
  printed before the second pass failed, is exact (`PrintedOK`). A result that was raised ends
  the map before anything is parsed (`MapRaisesInv`), so that past it every file has been read,
  and past the parsing every file has its root. `CostAssumption`: a prediction of a regression
  is a number, which is needed for sums to be sums.
- `OfflineProfilerProofs` (any protocols, workloads, durations, number of runs): `OneWrk`,
  `ExitsClean`, `LeaksBounded`. The invariant lists the positions of the script at which no wrk
  is alive, and that after `kubectl delete` every living wrk is one that `pidof` finds.
  `CompleteIfSaved` (`SavedProfileComplete`) follows from `JobsInv`: what is still to be
  measured and what the profile has are together everything that was asked for, in every run,
  and a torn file is not readable. `AlwaysLoaded` (`MeasuredUnderLoad`) follows from `LoadInv`:
  between two measurements the wrk that `pidof` found has its whole life left but for one unit
  per measurement; it needs that wrk lives as long as the ten measurements of the longest
  workload (`WrkLasts`), which is the property's own precondition.
- `OfflineProfilerProofs`, second part, theorems of `CpuSpec` (any stacks, any samples, any
  protocols and loads, any width of the picture): `OwnCallsAreCharged` (`NoCrossTalk`),
  `SharesAreSamples` (`SharesAsSampled`). The invariant (`GraphInv`) says that the samples are
  numbers and that a range the script has found is, but for the last bit, the one its processes'
  stacks take up, neighbours in the drawing and a tenth of a pixel wide (`RangesOK`, `IsRange`,
  `Wide`). A frame is one prefix of call stacks, and all stacks with a prefix are neighbours; in
  samples, a frame therefore lies wholly within a range or wholly beside it (`BeginsInside`,
  `BeginsOutside`, `FrameIsWhole`). Rounding keeps the order of borders, and keeps borders apart
  that have a drawn frame between them (`Edges`): a process's own calls begin a tenth before its
  range ends, those of the process before it a tenth before it begins, and of those after it
  only the ones that are rounded onto its end are within it (`RangeOfOwnCalls`). The script adds
  up frames and `Charged` adds up calls in stacks; that both are the same number is counting one
  set in two ways (`WidthsAreSamples`: the width of a frame is one call in each of its stacks,
  `CallsOfFrame`). The rest is the arithmetic of the shares, in which those of proxy and
  application become the samples of three processes that share no stack (`SamplesOfThree`).
- `CrispReportProofs` (any files, traces, arguments, workers): `ReportAllOrNothing`
  (`AllOrNothing`). The invariant says that the results so far are those of their files
  (`ResultsKept`), that none is broken past `Gather` (`NoneBroken`), that the identifiers of the
  traces merged so far have their times stored (`IdsStored`), and why a run failed
  (`FailedFor`). That a file without a second dot is found again is the lemma `TwoPieces`.
  `NamesInv` adds that the map of names is one to one and only grows (`MapOK`; new numbers begin
  above all old ones, by cardinality, `Numbered`), so that what was renamed with it early would
  be the same under the final map (`SanitizedSame`, `MetricsOK`), and that each trace's times
  are stored under its identifier (`SummaryOK`): `NamesAreKeptApart` (`RenamedOnce`) and
  `HeatmapIsExact` (`HeatmapExact`), the latter because in a report columns and identifiers are
  the same and no two files share one (`ColumnIsId`). `TipsInv` adds what the merged
  dictionaries of call paths hold of the traces so far, the times in the order of the traces and
  a greatest example (`TimesOf`, `WorstOf`): `TooltipsAreExact` (`TooltipsExact`).
  `PercentagesAreBounded` (`PercentBounded`): quantiles of values that are less, trace by trace,
  are less (`QuantileGrows`, from the existence of an element at each place, `NthExists`). It
  assumes that no call path has a negative time of its own; `SelfTimesAreBounded` says how
  negative one can be when the children on a path overlap by the allowance, and an operation
  could then exceed 100 %.
- `FuncLatencyProofs` (any threads, functions, depth and number of calls): `InnermostRecorded`
  (`NoneMissed`), `RecordedInnermost` (`OnlyInnermost`, assuming `Ret = NoRet`, i.e. no `-t`).
  The invariant (`StartOK`): while a settled call is on top of its thread, `start` holds its own
  time as long as it has made no call, and nothing after its callee returned. Settled calls,
  those that began when everything was attached, lie above all others (`FramesOK`).
  `TablesStayInStep` (`TablesAgree`, any finite set of threads): what the tables differ by is
  the sum over the threads between two of their updates (`Pending`), under which each
  `AddTotal`, `AddCount` and `AddLatency` moves one thread.

What the theorems assume. Sets are finite where something is counted or added: spans of a file,
threads of a process. `Fitted`, which `CriticalPath` assumes of the whole graph, is not assumed
of the pipeline (`PathIsRightInPipeline`). `StacksAssumption` of `CpuBreakdown`: a stack has
frames, and the name of a process is only ever a first frame, as `perf script` and
`stackcollapse` put it there; a function with the name of the proxy or the application would be
found in its place. `SortedAssumption`: `flamegraph.pl` sorts the stacks before it draws them,
so that those with a common beginning are neighbours, and the proxy's two workers, whose names
differ in the last character, are neighbours of each other (`offline_profiler.py:532` relies on
it). One frame is drawn for one prefix: a frame name that continues another one's with a
character that sorts before the separator ";" would come between its stacks, and is excluded by
this assumption. (Compilers name functions so: of `f` and `f.part.0`, called from the same
place, the frame of `f` is drawn in two pieces if `f` was also sampled itself.)
`ProfilesAssumption`: the numbers of samples are natural numbers; `CanvasAssumption`: the
picture has a width. `GlobAssumption` of `CrispReport`: in a directory the script finds what
matches `*.json` (`process_unmodified.py:134`), names that differ and end in it.
`TracesAssumption`: a call path recorded for an operation is one of the trace and its operations
are the trace's own, as `getMetrics` makes them; none is called `totalTime`. The last is a
hypothesis about the input: a service and operation so named would be taken for the total.

How sums are reasoned about. `MapThenSumSet` and `SumFunctionOnSet` choose the order of their
elements; `FiniteSums` proves that the choice does not matter (`SumRemove`) and from it what
adding, changing and dividing a set does to a sum. Its lemmas are inductions over a finite set,
which are done without an induction theorem: a family of subsets that holds the empty set and
whatever is one larger holds all (`Growing`), because a smallest counterexample exists
(`SmallestSubset`).

Only model-checked: liveness (`Termination`, `RunEnds`) and the refutations. Every invariant and
every action property that a passing run checks is also a theorem. Of `Termination` the theorems
`WalkRunsOut` and `SearchEndsOnCycles` prove what does not depend on fairness: no behaviour takes
steps for ever. That a step which can be taken is taken, and that a number cannot fall for ever,
is the temporal argument the provers have no rule for. `RunEnds` depends on pods, processes and
time, and has no such measure: polling for a pod is a loop that only fairness ends.

## 6. What is not modelled

- The latency experiment's arithmetic (which measured values are subtracted from which,
  `build_latency_model`), least squares, and `mpstat`'s output: formulas without control flow.
- The report's functions in `process.py` (188 to 740): a copy of those of
  `process_unmodified.py` that nothing calls any more; they are modelled where they run.
- The text of CRISP's reports: HTML, pandas styles, tool tip wording, log lines.
- Vendored and generated code: `difffolded.pl`, `stackcollapse-perf.pl`, BCC's `profile.py`,
  `argdist.py` and `funclatency.py`, and `*.pb.go`, other projects' tools. Of
  `cpu/flamegraph.pl` `CpuBreakdown` models what the profiler reads of its output (frames, which
  are drawn, their borders and widths) and nothing else; the copy in `predictor/CRISP` is a tool
  that `CrispReport` calls. `netfunclatency.py` is a variant that nothing runs.
- The two decimals of a percentage in the flame graph: a share of few samples is off by up to
  0.005 % of the cores. How `sprintf` rounds a border that is exactly between two tenths.
- Data and scripts: YAML deployments, lua workloads, install scripts, Envoy filter settings.
- Resource limits: Python's recursion limit on very deep traces, the 10240 entries of the BPF
  hash `start`, the 1024000 of `latency_table` (`funclatency_filter.py` counts at most so many
  different latencies; beyond them an update is lost, and `TablesAgree` with it), and the number
  of CRISP's workers (always one).

## 7. Plan

Done, in this order: `SpanWindows`, `CriticalPath`, `TraceGraph`, `OfflineProfiler`,
`FuncLatency`, `SpanMetrics`, `Predictor`, `BackwardPath`, `CrispReport`, `CpuBreakdown`, the
composition of the passes in `SpanMetrics`, and the proofs of section 5.

Next, to extend the model: the graph of `SpanMetrics` built by `TraceGraph` instead of chosen;
in `FuncLatency` the histogram `ret_value` and the two-step clearing of `avg`; the Go and wasm
filters of the gRPC benchmark.

Next, to prove: with the graph built by `TraceGraph`, that what it leaves below the root is a
`Tree` in the sense of `SpanMetrics` (`TreeIsBelowRoot` has the links; what is missing is the
translation of identifiers into positions); for `OfflineProfiler`, that a run without `Abort`
takes boundedly many steps between two polls.
