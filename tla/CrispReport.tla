----------------------------- MODULE CrispReport -----------------------------
(***************************************************************************)
(* The report program CRISP/process_unmodified.py, from its arguments to   *)
(* criticalPaths.html: a pool of workers computes the metrics of each      *)
(* trace file (modules TraceGraph to SpanMetrics), which are renamed if    *)
(* asked, merged, drawn as flame graphs and tabulated as a heat map with   *)
(* tool tips and a textual summary.                                        *)
(*                                                                         *)
(* A Python dictionary is a function on the set of its keys, a call path   *)
(* the sequence of its operations, a file name that of its pieces between  *)
(* dots. Quantiles are in hundredths, a percentage is a fraction.          *)
(***************************************************************************)
EXTENDS Integers, Sequences, FiniteSets, FiniteSetsExt

CONSTANTS
    Args,        \* command lines: [given, names, parallelism, topN, numTrace, numOperation,
                 \* anonymize], names being the files there are, in the order of glob
    Traces,      \* critical paths: [self, chain], see Metrics
    NoRoot,      \* a trace without the operation that was asked for
    Broken,      \* a file on which process raises
    TotalTime    \* the key 'totalTime'

VARIABLES
    args, input,                     \* the command line, what each file holds
    phase,
    taken, busy,                     \* files handed to workers, the file of each worker (0: idle)
    metrics,                         \* results so far, by the position of their file
    i,                               \* loop counter of sanitizeNames and of aggregateMetrics
    saniMap,                         \* a new name is the number saniCtr had
    exclusive, inclusive,            \* SummaryResult: [opTime, callpathTime, exampleMap]
    aggregateCallMap,
    flame, diffs,                    \* percentiles drawn so far, pairs compared
    report                           \* what the HTML file shows, NoKeys before

vars == <<args, input, phase, taken, busy, metrics, i, saniMap, exclusive, inclusive,
          aggregateCallMap, flame, diffs, report>>
results == <<exclusive, inclusive, aggregateCallMap>>
drawn == <<flame, diffs>>

NoKeys == [k \in {} |-> 0]
Put(dict, key, value) == [k \in DOMAIN dict \cup {key} |-> IF k = key THEN value ELSE dict[k]]
Sum(f, S) == MapThenSumSet(LAMBDA x : f[x], S)
LastOf(path) == path[Len(path)]
Percentiles == {50, 95, 99}

jaegerTraceFiles == IF args.given = "file" THEN SubSeq(args.names, 1, 1) ELSE args.names
Files == 1..Len(jaegerTraceFiles)

(* The first piece of the name, and the name without its last piece.       *)
getTraceIdFromFilePath(name) == SubSeq(name, 1, 1)
splitext(name) == IF Len(name) = 1 THEN name ELSE SubSeq(name, 1, Len(name) - 1)
traceIDIndex == {splitext(jaegerTraceFiles[f]) : f \in Files}

Init ==
    /\ args \in Args
    /\ input \in [DOMAIN args.names -> Traces \cup {NoRoot, Broken}]
    /\ phase = "args" /\ taken = 0 /\ busy = [w \in 1..args.parallelism |-> 0]
    /\ metrics = NoKeys /\ i = 0
    /\ saniMap = [k \in {TotalTime} |-> TotalTime]
    /\ exclusive = [opTime |-> NoKeys, callpathTime |-> NoKeys, exampleMap |-> NoKeys]
    /\ inclusive = exclusive /\ aggregateCallMap = NoKeys
    /\ flame = NoKeys /\ diffs = {} /\ report = NoKeys

(* sys.exit unless exactly one of --file and --traceDir is given; Pool     *)
(* raises on a parallelism below one.                                      *)
CheckArgs ==
    /\ phase = "args"
    /\ phase' = IF args.given \in {"none", "both"} \/ args.parallelism < 1 THEN "failed" ELSE "map"
    /\ UNCHANGED <<args, input, taken, busy, metrics, i, saniMap, results, drawn, report>>

-----------------------------------------------------------------------------
(* What getMetrics and process return for a critical path with one span    *)
(* per call path p, of exclusive time t.self[p]; callChain keeps one path  *)
(* of each operation, t.chain. The examples are of durations, in both maps.*)
EmptyMetrics == [opTimeExclusive |-> NoKeys, opTimeInclusive |-> NoKeys,
                 callpathTimeExclusive |-> NoKeys, callpathTimeInclusive |-> NoKeys,
                 exampleMap |-> NoKeys, callChain |-> NoKeys]

Metrics(t) ==
    LET paths == DOMAIN t.self
        Below(p) == {q \in paths : Len(q) >= Len(p) /\ SubSeq(q, 1, Len(p)) = p}
        spent == [p \in paths |-> Sum(t.self, Below(p))]
        Flat(times) ==
            Put([o \in DOMAIN t.chain |-> Sum(times, {p \in paths : LastOf(p) = o})],
                TotalTime, Sum(t.self, paths))
    IN [opTimeExclusive |-> Flat(t.self), opTimeInclusive |-> Flat(spent),
        callpathTimeExclusive |-> t.self, callpathTimeInclusive |-> spent,
        exampleMap |-> spent, callChain |-> [o \in DOMAIN t.chain |-> {t.chain[o]}]]

(* A failure is not mistaken for a result; a file has a name.              *)
ASSUME InputAssumption ==
    /\ NoRoot # Broken /\ EmptyMetrics # Broken
    /\ \A t \in Traces : t # Broken /\ Metrics(t) # Broken
ASSUME ArgsAssumption ==
    \A x \in Args : x.names \in Seq(Seq(STRING) \ {<<>>}) /\ x.names # <<>>

(* What glob finds are different names that end in ".json".                *)
ASSUME GlobAssumption ==
    \A x \in Args : x.given # "file" =>
        \A j, k \in DOMAIN x.names :
            /\ x.names[j] = x.names[k] => j = k
            /\ Len(x.names[j]) > 1 /\ LastOf(x.names[j]) = "json"

(* The spans above one on the critical path are on it, so that a call path *)
(* consists of operations of the trace; none has a name sanitized makes.   *)
(* Where a call path is recorded, its time is. Times are whole numbers.    *)
ASSUME TracesAssumption ==
    /\ TotalTime \notin Int /\ NoRoot \notin Traces
    /\ \A t \in Traces :
          /\ IsFiniteSet(DOMAIN t.chain) /\ \A o \in DOMAIN t.chain : o \notin Int /\ o # TotalTime
          /\ IsFiniteSet(DOMAIN t.self) /\ DOMAIN t.self \subseteq Seq(DOMAIN t.chain) \ {<<>>}
          /\ t.self \in [DOMAIN t.self -> Int] /\ t.chain \in [DOMAIN t.chain -> DOMAIN t.self]

process(f) ==
    IF input[f] = Broken THEN Broken
    ELSE IF input[f] = NoRoot THEN EmptyMetrics
    ELSE Metrics(input[f])

(* Pool.map: files are handed out in order, the workers finish in any      *)
(* order, and each result is kept at the place of its file.                *)
Take(w) ==
    /\ phase = "map" /\ busy[w] = 0 /\ taken < Len(jaegerTraceFiles)
    /\ taken' = taken + 1 /\ busy' = [busy EXCEPT ![w] = taken + 1]
    /\ UNCHANGED <<args, input, phase, metrics, i, saniMap, results, drawn, report>>

(* Fault variants, here and below: what the definition after each would be *)
(* with a slip in the code. They are not part of Next.                     *)
FinishInTurn(w) ==
    /\ phase = "map" /\ busy[w] # 0
    /\ metrics' = Put(metrics, Cardinality(DOMAIN metrics) + 1, process(busy[w]))
    /\ busy' = [busy EXCEPT ![w] = 0]
    /\ UNCHANGED <<args, input, phase, taken, i, saniMap, results, drawn, report>>

Finish(w) ==
    /\ phase = "map" /\ busy[w] # 0
    /\ metrics' = Put(metrics, busy[w], process(busy[w]))
    /\ busy' = [busy EXCEPT ![w] = 0]
    /\ UNCHANGED <<args, input, phase, taken, i, saniMap, results, drawn, report>>

GatherWhatWorked ==
    /\ phase = "map" /\ DOMAIN metrics = Files
    /\ metrics' = [f \in Files |-> IF metrics[f] = Broken THEN EmptyMetrics ELSE metrics[f]]
    /\ phase' = IF args.anonymize THEN "sanitize" ELSE "aggregate"
    /\ UNCHANGED <<args, input, taken, busy, i, saniMap, results, drawn, report>>

(* map returns when every file is done, and raises if process did once.    *)
Gather ==
    /\ phase = "map" /\ DOMAIN metrics = Files
    /\ phase' = IF \E f \in Files : metrics[f] = Broken THEN "failed"
                ELSE IF args.anonymize THEN "sanitize" ELSE "aggregate"
    /\ UNCHANGED <<args, input, taken, busy, metrics, i, saniMap, results, drawn, report>>

-----------------------------------------------------------------------------
Ops(r) == DOMAIN r.opTimeExclusive \cup DOMAIN r.callChain
Renamed(dict, new) ==
    [k \in {new[x] : x \in DOMAIN dict} |-> dict[CHOOSE x \in DOMAIN dict : new[x] = k]]

sanitized(map, r) ==
    LET paths == [p \in DOMAIN r.callpathTimeExclusive |-> [k \in DOMAIN p |-> map[p[k]]]]
        chains == [o \in DOMAIN r.callChain |-> {paths[p] : p \in r.callChain[o]}]
    IN [opTimeExclusive |-> Renamed(r.opTimeExclusive, map),
        opTimeInclusive |-> Renamed(r.opTimeInclusive, map),
        callpathTimeExclusive |-> Renamed(r.callpathTimeExclusive, paths),
        callpathTimeInclusive |-> Renamed(r.callpathTimeInclusive, paths),
        exampleMap |-> Renamed(r.exampleMap, paths),
        callChain |-> Renamed(chains, map)]

(* The names not met before are numbered in the order of the dictionary.   *)
Numberings(known, fresh) ==
    LET n == Cardinality(DOMAIN known) - 1 IN
    {s \in [DOMAIN known \cup fresh -> {TotalTime} \cup 1..(n + Cardinality(fresh))] :
        /\ \A k \in DOMAIN known : s[k] = known[k]
        /\ {s[k] : k \in fresh} = (n + 1)..(n + Cardinality(fresh))}

SanitizeEachAlone ==
    /\ phase = "sanitize" /\ i < Len(jaegerTraceFiles)
    /\ i' = i + 1
    /\ saniMap' \in Numberings([k \in {TotalTime} |-> TotalTime], Ops(metrics[i + 1]) \ {TotalTime})
    /\ metrics' = [metrics EXCEPT ![i + 1] = sanitized(saniMap', @)]
    /\ UNCHANGED <<args, input, phase, taken, busy, results, drawn, report>>

(* One iteration of sanitizeNames, which renames every dictionary of the   *)
(* metrics in place with one map for all traces.                           *)
SanitizeTrace ==
    /\ phase = "sanitize" /\ i < Len(jaegerTraceFiles)
    /\ i' = i + 1
    /\ saniMap' \in Numberings(saniMap, Ops(metrics[i + 1]) \ DOMAIN saniMap)
    /\ metrics' = [metrics EXCEPT ![i + 1] = sanitized(saniMap', @)]
    /\ UNCHANGED <<args, input, phase, taken, busy, results, drawn, report>>

Sanitized ==
    /\ phase = "sanitize" /\ i = Len(jaegerTraceFiles)
    /\ phase' = "aggregate" /\ i' = 0
    /\ UNCHANGED <<args, input, taken, busy, metrics, saniMap, results, drawn, report>>

-----------------------------------------------------------------------------
mergeCallChains(chains, total) ==
    [o \in DOMAIN chains \cup DOMAIN total |->
        (IF o \in DOMAIN total THEN total[o] ELSE {}) \cup
        (IF o \in DOMAIN chains THEN chains[o] ELSE {})]

LatestTimes(chains, times, total) ==
    [o \in DOMAIN chains \cup DOMAIN total |->
        LET old == IF o \in DOMAIN total THEN total[o] ELSE NoKeys
            new == IF o \in DOMAIN chains THEN chains[o] ELSE {}
        IN [p \in DOMAIN old \cup new |-> IF p \in new THEN <<times[p]>> ELSE old[p]]]

mergeCallpathTime(chains, times, total) ==
    [o \in DOMAIN chains \cup DOMAIN total |->
        LET old == IF o \in DOMAIN total THEN total[o] ELSE NoKeys
            new == IF o \in DOMAIN chains THEN chains[o] ELSE {}
        IN [p \in DOMAIN old \cup new |->
              (IF p \in DOMAIN old THEN old[p] ELSE <<>>) \o
              (IF p \in new THEN <<times[p]>> ELSE <<>>)]]

FirstExample(id, local, examples) ==
    [p \in DOMAIN local \cup DOMAIN examples |->
        IF p \in DOMAIN examples THEN examples[p] ELSE <<id, local[p]>>]

mergeExampleID(id, local, examples) ==
    [p \in DOMAIN local \cup DOMAIN examples |->
        IF p \in DOMAIN local /\ (p \in DOMAIN examples => local[p] > examples[p][2])
        THEN <<id, local[p]>>
        ELSE examples[p]]

Merge(summary, id, r, opTime, callpathTime) ==
    [opTime |-> Put(summary.opTime, id, opTime),
     callpathTime |-> mergeCallpathTime(r.callChain, callpathTime, summary.callpathTime),
     exampleMap |-> mergeExampleID(id, r.exampleMap, summary.exampleMap)]

(* One iteration of aggregateMetrics.                                      *)
AggregateTrace ==
    LET r == metrics[i + 1]
        id == getTraceIdFromFilePath(jaegerTraceFiles[i + 1])
    IN
    /\ phase = "aggregate" /\ i < Len(jaegerTraceFiles)
    /\ i' = i + 1
    /\ exclusive' = Merge(exclusive, id, r, r.opTimeExclusive, r.callpathTimeExclusive)
    /\ inclusive' = Merge(inclusive, id, r, r.opTimeInclusive, r.callpathTimeInclusive)
    /\ aggregateCallMap' = mergeCallChains(r.callChain, aggregateCallMap)
    /\ UNCHANGED <<args, input, phase, taken, busy, metrics, saniMap, drawn, report>>

Aggregated ==
    /\ phase = "aggregate" /\ i = Len(jaegerTraceFiles)
    /\ phase' = "flame" /\ i' = 0
    /\ UNCHANGED <<args, input, taken, busy, metrics, saniMap, results, drawn, report>>

-----------------------------------------------------------------------------
Rooted == {f \in Files : TotalTime \in DOMAIN metrics[f].opTimeExclusive}
Total(f) == IF f \in Rooted THEN metrics[f].opTimeExclusive[TotalTime] ELSE 0

(* int(round(n * p / 100)), which rounds halves to even.                   *)
limit(n, p) ==
    LET whole == (n * p) \div 100
        rest == (n * p) % 100
    IN IF rest > 50 \/ (rest = 50 /\ whole % 2 = 1) THEN whole + 1 ELSE whole

(* The place of a trace in a stable sort by total time.                    *)
Rank(f) == Cardinality({g \in Rooted : Total(g) < Total(f) \/ (Total(g) = Total(f) /\ g < f)})
Within(p) == {f \in Rooted : Rank(f) < limit(Cardinality(Rooted), p)}
Double(times) == [p \in DOMAIN times |-> 2 * times[p]]

(* One percentile. The loop variable ccts hides the dictionary the sums    *)
(* are meant for: every call path of a trace is added to itself, in the    *)
(* trace's metrics, and what is drawn are the times of the last trace.     *)
FlameGraph ==
    LET p == Min({q \in Percentiles : q > i})
        last == CHOOSE f \in Within(p) : \A g \in Within(p) : Rank(g) <= Rank(f)
    IN
    /\ phase = "flame" /\ i < Max(Percentiles)
    /\ i' = p
    /\ IF Within(p) = {}
       THEN UNCHANGED <<metrics, drawn>>
       ELSE /\ metrics' = [f \in Files |->
                  IF f \in Within(p)
                  THEN [metrics[f] EXCEPT !.callpathTimeExclusive = Double(@)]
                  ELSE metrics[f]]
            /\ flame' = Put(flame, p, metrics'[last].callpathTimeExclusive)
            /\ diffs' = diffs \cup {<<q, p>> : q \in DOMAIN flame}
    /\ UNCHANGED <<args, input, phase, taken, busy, saniMap, results, report>>

(* check_call raises if flamegraph.pl or difffolded.pl does not succeed.   *)
ToolFails ==
    /\ phase = "flame" /\ i < Max(Percentiles)
    /\ Within(Min({q \in Percentiles : q > i})) # {}
    /\ phase' = "aborted"
    /\ UNCHANGED <<args, input, taken, busy, metrics, i, saniMap, results, drawn, report>>

Drawn ==
    /\ phase = "flame" /\ i = Max(Percentiles)
    /\ phase' = "tables"
    /\ UNCHANGED <<args, input, taken, busy, metrics, i, saniMap, results, drawn, report>>

-----------------------------------------------------------------------------
(* DataFrame.quantile, by linear interpolation, in hundredths.             *)
Quantile(f, S, p) ==
    LET place == (Cardinality(S) - 1) * p
        Nth(k) == CHOOSE v \in {f[x] : x \in S} :
                      /\ Cardinality({x \in S : f[x] < v}) <= k
                      /\ Cardinality({x \in S : f[x] <= v}) > k
        low == Nth(place \div 100)
    IN IF place % 100 = 0 THEN 100 * low
       ELSE 100 * low + (place % 100) * (Nth(place \div 100 + 1) - low)

allOps == DOMAIN aggregateCallMap \cup {TotalTime}

insertInDF(metric) ==
    [o \in allOps |-> [t \in traceIDIndex |->
        IF o \in DOMAIN metric.opTime[t] THEN metric.opTime[t][o] ELSE 0]]

NonZeros(column) == {t \in DOMAIN column : column[t] # 0}

(* The zeros of a column, traces without the operation, are left out.      *)
PVal(df, o, p) ==
    IF NonZeros(df[o]) = {} THEN 0 ELSE Quantile(df[o], NonZeros(df[o]), p)

MedianOfTotal(df, p) == Quantile(df[TotalTime], traceIDIndex, 50)

(* The zeros of traces without a root count for the denominator.           *)
Denominator(df, p) == Quantile(df[TotalTime], traceIDIndex, p)

addPercentileColumns(df) == [p \in Percentiles |-> [o \in allOps |-> PVal(df, o, p)]]

(* The n greatest by f, ties being broken in some order.                   *)
Top(n, S, f) ==
    CHOOSE T \in SUBSET S :
        /\ Cardinality(T) = IF n < Cardinality(S) THEN n ELSE Cardinality(S)
        /\ \A x \in T, y \in S \ T : f[x] >= f[y]

(* Rows and columns, ordered by their totals and cut.                      *)
reindexDescending(df) ==
    [rows |-> Top(args.numOperation, allOps, [o \in allOps |-> Sum(df[o], traceIDIndex)]),
     columns |-> Top(args.numTrace, traceIDIndex, df[TotalTime])]

sum2DCCT(cc) == MapThenSumSet(LAMBDA p : MapThenSumSet(LAMBDA k : cc[p][k], DOMAIN cc[p]), DOMAIN cc)

(* The call paths shown, each with its part of the whole and its example.  *)
getTopNCCTs(cc, n, exampleMap) ==
    LET spent == [p \in DOMAIN cc |-> MapThenSumSet(LAMBDA k : cc[p][k], DOMAIN cc[p])]
    IN [p \in Top(n, DOMAIN cc, spent) |-> <<spent[p], sum2DCCT(cc), exampleMap[p]>>]

addToolTip(rows, summary) ==
    [o \in rows \ {TotalTime} |-> getTopNCCTs(summary.callpathTime[o], 5, summary.exampleMap)]

(* The operations named as contributing most to the percentile, by their   *)
(* percentages, which are all zero if the percentile of the totals is.     *)
getSummaryText(df, p) ==
    Top(args.topN, allOps \ {TotalTime},
        [o \in allOps |-> IF Denominator(df, p) = 0 THEN 0 ELSE PVal(df, o, p)])

HeatmapAndSummary ==
    LET E == insertInDF(exclusive)
        I == insertInDF(inclusive)
        shown == reindexDescending(E)
    IN
    /\ phase = "tables" /\ traceIDIndex \subseteq DOMAIN exclusive.opTime
    /\ report' = [cell |-> E, shown |-> shown,
                  occurrence |-> [o \in allOps |-> Cardinality(NonZeros(E[o]))],
                  exclusive |-> addPercentileColumns(E), inclusive |-> addPercentileColumns(I),
                  denominator |-> [p \in Percentiles |-> Denominator(E, p)],
                  tips |-> <<addToolTip(shown.rows, exclusive), addToolTip(shown.rows, inclusive)>>,
                  summary |-> [p \in Percentiles |-> getSummaryText(E, p)],
                  images |-> DOMAIN flame]
    /\ phase' = "written"
    /\ UNCHANGED <<args, input, taken, busy, metrics, i, saniMap, results, drawn>>

(* A column is looked up under a name that was stored under another.       *)
KeyError ==
    /\ phase = "tables" /\ ~(traceIDIndex \subseteq DOMAIN exclusive.opTime)
    /\ phase' = "failed"
    /\ UNCHANGED <<args, input, taken, busy, metrics, i, saniMap, results, drawn, report>>

Next ==
    \/ CheckArgs
    \/ \E w \in DOMAIN busy : Take(w) \/ Finish(w)
    \/ Gather
    \/ SanitizeTrace \/ Sanitized
    \/ AggregateTrace \/ Aggregated
    \/ FlameGraph \/ ToolFails \/ Drawn
    \/ HeatmapAndSummary \/ KeyError

Spec == Init /\ [][Next]_vars

-----------------------------------------------------------------------------
Written == phase = "written"
NewOp(o) == IF o \in DOMAIN saniMap THEN saniMap[o] ELSE o
NewPath(p) == [k \in DOMAIN p |-> NewOp(p[k])]
Found == {f \in Files : input[f] \in Traces}    \* files with a critical path
True(f) == Metrics(input[f])

(* Every trace's column shows the trace's own times, under the names its   *)
(* operations got, whichever worker finished first; other cells are zero.  *)
HeatmapExact ==
    Written => \A f \in Files :
        LET shown == {o \in allOps : report.cell[o][splitext(jaegerTraceFiles[f])] # 0} IN
        IF f \notin Found THEN shown = {}
        ELSE /\ \A o \in DOMAIN True(f).opTimeExclusive :
                   report.cell[NewOp(o)][splitext(jaegerTraceFiles[f])] = True(f).opTimeExclusive[o]
             /\ shown \subseteq {NewOp(o) : o \in DOMAIN True(f).opTimeExclusive}

(* Behind the tool tip of an operation are, in the order of the files, the *)
(* times of its call paths in the traces that recorded them, which the     *)
(* flame graphs drawn in between leave alone; the example of a call path   *)
(* is a trace in which its span took longest.                              *)
TooltipsExact ==
    Written => \A f \in Found :
        /\ \A o \in DOMAIN input[f].chain :
              LET p == input[f].chain[o]
                  users == {g \in Found : o \in DOMAIN input[g].chain /\ input[g].chain[o] = p}
                  times == exclusive.callpathTime[NewOp(o)][NewPath(p)]
              IN /\ Len(times) = Cardinality(users)
                 /\ \A g \in users :
                       times[Cardinality({h \in users : h <= g})] = input[g].self[p]
        /\ \A p \in DOMAIN input[f].self :
              LET worst == exclusive.exampleMap[NewPath(p)] IN
              /\ worst[2] >= True(f).exampleMap[p]
              /\ \E g \in Found :
                    /\ getTraceIdFromFilePath(jaegerTraceFiles[g]) = worst[1]
                    /\ p \in DOMAIN input[g].self /\ True(g).exampleMap[p] = worst[2]

(* Anonymizing is one renaming for all traces that keeps names apart and   *)
(* leaves none as it was, although it replaces keys in place, trace by     *)
(* trace and dictionary by dictionary.                                     *)
RenamedOnce ==
    /\ \A x, y \in DOMAIN saniMap : saniMap[x] = saniMap[y] => x = y
    /\ \A x \in DOMAIN saniMap : saniMap[x] = x => x = TotalTime
    /\ (phase = "aggregate" /\ args.anonymize) =>
           \A f \in Found : metrics[f] = sanitized(saniMap, True(f))

(* A report is about all of the files, and there is one unless the         *)
(* arguments, a file, a file name or the drawing tool prevents it.         *)
AllOrNothing ==
    /\ Written => \A f \in Files : input[f] # Broken
    /\ phase = "failed" =>
           \/ args.given \in {"none", "both"} \/ args.parallelism < 1
           \/ \E f \in Files : input[f] = Broken \/ Len(jaegerTraceFiles[f]) > 2

(* An operation that took time in every trace has no percentile above the  *)
(* total's: its P50(E)%, P95(E)% and P99(E)% are at most 100 %.            *)
PercentBounded ==
    Written => \A o \in allOps, p \in Percentiles :
        report.occurrence[o] = Cardinality(traceIDIndex)
            => report.exclusive[p][o] <= report.denominator[p]

(* "Produce SVG flame graphs from critical paths for different             *)
(* percentiles": the graph of a percentile adds up, per call path, the     *)
(* traces within it.                                                       *)
FlameGraphSums ==
    \A p \in DOMAIN flame : \A c \in DOMAIN flame[p] :
        flame[p][c] = MapThenSumSet(
            LAMBDA f : LET was == sanitized([o \in Ops(True(f)) |-> NewOp(o)], True(f)) IN
                       IF c \in DOMAIN was.callpathTimeExclusive
                       THEN was.callpathTimeExclusive[c] ELSE 0,
            Within(p))
=============================================================================
