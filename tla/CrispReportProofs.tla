------------------------- MODULE CrispReportProofs -------------------------
(***************************************************************************)
(* For any files, names and number of workers, a report is about all files *)
(* or there is none, a run only fails for the reasons it has, and what the *)
(* report shows of a trace are the trace's own times under its own names.  *)
(*                                                                         *)
(* AllOrNothing speaks of the last phases; the invariant IInv follows,     *)
(* through the phases, what is known of the files (after map returned,     *)
(* none is broken) and of the keys the report looks up (those of the files *)
(* that have been aggregated are there). NamesInv adds the names and the   *)
(* cells of the heat map, TipsInv what the tool tips are made from.        *)
(***************************************************************************)
EXTENDS CrispReport, FiniteSums, SequenceTheorems

Id(f) == getTraceIdFromFilePath(jaegerTraceFiles[f])

Inputs == args \in Args /\ input \in [DOMAIN args.names -> Traces \cup {NoRoot, Broken}]

ResultsKept == phase \in {"args", "map"} => \A f \in DOMAIN metrics : metrics[f] = process(f)

NoneBroken ==
    phase \in {"sanitize", "aggregate", "flame", "tables", "written"} =>
        \A f \in Files : input[f] # Broken

Counting ==
    /\ phase \in {"args", "map"} => i = 0
    /\ phase = "aggregate" => i \in 0..Len(jaegerTraceFiles)

IdsStored ==
    /\ phase = "aggregate" => \A f \in 1..i : Id(f) \in DOMAIN exclusive.opTime
    /\ phase \in {"flame", "tables"} => \A f \in Files : Id(f) \in DOMAIN exclusive.opTime

FailedFor ==
    phase = "failed" =>
        \/ args.given \in {"none", "both"} \/ args.parallelism < 1
        \/ \E f \in Files : input[f] = Broken \/ Len(jaegerTraceFiles[f]) > 2

IInv == Inputs /\ ResultsKept /\ NoneBroken /\ Counting /\ IdsStored /\ FailedFor

(* The file list is a sequence of names, and each of them has an input.    *)
LEMMA FileList ==
    ASSUME Inputs
    PROVE  /\ jaegerTraceFiles \in Seq(Seq(STRING) \ {<<>>})
           /\ Files \subseteq DOMAIN args.names
           /\ \A f \in Files : input[f] \in Traces \cup {NoRoot, Broken}
<1>1. args.names \in Seq(Seq(STRING) \ {<<>>}) /\ Len(args.names) \in Nat /\ Len(args.names) >= 1
  BY ArgsAssumption DEF Inputs
<1>2. CASE args.given = "file"
  <2>1. /\ jaegerTraceFiles = SubSeq(args.names, 1, 1)
        /\ SubSeq(args.names, 1, 1) \in Seq(Seq(STRING) \ {<<>>})
        /\ Len(SubSeq(args.names, 1, 1)) = 1
    BY <1>1, <1>2 DEF jaegerTraceFiles
  <2> QED  BY <1>1, <2>1 DEF Files, Inputs
<1>3. CASE args.given # "file"
  BY <1>1, <1>3 DEF jaegerTraceFiles, Files, Inputs
<1> QED  BY <1>2, <1>3

(* A name in two pieces, or one, is the same up to its first dot and up to *)
(* its last.                                                               *)
LEMMA TwoPieces ==
    ASSUME NEW name \in Seq(STRING) \ {<<>>}, Len(name) <= 2
    PROVE  splitext(name) = getTraceIdFromFilePath(name)
<1>1. Len(name) \in {1, 2}
  <2>1. Len(name) \in Nat /\ (Len(name) = 0 => name = <<>>)
    OBVIOUS
  <2>2. name # <<>> /\ Len(name) <= 2
    OBVIOUS
  <2>3. \A n \in Nat : n <= 2 /\ n # 0 => n \in {1, 2}
    OBVIOUS
  <2> QED  BY <2>1, <2>2, <2>3
<1>2. CASE Len(name) = 1
  BY <1>2 DEF splitext, getTraceIdFromFilePath
<1>3. CASE Len(name) = 2
  BY <1>3 DEF splitext, getTraceIdFromFilePath
<1> QED  BY <1>1, <1>2, <1>3

(* A worker's failure is told from every result.                           *)
LEMMA BrokenOnly ==
    ASSUME Inputs, NEW f \in Files
    PROVE  process(f) = Broken <=> input[f] = Broken
<1>1. input[f] \in Traces \cup {NoRoot, Broken}
  BY FileList
<1>2. CASE input[f] = Broken
  BY <1>2 DEF process
<1>3. CASE input[f] = NoRoot
  BY <1>3, InputAssumption DEF process
<1>4. CASE input[f] \in Traces /\ input[f] # NoRoot
  BY <1>4, InputAssumption DEF process
<1> QED  BY <1>1, <1>2, <1>3, <1>4

(* No step changes the arguments or the files.                             *)
LEMMA SameInputs ==
    ASSUME [Next]_vars
    PROVE  /\ args' = args /\ input' = input
           /\ jaegerTraceFiles' = jaegerTraceFiles /\ Files' = Files
           /\ \A f : process(f)' = process(f)
           /\ \A f : Id(f)' = Id(f)
<1>1. args' = args /\ input' = input
  BY DEF Next, vars, CheckArgs, Take, Finish, Gather, SanitizeTrace, Sanitized, AggregateTrace,
         Aggregated, FlameGraph, ToolFails, Drawn, HeatmapAndSummary, KeyError
<1>2. jaegerTraceFiles' = jaegerTraceFiles
  BY <1>1 DEF jaegerTraceFiles
<1>3. \A f : process(f)' = process(f)
  BY <1>1 DEF process
<1> QED  BY <1>1, <1>2, <1>3 DEF Files, Id

(* At the start nothing is recorded and no counter runs.                   *)
LEMMA InitHolds == Init => IInv
BY DEF Init, IInv, Inputs, ResultsKept, NoneBroken, Counting, IdsStored, FailedFor, NoKeys

(* Each step of the program keeps the invariant; the work is in handing    *)
(* over the workers' results and in storing one more trace.                *)
LEMMA StepHolds == IInv /\ [Next]_vars => IInv'
<1> SUFFICES ASSUME IInv, [Next]_vars PROVE IInv'
  OBVIOUS
<1>same. /\ args' = args /\ input' = input
         /\ jaegerTraceFiles' = jaegerTraceFiles /\ Files' = Files
         /\ \A f : process(f)' = process(f)
         /\ \A f : Id(f)' = Id(f)
  BY SameInputs
<1>len. Len(jaegerTraceFiles) \in Nat /\ Files = 1..Len(jaegerTraceFiles)
  BY FileList DEF IInv, Files
<1>in. Inputs'
  BY <1>same DEF IInv, Inputs
<1>1. CASE CheckArgs
  BY <1>1, <1>same, <1>in DEF IInv, CheckArgs, ResultsKept, NoneBroken, Counting, IdsStored, FailedFor
<1>2. ASSUME NEW w \in DOMAIN busy, Take(w) PROVE IInv'
  BY <1>2, <1>same, <1>in DEF IInv, Take, results, ResultsKept, NoneBroken, Counting, IdsStored, FailedFor
<1>3. ASSUME NEW w \in DOMAIN busy, Finish(w) PROVE IInv'
  <2>1. phase = "map" /\ phase' = "map" /\ metrics' = Put(metrics, busy[w], process(busy[w]))
        /\ i' = i
    BY <1>3 DEF Finish
  <2>2. ResultsKept'
    BY <2>1, <1>same DEF IInv, ResultsKept, Put
  <2> QED  BY <2>1, <2>2, <1>in DEF IInv, NoneBroken, Counting, IdsStored, FailedFor
<1>4. CASE Gather
  <2>1. phase = "map" /\ DOMAIN metrics = Files /\ metrics' = metrics /\ i' = i
    BY <1>4 DEF Gather
  <2>2. \A f \in Files : metrics[f] = Broken <=> input[f] = Broken
    BY <2>1, BrokenOnly DEF IInv, ResultsKept
  <2>3. CASE \E f \in Files : input[f] = Broken
    <3>1. phase' = "failed"
      BY <1>4, <2>2, <2>3 DEF Gather
    <3> QED  BY <2>3, <3>1, <1>same, <1>in
             DEF IInv, ResultsKept, NoneBroken, Counting, IdsStored, FailedFor
  <2>4. CASE \A f \in Files : input[f] # Broken
    <3>1. phase' \in {"sanitize", "aggregate"}
      BY <1>4, <2>2, <2>4 DEF Gather
    <3>2. i' = 0
      BY <2>1 DEF IInv, Counting
    <3> QED  BY <2>4, <3>1, <3>2, <1>same, <1>len, <1>in
             DEF IInv, ResultsKept, NoneBroken, Counting, IdsStored, FailedFor
  <2> QED  BY <2>3, <2>4
<1>5. CASE SanitizeTrace
  BY <1>5, <1>same, <1>in
     DEF IInv, SanitizeTrace, ResultsKept, NoneBroken, Counting, IdsStored, FailedFor
<1>6. CASE Sanitized
  BY <1>6, <1>same, <1>len, <1>in
     DEF IInv, Sanitized, ResultsKept, NoneBroken, Counting, IdsStored, FailedFor
<1>7. CASE AggregateTrace
  <2>1. /\ phase = "aggregate" /\ phase' = "aggregate" /\ i < Len(jaegerTraceFiles) /\ i' = i + 1
        /\ exclusive' = Merge(exclusive, Id(i + 1), metrics[i + 1],
                              metrics[i + 1].opTimeExclusive, metrics[i + 1].callpathTimeExclusive)
    BY <1>7 DEF AggregateTrace, Id
  <2>2. DOMAIN exclusive'.opTime = DOMAIN exclusive.opTime \cup {Id(i + 1)}
    BY <2>1 DEF Merge, Put
  <2>3. Counting'
    BY <2>1, <1>same, <1>len DEF IInv, Counting
  <2>4. \A f \in 1..(i + 1) : Id(f) \in DOMAIN exclusive'.opTime
    BY <2>1, <2>2 DEF IInv, IdsStored, Counting
  <2>5. IdsStored'
    BY <2>1, <2>4, <1>same DEF IdsStored
  <2> QED  BY <2>1, <2>3, <2>5, <1>same, <1>in DEF IInv, ResultsKept, NoneBroken, FailedFor
<1>8. CASE Aggregated
  BY <1>8, <1>same, <1>len, <1>in
     DEF IInv, Aggregated, results, ResultsKept, NoneBroken, Counting, IdsStored, FailedFor
<1>9. CASE FlameGraph
  BY <1>9, <1>same, <1>in
     DEF IInv, FlameGraph, results, ResultsKept, NoneBroken, Counting, IdsStored, FailedFor
<1>10. CASE ToolFails
  BY <1>10, <1>same, <1>in
     DEF IInv, ToolFails, ResultsKept, NoneBroken, Counting, IdsStored, FailedFor
<1>11. CASE Drawn
  BY <1>11, <1>same, <1>in
     DEF IInv, Drawn, results, ResultsKept, NoneBroken, Counting, IdsStored, FailedFor
<1>12. CASE HeatmapAndSummary
  <2>1. phase = "tables" /\ phase' = "written"
    BY <1>12 DEF HeatmapAndSummary
  <2> QED  BY <2>1, <1>same, <1>in DEF IInv, ResultsKept, NoneBroken, Counting, IdsStored, FailedFor
<1>13. CASE KeyError
  <2>1. phase = "tables" /\ phase' = "failed" /\ ~(traceIDIndex \subseteq DOMAIN exclusive.opTime)
    BY <1>13 DEF KeyError
  <2>2. PICK f \in Files : splitext(jaegerTraceFiles[f]) \notin DOMAIN exclusive.opTime
    BY <2>1 DEF traceIDIndex
  <2>3. Id(f) \in DOMAIN exclusive.opTime
    BY <2>1 DEF IInv, IdsStored
  <2>4. jaegerTraceFiles[f] \in Seq(STRING) \ {<<>>}
    BY FileList, <1>len DEF IInv
  <2>5. Len(jaegerTraceFiles[f]) > 2
    BY <2>2, <2>3, <2>4, TwoPieces DEF Id
  <2> QED  BY <2>1, <2>5, <1>same, <1>in
           DEF IInv, ResultsKept, NoneBroken, Counting, IdsStored, FailedFor
<1>14. CASE UNCHANGED vars
  BY <1>14, <1>same, <1>in
     DEF IInv, vars, ResultsKept, NoneBroken, Counting, IdsStored, FailedFor
<1> QED
  BY <1>1, <1>2, <1>3, <1>4, <1>5, <1>6, <1>7, <1>8, <1>9, <1>10, <1>11, <1>12, <1>13, <1>14
     DEF Next

(* However many files and workers there are and in whatever order they are *)
(* done, a report is about all of the files, none of them broken, and a    *)
(* run that fails has a reason in its arguments, its files or their names. *)
THEOREM ReportAllOrNothing == Spec => []AllOrNothing
<1>1. IInv => AllOrNothing
  BY DEF IInv, NoneBroken, FailedFor, AllOrNothing, Written
<1> QED  BY InitHolds, StepHolds, <1>1, PTL DEF Spec

-----------------------------------------------------------------------------
(* Names and cells. The map from old to new names is one to one and only   *)
(* grows, so that what was renamed with it early would be the same now.    *)
OneToOne(f, S) == \A x, y \in S : f[x] = f[y] => x = y
MapOK ==
    /\ IsFiniteSet(DOMAIN saniMap) /\ TotalTime \in DOMAIN saniMap
    /\ saniMap[TotalTime] = TotalTime
    /\ \A x \in DOMAIN saniMap : x \notin Int
    /\ \A x \in DOMAIN saniMap \ {TotalTime} :
          saniMap[x] \in 1..(Cardinality(DOMAIN saniMap) - 1)
    /\ OneToOne(saniMap, DOMAIN saniMap)
    /\ phase \in {"args", "map"} \/ ~args.anonymize => DOMAIN saniMap = {TotalTime}

(* The result for a file under the names it gets.                          *)
Named(f) == IF args.anonymize THEN sanitized(saniMap, process(f)) ELSE process(f)

MetricsOK ==
    /\ phase = "sanitize" =>
         /\ args.anonymize /\ DOMAIN metrics = Files /\ i \in 0..Len(jaegerTraceFiles)
         /\ \A f \in Files : metrics[f] = IF f <= i THEN Named(f) ELSE process(f)
         /\ \A f \in 1..i : Ops(process(f)) \subseteq DOMAIN saniMap
    /\ phase = "aggregate" => \A f \in Files : metrics[f] = Named(f)
    /\ phase \in {"aggregate", "flame", "tables", "written"} /\ args.anonymize =>
         \A f \in Files : Ops(process(f)) \subseteq DOMAIN saniMap

(* The files whose results are in the summary.                             *)
Merged == IF phase \in {"flame", "tables", "written"} THEN Files
          ELSE IF phase = "aggregate" THEN 1..i ELSE {}
OwnIds == \A f, g \in Files : Id(f) = Id(g) => f = g

SummaryOK ==
    phase \in {"args", "map", "sanitize", "aggregate", "flame", "tables", "written"} =>
        /\ DOMAIN exclusive.opTime = {Id(f) : f \in Merged}
        /\ OwnIds => \A f \in Merged : exclusive.opTime[Id(f)] = Named(f).opTimeExclusive
        /\ DOMAIN aggregateCallMap = UNION {DOMAIN Named(f).callChain : f \in Merged}

ReportOK ==
    phase = "written" =>
        /\ traceIDIndex \subseteq DOMAIN exclusive.opTime
        /\ report.cell = insertInDF(exclusive)
        /\ report.exclusive = addPercentileColumns(report.cell)
        /\ report.occurrence = [o \in allOps |-> Cardinality(NonZeros(report.cell[o]))]
        /\ report.denominator = [p \in Percentiles |-> Denominator(report.cell, p)]

NamesInv == IInv /\ MapOK /\ MetricsOK /\ SummaryOK /\ ReportOK

-----------------------------------------------------------------------------
(* Keys that are renamed one to one keep their values.                     *)
LEMMA RenamedIs ==
  ASSUME NEW dict, NEW new, OneToOne(new, DOMAIN dict)
  PROVE  /\ DOMAIN Renamed(dict, new) = {new[x] : x \in DOMAIN dict}
         /\ \A x \in DOMAIN dict : Renamed(dict, new)[new[x]] = dict[x]
<1>1. ASSUME NEW x \in DOMAIN dict PROVE Renamed(dict, new)[new[x]] = dict[x]
  <2> DEFINE y == CHOOSE z \in DOMAIN dict : new[z] = new[x]
  <2>1. y \in DOMAIN dict /\ new[y] = new[x]
    OBVIOUS
  <2>2. y = x
    BY <2>1 DEF OneToOne
  <2>3. Renamed(dict, new)[new[x]] = dict[y]
    BY DEF Renamed
  <2> QED
    BY <2>2, <2>3
<1> QED
  BY <1>1 DEF Renamed

(* Renamings that agree on the keys give the same dictionary.              *)
LEMMA RenamedSame ==
  ASSUME NEW dict, NEW new, NEW other, \A x \in DOMAIN dict : new[x] = other[x],
         OneToOne(new, DOMAIN dict)
  PROVE  Renamed(dict, new) = Renamed(dict, other)
<1> DEFINE A == Renamed(dict, new)
           B == Renamed(dict, other)
<1>1. OneToOne(other, DOMAIN dict)
  BY DEF OneToOne
<1> HIDE DEF A, B
<1>2. /\ DOMAIN A = {new[x] : x \in DOMAIN dict}
      /\ \A x \in DOMAIN dict : A[new[x]] = dict[x]
  <2>1. /\ DOMAIN Renamed(dict, new) = {new[x] : x \in DOMAIN dict}
        /\ \A x \in DOMAIN dict : Renamed(dict, new)[new[x]] = dict[x]
    BY RenamedIs, Zenon
  <2> QED
    BY <2>1 DEF A
<1>3. /\ DOMAIN B = {other[x] : x \in DOMAIN dict}
      /\ \A x \in DOMAIN dict : B[other[x]] = dict[x]
  <2>1. /\ DOMAIN Renamed(dict, other) = {other[x] : x \in DOMAIN dict}
        /\ \A x \in DOMAIN dict : Renamed(dict, other)[other[x]] = dict[x]
    BY <1>1, RenamedIs, Zenon
  <2> QED
    BY <2>1 DEF B
<1>4. A = [k \in DOMAIN A |-> A[k]] /\ B = [k \in DOMAIN B |-> B[k]]
  BY DEF Renamed, A, B
<1>5. DOMAIN A = DOMAIN B /\ \A k \in DOMAIN A : A[k] = B[k]
  BY <1>2, <1>3
<1> QED
  BY <1>4, <1>5 DEF A, B

(* The dictionaries of a trace have its operations for keys, the flat ones *)
(* totalTime as well.                                                      *)
LEMMA MetricsKeys ==
  ASSUME NEW t \in Traces
  PROVE  /\ DOMAIN Metrics(t).opTimeExclusive = DOMAIN t.chain \cup {TotalTime}
         /\ DOMAIN Metrics(t).opTimeInclusive = DOMAIN t.chain \cup {TotalTime}
         /\ DOMAIN Metrics(t).callChain = DOMAIN t.chain
         /\ Metrics(t).callpathTimeExclusive = t.self
BY DEF Metrics, Put

(* The operations of a result are finitely many and no numbers; its flat   *)
(* dictionaries and the call paths have no other keys.                     *)
LEMMA OpsAre ==
  ASSUME Inputs, NEW f \in Files, input[f] # Broken
  PROVE  LET r == process(f) IN
         /\ IsFiniteSet(Ops(r)) /\ \A o \in Ops(r) : o \notin Int
         /\ DOMAIN r.opTimeExclusive \subseteq Ops(r) /\ DOMAIN r.opTimeInclusive \subseteq Ops(r)
         /\ DOMAIN r.callChain \subseteq Ops(r)
         /\ \A p \in DOMAIN r.callpathTimeExclusive : \A k \in DOMAIN p : p[k] \in Ops(r)
<1>1. input[f] \in Traces \cup {NoRoot}
  BY FileList
<1>2. CASE input[f] = NoRoot
  <2>1. process(f) = EmptyMetrics
    BY <1>2 DEF process
  <2>2. Ops(EmptyMetrics) = {} /\ DOMAIN EmptyMetrics.opTimeInclusive = {}
        /\ DOMAIN EmptyMetrics.callpathTimeExclusive = {}
    BY DEF EmptyMetrics, Ops, NoKeys
  <2> QED
    BY <2>1, <2>2, FS_EmptySet DEF Ops
<1>3. CASE input[f] # NoRoot
  <2> DEFINE t == input[f]
  <2>1. t \in Traces /\ process(f) = Metrics(t)
    BY <1>1, <1>3 DEF process
  <2> HIDE DEF t
  <2>2. Ops(Metrics(t)) = DOMAIN t.chain \cup {TotalTime}
    BY <2>1, MetricsKeys DEF Ops
  <2>3. IsFiniteSet(DOMAIN t.chain \cup {TotalTime})
    BY <2>1, TracesAssumption, FS_AddElement
  <2>4. \A p \in DOMAIN t.self : \A k \in DOMAIN p : p[k] \in DOMAIN t.chain
    BY <2>1, TracesAssumption
  <2>5. \A o \in DOMAIN t.chain \cup {TotalTime} : o \notin Int
    BY <2>1, TracesAssumption
  <2> QED
    BY <2>1, <2>2, <2>3, <2>4, <2>5, MetricsKeys
<1> QED
  BY <1>2, <1>3

(* What a result is renamed to depends on the names of its operations.     *)
LEMMA SanitizedSame ==
  ASSUME Inputs, NEW f \in Files, input[f] # Broken, NEW map, NEW other,
         \A o \in Ops(process(f)) : map[o] = other[o],
         OneToOne(map, Ops(process(f)))
  PROVE  sanitized(map, process(f)) = sanitized(other, process(f))
<1> DEFINE r == process(f)
           names(m) == [p \in DOMAIN r.callpathTimeExclusive |-> [k \in DOMAIN p |-> m[p[k]]]]
           chains(m) == [o \in DOMAIN r.callChain |-> {names(m)[p] : p \in r.callChain[o]}]
<1>1. /\ DOMAIN r.opTimeExclusive \subseteq Ops(r) /\ DOMAIN r.opTimeInclusive \subseteq Ops(r)
      /\ DOMAIN r.callChain \subseteq Ops(r)
      /\ \A p \in DOMAIN r.callpathTimeExclusive : \A k \in DOMAIN p : p[k] \in Ops(r)
  BY OpsAre
<1> HIDE DEF r
<1>2. names(map) = names(other)
  <2>1. \A p \in DOMAIN r.callpathTimeExclusive : \A k \in DOMAIN p : map[p[k]] = other[p[k]]
    BY <1>1 DEF r
  <2> QED
    BY <2>1
<1>3. chains(map) = chains(other)
  <2> HIDE DEF names
  <2> QED
    BY <1>2, Zenon
<1>4. /\ Renamed(r.opTimeExclusive, map) = Renamed(r.opTimeExclusive, other)
      /\ Renamed(r.opTimeInclusive, map) = Renamed(r.opTimeInclusive, other)
  <2>1. /\ OneToOne(map, DOMAIN r.opTimeExclusive) /\ OneToOne(map, DOMAIN r.opTimeInclusive)
        /\ \A x \in DOMAIN r.opTimeExclusive : map[x] = other[x]
        /\ \A x \in DOMAIN r.opTimeInclusive : map[x] = other[x]
    BY <1>1 DEF r, OneToOne
  <2> QED
    BY <2>1, RenamedSame
<1>5. Renamed(chains(map), map) = Renamed(chains(map), other)
  <2> DEFINE c == chains(map)
  <2>1. DOMAIN c \subseteq Ops(r)
    BY <1>1
  <2> HIDE DEF c
  <2>2. \A o \in DOMAIN c : map[o] = other[o]
    BY <2>1 DEF r
  <2>3. OneToOne(map, DOMAIN c)
    BY <2>1 DEF r, OneToOne
  <2>4. Renamed(c, map) = Renamed(c, other)
    BY <2>2, <2>3, RenamedSame
  <2> QED
    BY <2>4 DEF c
<1>6. \A m : sanitized(m, r) =
        [opTimeExclusive |-> Renamed(r.opTimeExclusive, m),
         opTimeInclusive |-> Renamed(r.opTimeInclusive, m),
         callpathTimeExclusive |-> Renamed(r.callpathTimeExclusive, names(m)),
         callpathTimeInclusive |-> Renamed(r.callpathTimeInclusive, names(m)),
         exampleMap |-> Renamed(r.exampleMap, names(m)),
         callChain |-> Renamed(chains(m), m)]
  BY DEF sanitized
<1> HIDE DEF names, chains
<1>7. sanitized(map, r) = sanitized(other, r)
  BY <1>2, <1>3, <1>4, <1>5, <1>6
<1> QED
  BY <1>7 DEF r

(* New names are numbered one to one, above all the numbers there were.    *)
LEMMA Numbered ==
  ASSUME NEW known, NEW fresh, IsFiniteSet(DOMAIN known), IsFiniteSet(fresh),
         fresh \cap DOMAIN known = {}, TotalTime \in DOMAIN known, known[TotalTime] = TotalTime,
         \A x \in DOMAIN known \ {TotalTime} : known[x] \in 1..(Cardinality(DOMAIN known) - 1),
         OneToOne(known, DOMAIN known), NEW s \in Numberings(known, fresh)
  PROVE  /\ DOMAIN s = DOMAIN known \cup fresh /\ IsFiniteSet(DOMAIN s)
         /\ \A x \in DOMAIN known : s[x] = known[x]
         /\ \A x \in DOMAIN s \ {TotalTime} : s[x] \in 1..(Cardinality(DOMAIN s) - 1)
         /\ OneToOne(s, DOMAIN s)
<1> DEFINE D == DOMAIN known
           n == Cardinality(D) - 1
           c == Cardinality(fresh)
<1>1. n \in Nat /\ c \in Nat
  <2>1. Cardinality(D) \in Nat /\ c \in Nat /\ D # {}
    BY FS_CardinalityType
  <2>2. Cardinality(D) # 0
    BY <2>1, FS_EmptySet
  <2> QED
    BY <2>1, <2>2
<1>2. IsFiniteSet(D \cup fresh) /\ Cardinality(D \cup fresh) = n + 1 + c
  <2>1. D \cap fresh = {}
    OBVIOUS
  <2>2. IsFiniteSet(D \cup fresh)
        /\ Cardinality(D \cup fresh) = Cardinality(D) + c - Cardinality(D \cap fresh)
    BY FS_Union
  <2>3. Cardinality(D \cap fresh) = 0 /\ Cardinality(D) \in Nat
    BY <2>1, FS_EmptySet, FS_CardinalityType
  <2> QED
    BY <2>2, <2>3, <1>1
<1>3. /\ DOMAIN s = D \cup fresh
      /\ \A x \in D : s[x] = known[x]
      /\ {s[k] : k \in fresh} = (n + 1)..(n + c)
  BY DEF Numberings
<1>4. \A x, y \in fresh : s[x] = s[y] => x = y
  <2> DEFINE f == [k \in fresh |-> s[k]]
             T == (n + 1)..(n + c)
  <2>1. Cardinality(T) = c
    <3>1. n + 1 \in Int /\ n + c \in Int
      BY <1>1
    <3>2. Cardinality(T) = IF n + 1 > n + c THEN 0 ELSE (n + c) - (n + 1) + 1
      BY <3>1, FS_Interval
    <3> QED
      BY <3>2, <1>1
  <2>2. f \in Surjection(fresh, T)
    <3>1. \A k \in fresh : s[k] \in T
      BY <1>3
    <3>2. \A t \in T : \E k \in fresh : s[k] = t
      BY <1>3
    <3> QED
      BY <3>1, <3>2 DEF Surjection
  <2> HIDE DEF f, T
  <2>3. f \in Injection(fresh, T)
    BY <2>1, <2>2, FS_SurjSameCardinalityImpliesInj
  <2> QED
    BY <2>3 DEF Injection, IsInjective, f
<1>5. \A x \in D \ {TotalTime} : s[x] \in 1..n
  BY <1>3
<1>6. \A x \in fresh : s[x] \in (n + 1)..(n + c)
  BY <1>3
<1>7. s[TotalTime] = TotalTime /\ TotalTime \notin Int
  BY <1>3, TracesAssumption
<1> HIDE DEF n, c, D
<1>8. \A x \in DOMAIN s \ {TotalTime} : s[x] \in 1..(n + c)
  BY <1>1, <1>3, <1>5, <1>6
<1>9. OneToOne(s, DOMAIN s)
  <2> SUFFICES ASSUME NEW x \in D \cup fresh, NEW y \in D \cup fresh, s[x] = s[y] PROVE x = y
    BY <1>3 DEF OneToOne
  <2>1. CASE x \in D /\ y \in D
    BY <2>1, <1>3 DEF OneToOne, D
  <2>2. CASE x \in fresh /\ y \in fresh
    BY <2>2, <1>4
  <2>3. \A u \in D, v \in fresh : s[u] # s[v]
    <3> SUFFICES ASSUME NEW u \in D, NEW v \in fresh, s[u] = s[v] PROVE FALSE
      OBVIOUS
    <3>1. CASE u = TotalTime
      BY <3>1, <1>1, <1>6, <1>7
    <3>2. CASE u # TotalTime
      BY <3>2, <1>1, <1>5, <1>6
    <3> QED
      BY <3>1, <3>2
  <2> QED
    BY <2>1, <2>2, <2>3
<1>10. Cardinality(DOMAIN s) - 1 = n + c
  BY <1>1, <1>2, <1>3
<1> QED
  BY <1>2, <1>3, <1>8, <1>9, <1>10 DEF D

(* At the start there are no names but that of the total.                  *)
LEMMA InitNames == Init => NamesInv
<1> SUFFICES ASSUME Init PROVE NamesInv
  OBVIOUS
<1> USE DEF Init
<1>1. IInv
  BY InitHolds
<1>2. MapOK
  <2>1. DOMAIN saniMap = {TotalTime} /\ saniMap[TotalTime] = TotalTime
    OBVIOUS
  <2> QED
    BY <2>1, FS_Singleton, TracesAssumption DEF MapOK, OneToOne
<1>3. MetricsOK /\ ReportOK
  BY DEF MetricsOK, ReportOK
<1>4. SummaryOK
  <2>1. Merged = {} /\ DOMAIN exclusive.opTime = {} /\ DOMAIN aggregateCallMap = {}
    BY DEF Merged, NoKeys
  <2> QED
    BY <2>1 DEF SummaryOK
<1> QED
  BY <1>1, <1>2, <1>3, <1>4 DEF NamesInv

(* What is read off the inputs and the map of names stays with them.       *)
LEMMA SameNames ==
  ASSUME [Next]_vars, saniMap' = saniMap
  PROVE  /\ \A f : Named(f)' = Named(f)
         /\ OwnIds' = OwnIds
<1>1. args' = args /\ Files' = Files /\ (\A f : process(f)' = process(f)) /\ \A f : Id(f)' = Id(f)
  BY SameInputs
<1>2. \A f : Named(f)' = Named(f)
  BY <1>1 DEF Named
<1> QED
  BY <1>1, <1>2 DEF OwnIds

(* While nothing has been merged the summary is empty.                     *)
LEMMA NothingMerged ==
  ASSUME SummaryOK, Merged = {},
         phase \in {"args", "map", "sanitize", "aggregate", "flame", "tables", "written"}
  PROVE  DOMAIN exclusive.opTime = {} /\ DOMAIN aggregateCallMap = {}
<1>1. /\ DOMAIN exclusive.opTime = {Id(f) : f \in Merged}
      /\ DOMAIN aggregateCallMap = UNION {DOMAIN Named(f).callChain : f \in Merged}
  BY DEF SummaryOK
<1>2. {Id(f) : f \in Merged} = {} /\ UNION {DOMAIN Named(f).callChain : f \in Merged} = {}
  OBVIOUS
<1> QED
  BY <1>1, <1>2

(* Before the results are gathered there are no names to keep.             *)
LEMMA NamesBeforeGather ==
  ASSUME NamesInv, [Next]_vars, UNCHANGED <<saniMap, results>>,
         phase \in {"args", "map"}, phase' \in {"args", "map", "failed"}
  PROVE  NamesInv'
<1>1. args' = args
  BY SameInputs
<1>2. MapOK'
  BY <1>1 DEF NamesInv, MapOK
<1>3. MetricsOK' /\ ReportOK'
  BY DEF MetricsOK, ReportOK
<1>4. SummaryOK'
  <2>1. Merged = {} /\ Merged' = {}
    BY DEF Merged
  <2>2. DOMAIN exclusive.opTime = {} /\ DOMAIN aggregateCallMap = {}
    BY <2>1, NothingMerged DEF NamesInv
  <2>3. DOMAIN exclusive'.opTime = {} /\ DOMAIN aggregateCallMap' = {}
    BY <2>2 DEF results
  <2> QED
    BY <2>1, <2>3 DEF SummaryOK
<1> QED
  BY <1>2, <1>3, <1>4, StepHolds DEF NamesInv

(* After a run has failed nothing is claimed but the map.                  *)
LEMMA NamesAfterFailure ==
  ASSUME NamesInv, [Next]_vars, saniMap' = saniMap, phase \notin {"args", "map"},
         phase' \in {"failed", "aborted"}
  PROVE  NamesInv'
<1>1. args' = args
  BY SameInputs
<1>2. MapOK'
  BY <1>1 DEF NamesInv, MapOK
<1>3. MetricsOK' /\ ReportOK' /\ SummaryOK'
  BY DEF MetricsOK, ReportOK, SummaryOK
<1> QED
  BY <1>2, <1>3, StepHolds DEF NamesInv

(* Gathering the results.                                                  *)
LEMMA GatherNames == NamesInv /\ Gather => NamesInv'
<1> SUFFICES ASSUME NamesInv, Gather PROVE NamesInv'
  OBVIOUS
<1>0. [Next]_vars /\ UNCHANGED <<saniMap, results, metrics, i>> /\ phase = "map"
      /\ phase' \in {"failed", "sanitize", "aggregate"} /\ DOMAIN metrics = Files
      /\ (phase' = "sanitize" => args.anonymize) /\ (phase' = "aggregate" => ~args.anonymize)
  BY DEF Gather, Next
<1>1. /\ args' = args /\ jaegerTraceFiles' = jaegerTraceFiles /\ Files' = Files
      /\ (\A f : process(f)' = process(f)) /\ (\A f : Named(f)' = Named(f))
  BY <1>0, SameInputs, SameNames
<1>2. i = 0 /\ \A f \in Files : metrics[f] = process(f)
  BY <1>0 DEF NamesInv, IInv, Counting, ResultsKept
<1>3. CASE phase' = "failed"
  BY <1>0, <1>3, NamesBeforeGather
<1>4. CASE phase' # "failed"
  <2>1. MapOK'
    BY <1>0, <1>1 DEF NamesInv, MapOK
  <2>2. MetricsOK'
    <3>1. Len(jaegerTraceFiles) \in Nat /\ Files = 1..Len(jaegerTraceFiles)
      BY FileList DEF NamesInv, IInv, Files
    <3>2. CASE phase' = "sanitize"
      <4>1. \A f \in Files : ~(f <= 0)
        BY <3>1
      <4>2. 1..i' = {} /\ i' \in 0..Len(jaegerTraceFiles)
        BY <1>0, <1>2, <3>1
      <4> QED
        BY <4>1, <4>2, <3>2, <1>0, <1>1, <1>2 DEF MetricsOK
    <3>3. CASE phase' = "aggregate"
      <4>1. ~args.anonymize
        BY <1>0, <3>3
      <4>2. \A f : Named(f) = process(f)
        BY <4>1 DEF Named
      <4> QED
        BY <4>1, <4>2, <3>3, <1>0, <1>1, <1>2 DEF MetricsOK
    <3> QED
      BY <3>2, <3>3, <1>0, <1>4
  <2>3. SummaryOK'
    <3>1. Merged = {} /\ Merged' = {}
      BY <1>0, <1>2 DEF Merged
    <3>2. DOMAIN exclusive.opTime = {} /\ DOMAIN aggregateCallMap = {}
      BY <3>1, <1>0, NothingMerged DEF NamesInv
    <3>3. DOMAIN exclusive'.opTime = {} /\ DOMAIN aggregateCallMap' = {}
      BY <3>2, <1>0 DEF results
    <3> QED
      BY <3>1, <3>3 DEF SummaryOK
  <2>4. ReportOK'
    BY <1>0 DEF ReportOK
  <2> QED
    BY <2>1, <2>2, <2>3, <2>4, <1>0, StepHolds DEF NamesInv
<1> QED
  BY <1>3, <1>4

(* Renaming one result and leaving those before it as they are.            *)
LEMMA SanitizeNames == NamesInv /\ SanitizeTrace => NamesInv'
<1> SUFFICES ASSUME NamesInv, SanitizeTrace PROVE NamesInv'
  OBVIOUS
<1> DEFINE fresh == Ops(metrics[i + 1]) \ DOMAIN saniMap
<1>0. /\ [Next]_vars /\ UNCHANGED results /\ phase = "sanitize" /\ phase' = "sanitize"
      /\ i < Len(jaegerTraceFiles) /\ i' = i + 1
      /\ saniMap' \in Numberings(saniMap, fresh)
      /\ metrics' = [metrics EXCEPT ![i + 1] = sanitized(saniMap', @)]
  BY DEF SanitizeTrace, Next
<1>1. /\ args' = args /\ jaegerTraceFiles' = jaegerTraceFiles /\ Files' = Files
      /\ \A f : process(f)' = process(f)
  BY <1>0, SameInputs
<1>2. /\ args.anonymize /\ DOMAIN metrics = Files /\ i \in Nat
      /\ Len(jaegerTraceFiles) \in Nat /\ Files = 1..Len(jaegerTraceFiles)
      /\ i + 1 \in Files /\ metrics[i + 1] = process(i + 1)
  <2>1. Len(jaegerTraceFiles) \in Nat /\ Files = 1..Len(jaegerTraceFiles)
    BY FileList DEF NamesInv, IInv, Files
  <2>2. /\ args.anonymize /\ DOMAIN metrics = Files /\ i \in 0..Len(jaegerTraceFiles)
        /\ \A f \in Files : metrics[f] = IF f <= i THEN Named(f) ELSE process(f)
    BY <1>0 DEF NamesInv, MetricsOK
  <2>3. i + 1 \in Files /\ ~(i + 1 <= i)
    BY <2>1, <2>2, <1>0
  <2> QED
    BY <2>1, <2>2, <2>3
<1>3. \A f \in Files : input[f] # Broken
  BY <1>0 DEF NamesInv, IInv, NoneBroken
<1>4. IsFiniteSet(Ops(process(i + 1))) /\ \A o \in Ops(process(i + 1)) : o \notin Int
  BY <1>2, <1>3, OpsAre DEF NamesInv, IInv
<1>5. /\ DOMAIN saniMap' = DOMAIN saniMap \cup fresh /\ IsFiniteSet(DOMAIN saniMap')
      /\ \A x \in DOMAIN saniMap : saniMap'[x] = saniMap[x]
      /\ \A x \in DOMAIN saniMap' \ {TotalTime} :
            saniMap'[x] \in 1..(Cardinality(DOMAIN saniMap') - 1)
      /\ OneToOne(saniMap', DOMAIN saniMap')
  <2>1. IsFiniteSet(fresh) /\ fresh \cap DOMAIN saniMap = {}
    BY <1>2, <1>4, FS_Subset
  <2>2. /\ IsFiniteSet(DOMAIN saniMap) /\ TotalTime \in DOMAIN saniMap
        /\ saniMap[TotalTime] = TotalTime
        /\ \A x \in DOMAIN saniMap \ {TotalTime} :
              saniMap[x] \in 1..(Cardinality(DOMAIN saniMap) - 1)
        /\ OneToOne(saniMap, DOMAIN saniMap)
    BY DEF NamesInv, MapOK
  <2> DEFINE s == saniMap'
  <2>3. s \in Numberings(saniMap, fresh)
    BY <1>0
  <2> HIDE DEF fresh, s
  <2>4. /\ DOMAIN s = DOMAIN saniMap \cup fresh /\ IsFiniteSet(DOMAIN s)
        /\ \A x \in DOMAIN saniMap : s[x] = saniMap[x]
        /\ \A x \in DOMAIN s \ {TotalTime} : s[x] \in 1..(Cardinality(DOMAIN s) - 1)
        /\ OneToOne(s, DOMAIN s)
    BY <2>1, <2>2, <2>3, Numbered
  <2> QED
    BY <2>4 DEF s
<1>6. MapOK'
  <2>1. \A x \in DOMAIN saniMap' : x \notin Int
    BY <1>2, <1>4, <1>5 DEF NamesInv, MapOK
  <2>2. TotalTime \in DOMAIN saniMap' /\ saniMap'[TotalTime] = TotalTime
    BY <1>5 DEF NamesInv, MapOK
  <2> QED
    BY <2>1, <2>2, <1>0, <1>1, <1>2, <1>5 DEF MapOK
<1>7. \A f \in 1..(i + 1) : Ops(process(f)) \subseteq DOMAIN saniMap'
  <2> SUFFICES ASSUME NEW f \in 1..(i + 1) PROVE Ops(process(f)) \subseteq DOMAIN saniMap'
    OBVIOUS
  <2>1. CASE f = i + 1
    BY <2>1, <1>2, <1>5
  <2>2. CASE f # i + 1
    <3>1. f \in 1..i
      BY <2>2, <1>2
    <3> QED
      BY <3>1, <1>0, <1>5 DEF NamesInv, MetricsOK
  <2> QED
    BY <2>1, <2>2
<1>8. ASSUME NEW f \in Files
      PROVE  metrics'[f] = IF f <= i + 1 THEN sanitized(saniMap', process(f)) ELSE process(f)
  <2>1. metrics[f] = IF f <= i THEN Named(f) ELSE process(f)
    BY <1>0 DEF NamesInv, MetricsOK
  <2>2. CASE f = i + 1
    BY <2>2, <1>0, <1>2
  <2>3. CASE f > i + 1
    BY <2>3, <2>1, <1>0, <1>2
  <2>4. CASE f < i + 1
    <3>1. f \in 1..i /\ metrics'[f] = metrics[f] /\ f <= i /\ f <= i + 1
      BY <2>4, <1>0, <1>2
    <3>2. metrics[f] = sanitized(saniMap, process(f))
      BY <3>1, <2>1, <1>2 DEF Named
    <3>3. Ops(process(f)) \subseteq DOMAIN saniMap
      BY <3>1, <1>0 DEF NamesInv, MetricsOK
    <3>4. OneToOne(saniMap, Ops(process(f)))
      BY <3>3 DEF NamesInv, MapOK, OneToOne
    <3>5. \A o \in Ops(process(f)) : saniMap[o] = saniMap'[o]
      BY <3>3, <1>5
    <3> DEFINE s == saniMap'
    <3>6. \A o \in Ops(process(f)) : saniMap[o] = s[o]
      BY <3>5
    <3> HIDE DEF s
    <3>7. sanitized(saniMap, process(f)) = sanitized(s, process(f))
      BY <3>4, <3>6, <1>3, SanitizedSame DEF NamesInv, IInv
    <3> QED
      BY <3>1, <3>2, <3>7 DEF s
  <2> QED
    BY <2>2, <2>3, <2>4, <1>2
<1>9. MetricsOK'
  <2>1. \A f : Named(f)' = sanitized(saniMap', process(f))
    BY <1>1, <1>2 DEF Named
  <2>2. DOMAIN metrics' = Files /\ i' \in 0..Len(jaegerTraceFiles)
    BY <1>0, <1>2
  <2>3. \A f \in Files : metrics'[f] = IF f <= i' THEN Named(f)' ELSE process(f)
    BY <2>1, <1>8, <1>0
  <2> QED
    BY <2>2, <2>3, <1>0, <1>1, <1>2, <1>7 DEF MetricsOK
<1>10. SummaryOK' /\ ReportOK'
  <2>1. Merged = {} /\ Merged' = {}
    BY <1>0 DEF Merged
  <2>2. DOMAIN exclusive.opTime = {} /\ DOMAIN aggregateCallMap = {}
    BY <2>1, <1>0, NothingMerged DEF NamesInv
  <2>3. DOMAIN exclusive'.opTime = {} /\ DOMAIN aggregateCallMap' = {}
    BY <2>2, <1>0 DEF results
  <2> QED
    BY <2>1, <2>3, <1>0 DEF SummaryOK, ReportOK
<1> QED
  BY <1>0, <1>6, <1>9, <1>10, StepHolds DEF NamesInv

(* When every result has been renamed the merging begins, with none.       *)
LEMMA SanitizedNames == NamesInv /\ Sanitized => NamesInv'
<1> SUFFICES ASSUME NamesInv, Sanitized PROVE NamesInv'
  OBVIOUS
<1>0. /\ [Next]_vars /\ UNCHANGED <<saniMap, results, metrics>> /\ phase = "sanitize"
      /\ phase' = "aggregate" /\ i = Len(jaegerTraceFiles) /\ i' = 0
  BY DEF Sanitized, Next
<1>1. /\ args' = args /\ jaegerTraceFiles' = jaegerTraceFiles /\ Files' = Files
      /\ (\A f : process(f)' = process(f)) /\ (\A f : Named(f)' = Named(f))
  BY <1>0, SameInputs, SameNames
<1>2. /\ args.anonymize /\ \A f \in Files : metrics[f] = Named(f)
      /\ \A f \in Files : Ops(process(f)) \subseteq DOMAIN saniMap
  <2>1. Len(jaegerTraceFiles) \in Nat /\ Files = 1..Len(jaegerTraceFiles)
    BY FileList DEF NamesInv, IInv, Files
  <2>2. /\ args.anonymize
        /\ \A f \in Files : metrics[f] = IF f <= i THEN Named(f) ELSE process(f)
        /\ \A f \in 1..i : Ops(process(f)) \subseteq DOMAIN saniMap
    BY <1>0 DEF NamesInv, MetricsOK
  <2>3. \A f \in Files : f <= i /\ f \in 1..i
    BY <2>1, <1>0
  <2> QED
    BY <2>2, <2>3
<1>3. MapOK'
  BY <1>0, <1>1 DEF NamesInv, MapOK
<1>4. MetricsOK'
  BY <1>0, <1>1, <1>2 DEF MetricsOK
<1>5. SummaryOK'
  <2>1. Merged = {} /\ Merged' = {}
    BY <1>0 DEF Merged
  <2>2. DOMAIN exclusive.opTime = {} /\ DOMAIN aggregateCallMap = {}
    BY <2>1, <1>0, NothingMerged DEF NamesInv
  <2>3. DOMAIN exclusive'.opTime = {} /\ DOMAIN aggregateCallMap' = {}
    BY <2>2, <1>0 DEF results
  <2> QED
    BY <2>1, <2>3 DEF SummaryOK
<1>6. ReportOK'
  BY <1>0 DEF ReportOK
<1> QED
  BY <1>0, <1>3, <1>4, <1>5, <1>6, StepHolds DEF NamesInv

(* Merging one result adds its operations, and its times under its name.   *)
LEMMA AggregateNames == NamesInv /\ AggregateTrace => NamesInv'
<1> SUFFICES ASSUME NamesInv, AggregateTrace PROVE NamesInv'
  OBVIOUS
<1>0. /\ [Next]_vars /\ UNCHANGED <<saniMap, metrics>> /\ phase = "aggregate"
      /\ phase' = "aggregate" /\ i < Len(jaegerTraceFiles) /\ i' = i + 1
      /\ exclusive'.opTime = Put(exclusive.opTime, Id(i + 1), metrics[i + 1].opTimeExclusive)
      /\ aggregateCallMap' = mergeCallChains(metrics[i + 1].callChain, aggregateCallMap)
  BY DEF AggregateTrace, Next, Merge, Id
<1>1. /\ args' = args /\ jaegerTraceFiles' = jaegerTraceFiles /\ Files' = Files
      /\ (\A f : process(f)' = process(f)) /\ (\A f : Named(f)' = Named(f))
      /\ (\A f : Id(f)' = Id(f)) /\ OwnIds' = OwnIds
  BY <1>0, SameInputs, SameNames
<1>2. /\ i \in Nat /\ i + 1 \in Files /\ 1..i \subseteq Files /\ i + 1 \notin 1..i
      /\ 1..(i + 1) = (1..i) \cup {i + 1}
  <2>1. Len(jaegerTraceFiles) \in Nat /\ Files = 1..Len(jaegerTraceFiles)
    BY FileList DEF NamesInv, IInv, Files
  <2>2. i \in 0..Len(jaegerTraceFiles)
    BY <1>0 DEF NamesInv, IInv, Counting
  <2> QED
    BY <2>1, <2>2, <1>0
<1>3. metrics[i + 1] = Named(i + 1)
  BY <1>0, <1>2 DEF NamesInv, MetricsOK
<1>4. MapOK' /\ MetricsOK' /\ ReportOK'
  BY <1>0, <1>1 DEF NamesInv, MapOK, MetricsOK, ReportOK
<1> DEFINE before == 1..i
<1>5. Merged = before /\ Merged' = before \cup {i + 1}
  BY <1>0, <1>2 DEF Merged
<1>6. /\ DOMAIN exclusive.opTime = {Id(f) : f \in before}
      /\ OwnIds => \A f \in before : exclusive.opTime[Id(f)] = Named(f).opTimeExclusive
      /\ DOMAIN aggregateCallMap = UNION {DOMAIN Named(f).callChain : f \in before}
  BY <1>0, <1>5 DEF NamesInv, SummaryOK
<1>7. DOMAIN exclusive'.opTime = {Id(f) : f \in before \cup {i + 1}}
  <2>1. DOMAIN exclusive'.opTime = DOMAIN exclusive.opTime \cup {Id(i + 1)}
    BY <1>0 DEF Put
  <2> HIDE DEF before
  <2> QED
    BY <2>1, <1>6
<1>8. ASSUME OwnIds, NEW f \in before \cup {i + 1}
      PROVE  exclusive'.opTime[Id(f)] = Named(f).opTimeExclusive
  <2> DEFINE new == metrics[i + 1].opTimeExclusive
           old == exclusive.opTime
           id == Id(i + 1)
  <2>0. /\ Put(old, id, new)[id] = new
        /\ \A k \in DOMAIN old \ {id} : Put(old, id, new)[k] = old[k]
    <3> HIDE DEF old, id, new
    <3> QED
      BY DEF Put
  <2>1. CASE f = i + 1
    <3>1. new = Named(f).opTimeExclusive
      BY <2>1, <1>3
    <3>2. exclusive'.opTime[Id(f)] = new
      BY <2>0, <2>1, <1>0
    <3> QED
      BY <3>1, <3>2
  <2>2. CASE f \in before
    <3>1. Id(f) # Id(i + 1)
      BY <2>2, <1>2, <1>8 DEF OwnIds
    <3>2. Id(f) \in DOMAIN exclusive.opTime
      BY <2>2, <1>6
    <3>3. exclusive'.opTime[Id(f)] = exclusive.opTime[Id(f)]
      BY <3>1, <3>2, <1>0, <2>0
    <3> QED
      BY <3>3, <2>2, <1>6, <1>8
  <2> QED
    BY <2>1, <2>2
<1>9. DOMAIN aggregateCallMap' = UNION {DOMAIN Named(f).callChain : f \in before \cup {i + 1}}
  <2>1. DOMAIN aggregateCallMap' = DOMAIN aggregateCallMap \cup DOMAIN Named(i + 1).callChain
    BY <1>0, <1>3 DEF mergeCallChains
  <2> HIDE DEF before
  <2> QED
    BY <2>1, <1>6
<1>10. SummaryOK'
  <2> HIDE DEF before
  <2>1. {Id(f) : f \in Merged}' = {Id(f) : f \in before \cup {i + 1}}
    BY <1>1, <1>5
  <2>2. (UNION {DOMAIN Named(f).callChain : f \in Merged})'
            = UNION {DOMAIN Named(f).callChain : f \in before \cup {i + 1}}
    BY <1>1, <1>5
  <2>3. OwnIds' => \A f \in Merged' : (exclusive.opTime[Id(f)] = Named(f).opTimeExclusive)'
    BY <1>1, <1>5, <1>8
  <2> QED
    BY <2>1, <2>2, <2>3, <1>7, <1>9 DEF SummaryOK
<1> QED
  BY <1>0, <1>4, <1>10, StepHolds DEF NamesInv

(* From then on the summary stays, and the report is computed from it.     *)
LEMMA SummaryStays ==
  ASSUME NamesInv, [Next]_vars, UNCHANGED <<saniMap, exclusive, aggregateCallMap>>,
         Merged' = Merged,
         phase \in {"aggregate", "flame", "tables", "written"},
         phase' \in {"flame", "tables", "written"}
  PROVE  MapOK' /\ MetricsOK' /\ SummaryOK'
<1>1. /\ args' = args /\ jaegerTraceFiles' = jaegerTraceFiles /\ Files' = Files
      /\ (\A f : process(f)' = process(f)) /\ (\A f : Named(f)' = Named(f))
      /\ (\A f : Id(f)' = Id(f)) /\ OwnIds' = OwnIds
  BY SameInputs, SameNames
<1>2. MapOK'
  BY <1>1 DEF NamesInv, MapOK
<1>3. MetricsOK'
  BY <1>1 DEF NamesInv, MetricsOK
<1>4. SummaryOK'
  <2>1. {Id(f) : f \in Merged}' = {Id(f) : f \in Merged}
    BY <1>1
  <2>2. (UNION {DOMAIN Named(f).callChain : f \in Merged})'
            = UNION {DOMAIN Named(f).callChain : f \in Merged}
    BY <1>1
  <2>3. /\ DOMAIN exclusive.opTime = {Id(f) : f \in Merged}
        /\ OwnIds => \A f \in Merged : exclusive.opTime[Id(f)] = Named(f).opTimeExclusive
        /\ DOMAIN aggregateCallMap = UNION {DOMAIN Named(f).callChain : f \in Merged}
    BY DEF NamesInv, SummaryOK
  <2>4. OwnIds' => \A f \in Merged' : (exclusive.opTime[Id(f)] = Named(f).opTimeExclusive)'
    BY <1>1, <2>3
  <2> QED
    BY <2>1, <2>2, <2>3, <2>4 DEF SummaryOK
<1> QED
  BY <1>2, <1>3, <1>4

(* Every step keeps what is known of names and cells.                      *)
LEMMA NextNames == NamesInv /\ [Next]_vars => NamesInv'
<1> SUFFICES ASSUME NamesInv, [Next]_vars PROVE NamesInv'
  OBVIOUS
<1>iinv. IInv'
  BY StepHolds DEF NamesInv
<1>len. Len(jaegerTraceFiles) \in Nat /\ Files = 1..Len(jaegerTraceFiles) /\ Files' = Files
  BY FileList, SameInputs DEF NamesInv, IInv, Files
<1>1. CASE CheckArgs
  BY <1>1, NamesBeforeGather DEF CheckArgs
<1>2. CASE \E w \in DOMAIN busy : Take(w) \/ Finish(w)
  BY <1>2, NamesBeforeGather DEF Take, Finish
<1>3. CASE Gather \/ SanitizeTrace \/ Sanitized \/ AggregateTrace
  BY <1>3, GatherNames, SanitizeNames, SanitizedNames, AggregateNames
<1>4. CASE Aggregated
  <2>1. /\ phase = "aggregate" /\ phase' = "flame" /\ i = Len(jaegerTraceFiles)
        /\ UNCHANGED <<saniMap, exclusive, aggregateCallMap>>
    BY <1>4 DEF Aggregated, results
  <2>2. Merged' = Merged
    BY <2>1, <1>len DEF Merged
  <2> QED
    BY <2>1, <2>2, <1>iinv, SummaryStays DEF NamesInv, ReportOK
<1>5. CASE FlameGraph \/ Drawn
  <2>1. /\ phase = "flame" /\ phase' \in {"flame", "tables"}
        /\ UNCHANGED <<saniMap, exclusive, aggregateCallMap>>
    BY <1>5 DEF FlameGraph, Drawn, results
  <2>2. Merged' = Merged
    BY <2>1, <1>len DEF Merged
  <2> QED
    BY <2>1, <2>2, <1>iinv, SummaryStays DEF NamesInv, ReportOK
<1>6. CASE ToolFails \/ KeyError
  BY <1>6, NamesAfterFailure DEF ToolFails, KeyError
<1>7. CASE HeatmapAndSummary
  <2>1. /\ phase = "tables" /\ phase' = "written"
        /\ UNCHANGED <<saniMap, exclusive, aggregateCallMap, args>>
        /\ traceIDIndex \subseteq DOMAIN exclusive.opTime
        /\ report'.cell = insertInDF(exclusive)
        /\ report'.exclusive = addPercentileColumns(insertInDF(exclusive))
        /\ report'.occurrence = [o \in allOps |-> Cardinality(NonZeros(insertInDF(exclusive)[o]))]
        /\ report'.denominator = [p \in Percentiles |-> Denominator(insertInDF(exclusive), p)]
    BY <1>7 DEF HeatmapAndSummary, results
  <2>2. Merged' = Merged
    BY <2>1, <1>len DEF Merged
  <2>3. ReportOK'
    <3>1. /\ jaegerTraceFiles' = jaegerTraceFiles /\ traceIDIndex' = traceIDIndex
          /\ allOps' = allOps
      BY <2>1, <1>len, SameInputs DEF traceIDIndex, allOps
    <3>2. insertInDF(exclusive)' = insertInDF(exclusive)
      BY <2>1, <3>1 DEF insertInDF
    <3>3. \A df : addPercentileColumns(df)' = addPercentileColumns(df)
      BY <3>1 DEF addPercentileColumns, PVal
    <3>4. \A df : \A p : Denominator(df, p)' = Denominator(df, p)
      BY <3>1 DEF Denominator
    <3> DEFINE c == report'.cell
    <3>5. /\ report'.exclusive = addPercentileColumns(c)
          /\ report'.occurrence = [o \in allOps |-> Cardinality(NonZeros(c[o]))]
          /\ report'.denominator = [p \in Percentiles |-> Denominator(c, p)]
      BY <2>1
    <3> QED
      BY <2>1, <3>1, <3>2, <3>3, <3>4, <3>5 DEF ReportOK
  <2> QED
    BY <2>1, <2>2, <2>3, <1>iinv, SummaryStays DEF NamesInv
<1>8. CASE UNCHANGED vars
  <2>1. /\ jaegerTraceFiles' = jaegerTraceFiles /\ traceIDIndex' = traceIDIndex
        /\ (\A f : process(f)' = process(f)) /\ (\A f : Named(f)' = Named(f))
        /\ (\A f : Id(f)' = Id(f)) /\ OwnIds' = OwnIds /\ Merged' = Merged
    BY <1>8, <1>len, SameInputs, SameNames DEF vars, traceIDIndex, Merged
  <2>2. MapOK' /\ MetricsOK'
    BY <1>8, <1>len, <2>1 DEF NamesInv, vars, MapOK, MetricsOK
  <2>3. SummaryOK'
    <3>1. {Id(f) : f \in Merged}' = {Id(f) : f \in Merged}
      BY <2>1
    <3>2. (UNION {DOMAIN Named(f).callChain : f \in Merged})'
              = UNION {DOMAIN Named(f).callChain : f \in Merged}
      BY <2>1
    <3> QED
      BY <1>8, <2>1, <3>1, <3>2 DEF NamesInv, SummaryOK, vars, results
  <2>4. ReportOK'
    <3>1. allOps' = allOps
      BY <1>8 DEF vars, results, allOps
    <3>2. insertInDF(exclusive)' = insertInDF(exclusive)
      BY <1>8, <2>1, <3>1 DEF vars, results, insertInDF
    <3>3. \A df : addPercentileColumns(df)' = addPercentileColumns(df)
      BY <3>1 DEF addPercentileColumns, PVal
    <3>4. \A df : \A p : Denominator(df, p)' = Denominator(df, p)
      BY <2>1 DEF Denominator
    <3> QED
      BY <1>8, <2>1, <3>1, <3>2, <3>3, <3>4 DEF NamesInv, ReportOK, vars, results
  <2> QED
    BY <2>2, <2>3, <2>4, <1>iinv DEF NamesInv
<1> QED
  BY <1>1, <1>2, <1>3, <1>4, <1>5, <1>6, <1>7, <1>8 DEF Next

(* What is known of names and cells holds throughout.                      *)
THEOREM NamesInvHolds == Spec => []NamesInv
BY InitNames, NextNames, PTL DEF Spec

(* The result for a file with a critical path.                             *)
LEMMA FoundIs ==
  ASSUME NEW f \in Found
  PROVE  f \in Files /\ input[f] \in Traces /\ input[f] # Broken /\ process(f) = True(f)
BY InputAssumption, TracesAssumption DEF Found, process, True

(* Whatever the number of traces and operations, the new names are told    *)
(* apart and no operation keeps its own, and what is merged is every trace *)
(* under the one final map, although the traces renamed early were renamed *)
(* with a smaller one.                                                     *)
THEOREM NamesAreKeptApart == Spec => []RenamedOnce
<1>1. ASSUME NamesInv PROVE RenamedOnce
  <2>1. \A x, y \in DOMAIN saniMap : saniMap[x] = saniMap[y] => x = y
    BY <1>1 DEF NamesInv, MapOK, OneToOne
  <2>2. ASSUME NEW x \in DOMAIN saniMap, saniMap[x] = x, x # TotalTime PROVE FALSE
    <3>1. x \notin Int /\ saniMap[x] \in 1..(Cardinality(DOMAIN saniMap) - 1)
      BY <1>1, <2>2 DEF NamesInv, MapOK
    <3>2. Cardinality(DOMAIN saniMap) \in Nat
      BY <1>1, FS_CardinalityType DEF NamesInv, MapOK
    <3> QED
      BY <3>1, <3>2, <2>2
  <2>3. ASSUME phase = "aggregate", args.anonymize, NEW f \in Found
        PROVE  metrics[f] = sanitized(saniMap, True(f))
    <3>1. f \in Files /\ process(f) = True(f)
      BY FoundIs
    <3>2. metrics[f] = Named(f)
      BY <3>1, <2>3, <1>1 DEF NamesInv, MetricsOK
    <3> QED
      BY <3>1, <3>2, <2>3 DEF Named
  <2> QED
    BY <2>1, <2>2, <2>3 DEF RenamedOnce
<1> QED
  BY <1>1, NamesInvHolds, PTL

(* In a report, the column of a file is the one its times were stored      *)
(* under, and no other file's.                                             *)
LEMMA ColumnIsId ==
  ASSUME NamesInv, Written
  PROVE  (\A f \in Files : splitext(jaegerTraceFiles[f]) = Id(f)) /\ OwnIds
<1>1. /\ jaegerTraceFiles \in Seq(Seq(STRING) \ {<<>>}) /\ Files = 1..Len(jaegerTraceFiles)
      /\ Len(jaegerTraceFiles) \in Nat
  BY FileList DEF NamesInv, IInv, Files
<1>2. ASSUME NEW f \in Files
      PROVE  /\ splitext(jaegerTraceFiles[f]) = Id(f)
             /\ jaegerTraceFiles[f] \in Seq(STRING) \ {<<>>} /\ Len(jaegerTraceFiles[f]) <= 2
  <2> DEFINE name == jaegerTraceFiles[f]
  <2>1. name \in Seq(STRING) \ {<<>>} /\ Len(name) \in Nat /\ Len(name) >= 1
    BY <1>1
  <2>2. \A g \in Files : Len(Id(g)) = 1
    BY <1>1 DEF Id, getTraceIdFromFilePath
  <2>3. splitext(name) \in DOMAIN exclusive.opTime /\ DOMAIN exclusive.opTime = {Id(g) : g \in Files}
    BY DEF NamesInv, Written, ReportOK, traceIDIndex, SummaryOK, Merged
  <2>4. Len(splitext(name)) = 1
    BY <2>2, <2>3
  <2> HIDE DEF name
  <2>5. Len(name) <= 2
    <3>1. CASE Len(name) = 1
      BY <3>1
    <3>2. CASE Len(name) # 1
      <4> DEFINE n == Len(name)
                 m == n - 1
      <4>1. splitext(name) = SubSeq(name, 1, m)
        BY <3>2 DEF splitext
      <4>2. m \in Nat /\ n \in Nat /\ n = m + 1 /\ \A k \in 1..m : name[k] \in STRING
        BY <2>1
      <4> HIDE DEF n, m
      <4>3. Len(SubSeq(name, 1, m)) = IF 1 <= m THEN m - 1 + 1 ELSE 0
        BY <4>2, SubSeqProperties
      <4>4. m = 1
        BY <4>1, <4>2, <4>3, <2>4
      <4>5. n <= 2
        BY <4>4, <4>2
      <4> QED
        BY <4>5 DEF n
    <3> QED
      BY <3>1, <3>2
  <2> QED
    BY <2>1, <2>5, TwoPieces DEF name, Id
<1>3. OwnIds
  <2> SUFFICES ASSUME NEW f \in Files, NEW g \in Files, Id(f) = Id(g) PROVE f = g
    BY DEF OwnIds
  <2>1. CASE args.given = "file"
    <3>1. args.names \in Seq(Seq(STRING) \ {<<>>}) /\ Len(args.names) >= 1
      BY ArgsAssumption DEF NamesInv, IInv, Inputs
    <3>2. Len(jaegerTraceFiles) = 1
      BY <2>1, <3>1 DEF jaegerTraceFiles
    <3> QED
      BY <3>2, <1>1
  <2>2. CASE args.given # "file"
    <3> DEFINE x == jaegerTraceFiles[f]
               y == jaegerTraceFiles[g]
    <3>1. /\ x \in Seq(STRING) /\ y \in Seq(STRING) /\ Len(x) = 2 /\ Len(y) = 2
          /\ x[2] = "json" /\ y[2] = "json" /\ (x = y => f = g)
      <4>1. jaegerTraceFiles = args.names /\ DOMAIN args.names = Files /\ args \in Args
        BY <2>2, <1>1 DEF jaegerTraceFiles, NamesInv, IInv, Inputs
      <4>2. Len(x) > 1 /\ LastOf(x) = "json" /\ Len(y) > 1 /\ LastOf(y) = "json"
            /\ (x = y => f = g)
        BY <2>2, <4>1, GlobAssumption
      <4>3. Len(x) <= 2 /\ Len(y) <= 2 /\ x \in Seq(STRING) /\ y \in Seq(STRING)
        BY <1>2
      <4> HIDE DEF x, y
      <4>4. Len(x) = 2 /\ Len(y) = 2
        <5>1. Len(x) \in Nat /\ Len(y) \in Nat
          BY <4>3
        <5>2. Len(x) > 1 /\ Len(x) <= 2 /\ Len(y) > 1 /\ Len(y) <= 2
          BY <4>2, <4>3
        <5>3. \A n \in Nat : n > 1 /\ n <= 2 => n = 2
          OBVIOUS
        <5> QED
          BY <5>1, <5>2, <5>3
      <4> QED
        BY <4>2, <4>3, <4>4 DEF LastOf
    <3>2. SubSeq(x, 1, 1) = SubSeq(y, 1, 1)
      BY DEF Id, getTraceIdFromFilePath
    <3> HIDE DEF x, y
    <3>3. x[1] = y[1]
      <4>1. SubSeq(x, 1, 1)[1] = x[1] /\ SubSeq(y, 1, 1)[1] = y[1]
        BY <3>1
      <4> QED
        BY <4>1, <3>2
    <3>4. x = y
      <4>1. DOMAIN x = 1..2 /\ DOMAIN y = 1..2
        BY <3>1
      <4>2. \A k \in 1..2 : x[k] = y[k]
        BY <3>1, <3>3
      <4>3. x = [k \in DOMAIN x |-> x[k]] /\ y = [k \in DOMAIN y |-> y[k]]
        BY <3>1
      <4> QED
        BY <4>1, <4>2, <4>3
    <3> QED
      BY <3>1, <3>4
  <2> QED
    BY <2>1, <2>2
<1> QED
  BY <1>2, <1>3

(* The times of a trace under the names its operations have in the end,    *)
(* each of which has a row.                                                *)
LEMMA NamedTimes ==
  ASSUME NamesInv, Written, NEW f \in Found
  PROVE  LET times == Named(f).opTimeExclusive
             own == True(f).opTimeExclusive
         IN /\ DOMAIN times = {NewOp(o) : o \in DOMAIN own}
            /\ \A o \in DOMAIN own : NewOp(o) \in allOps /\ times[NewOp(o)] = own[o]
<1> DEFINE r == True(f)
           t == input[f]
<1>1. f \in Files /\ t \in Traces /\ t # Broken /\ process(f) = r
  BY FoundIs
<1>2. r = Metrics(t)
  BY DEF True
<1>3. DOMAIN r.opTimeExclusive = DOMAIN t.chain \cup {TotalTime} /\ DOMAIN r.callChain = DOMAIN t.chain
      /\ Ops(r) = DOMAIN t.chain \cup {TotalTime}
  <2> HIDE DEF t, r
  <2> QED
    BY <1>1, <1>2, MetricsKeys DEF Ops
<1>4. DOMAIN aggregateCallMap = UNION {DOMAIN Named(g).callChain : g \in Files}
  BY DEF NamesInv, Written, SummaryOK, Merged
<1>5. DOMAIN Named(f).callChain \subseteq DOMAIN aggregateCallMap
  BY <1>1, <1>4
<1>6. TotalTime \in DOMAIN saniMap /\ NewOp(TotalTime) = TotalTime
  BY DEF NamesInv, MapOK, NewOp
<1> HIDE DEF r, t
<1>7. CASE ~args.anonymize
  <2>1. \A o : NewOp(o) = o
    BY <1>6, <1>7 DEF NamesInv, MapOK, NewOp
  <2>2. Named(f) = r
    BY <1>1, <1>7 DEF Named
  <2>3. DOMAIN t.chain \cup {TotalTime} \subseteq allOps
    BY <2>2, <1>3, <1>5 DEF allOps
  <2> QED
    BY <2>1, <2>2, <2>3, <1>3 DEF r
<1>8. CASE args.anonymize
  <2>1. \A o \in Ops(r) : NewOp(o) = saniMap[o]
    <3>1. Ops(r) \subseteq DOMAIN saniMap
      BY <1>1, <1>8 DEF NamesInv, Written, MetricsOK
    <3> QED
      BY <3>1 DEF NewOp
  <2>2. OneToOne(saniMap, DOMAIN r.opTimeExclusive) /\ OneToOne(saniMap, DOMAIN r.callChain)
    <3>1. Ops(r) \subseteq DOMAIN saniMap
      BY <1>1, <1>8 DEF NamesInv, Written, MetricsOK
    <3> QED
      BY <3>1, <1>3 DEF NamesInv, MapOK, OneToOne
  <2>3. /\ Named(f).opTimeExclusive = Renamed(r.opTimeExclusive, saniMap)
        /\ DOMAIN Named(f).callChain = {saniMap[o] : o \in DOMAIN r.callChain}
    BY <1>1, <1>8 DEF Named, sanitized, Renamed
  <2> DEFINE own == r.opTimeExclusive
  <2>4. /\ DOMAIN Renamed(own, saniMap) = {saniMap[o] : o \in DOMAIN own}
        /\ \A o \in DOMAIN own : Renamed(own, saniMap)[saniMap[o]] = own[o]
    <3>1. OneToOne(saniMap, DOMAIN own)
      BY <2>2
    <3> HIDE DEF own
    <3> QED
      BY <3>1, RenamedIs
  <2>5. \A o \in DOMAIN own : NewOp(o) \in allOps
    BY <2>1, <2>3, <1>3, <1>5, <1>6 DEF allOps
  <2>6. {saniMap[o] : o \in DOMAIN own} = {NewOp(o) : o \in DOMAIN own}
    BY <2>1, <1>3
  <2> QED
    BY <2>1, <2>3, <2>4, <2>5, <2>6, <1>3 DEF r
<1> QED
  BY <1>7, <1>8

(* The columns of a report hold the times they should.                     *)
LEMMA CellsExact == NamesInv => HeatmapExact
<1>1. ASSUME NamesInv, Written, NEW f \in Files
      PROVE  LET col == splitext(jaegerTraceFiles[f])
                 shown == {o \in allOps : report.cell[o][col] # 0} IN
             IF f \notin Found THEN shown = {}
             ELSE /\ \A o \in DOMAIN True(f).opTimeExclusive :
                        report.cell[NewOp(o)][col] = True(f).opTimeExclusive[o]
                  /\ shown \subseteq {NewOp(o) : o \in DOMAIN True(f).opTimeExclusive}
  <2> DEFINE col == splitext(jaegerTraceFiles[f])
             times == Named(f).opTimeExclusive
             own == True(f).opTimeExclusive
  <2>1. col \in traceIDIndex
    BY <1>1 DEF traceIDIndex
  <2>2. exclusive.opTime[col] = times
    <3>1. col = Id(f) /\ OwnIds
      BY <1>1, ColumnIsId
    <3> QED
      BY <3>1, <1>1 DEF NamesInv, Written, SummaryOK, Merged
  <2>3. \A o \in allOps : report.cell[o][col] = IF o \in DOMAIN times THEN times[o] ELSE 0
    BY <2>1, <2>2, <1>1 DEF NamesInv, Written, ReportOK, insertInDF
  <2>4. CASE f \notin Found
    <3>1. process(f) = EmptyMetrics
      BY <2>4, <1>1, FileList DEF NamesInv, IInv, NoneBroken, Written, Found, process
    <3>2. DOMAIN times = {}
      BY <3>1 DEF Named, sanitized, Renamed, EmptyMetrics, NoKeys
    <3> QED
      BY <3>2, <2>3, <2>4
  <2>5. CASE f \in Found
    <3>1. /\ DOMAIN times = {NewOp(o) : o \in DOMAIN own}
          /\ \A o \in DOMAIN own : NewOp(o) \in allOps /\ times[NewOp(o)] = own[o]
      BY <2>5, <1>1, NamedTimes
    <3> HIDE DEF times, own, col
    <3>2. \A o \in DOMAIN own : report.cell[NewOp(o)][col] = own[o]
      BY <3>1, <2>3
    <3>3. {o \in allOps : report.cell[o][col] # 0} \subseteq {NewOp(o) : o \in DOMAIN own}
      BY <3>1, <2>3
    <3> QED
      BY <3>2, <3>3, <2>5 DEF own, col
  <2> QED
    BY <2>4, <2>5
<1> QED
  BY <1>1 DEF HeatmapExact

(* However many traces, workers and operations there are, the column of a  *)
(* trace in the heat map holds the times of its own operations, under the  *)
(* names they got, and nothing else; that of a trace without the operation *)
(* asked for is empty.                                                     *)
THEOREM HeatmapIsExact == Spec => []HeatmapExact
BY CellsExact, NamesInvHolds, PTL

-----------------------------------------------------------------------------
(* Quantiles. What Quantile interpolates between is the element at a place *)
(* of the sorted values.                                                   *)
Lower(f, S, v) == {x \in S : f[x] < v}
UpTo(f, S, v) == {x \in S : f[x] <= v}
Nth(f, S, k) ==
    CHOOSE v \in {f[x] : x \in S} : Cardinality(Lower(f, S, v)) <= k /\ Cardinality(UpTo(f, S, v)) > k

(* Finitely many numbers, if there are any, have a greatest.               *)
LEMMA Greatest ==
  ASSUME NEW S, IsFiniteSet(S), S # {}, NEW f, \A x \in S : f[x] \in Int
  PROVE  \E x \in S : \A y \in S : f[y] <= f[x]
<1> DEFINE F == {T \in SUBSET S : T = {} \/ \E x \in T : \A y \in T : f[y] <= f[x]}
<1>1. {} \in F
  OBVIOUS
<1>2. ASSUME NEW T \in SUBSET S, NEW a \in S \ T, T \in F PROVE T \cup {a} \in F
  <2>1. CASE T = {}
    BY <2>1
  <2>2. CASE T # {}
    <3>1. PICK x \in T : \A y \in T : f[y] <= f[x]
      BY <1>2, <2>2
    <3>2. CASE f[a] <= f[x]
      BY <3>1, <3>2
    <3>3. CASE ~(f[a] <= f[x])
      <4>1. \A y \in T \cup {a} : f[y] <= f[a]
        BY <3>1, <3>3
      <4> QED
        BY <4>1
    <3> QED
      BY <3>2, <3>3
  <2> QED
    BY <2>1, <2>2
<1> HIDE DEF F
<1>3. S \in F
  BY <1>1, <1>2, Growing
<1> QED
  BY <1>3 DEF F

(* There is an element at each place.                                      *)
LEMMA NthExists ==
  ASSUME NEW S, IsFiniteSet(S), NEW f, \A x \in S : f[x] \in Int,
         NEW k \in Nat, k < Cardinality(S)
  PROVE  /\ Nth(f, S, k) \in {f[x] : x \in S}
         /\ Cardinality(Lower(f, S, Nth(f, S, k))) <= k
         /\ Cardinality(UpTo(f, S, Nth(f, S, k))) > k
<1> DEFINE F == {U \in SUBSET S : Cardinality(U) > k /\ \E x \in S : U = UpTo(f, S, f[x])}
<1>1. Cardinality(S) \in Nat /\ S # {} /\ Cardinality({}) = 0
  BY FS_CardinalityType, FS_EmptySet
<1>2. F # {}
  <2>1. PICK x \in S : \A y \in S : f[y] <= f[x]
    BY <1>1, Greatest
  <2>2. UpTo(f, S, f[x]) = S
    BY <2>1 DEF UpTo
  <2>3. S \in F
    BY <2>2
  <2> QED
    BY <2>3
<1>3. PICK U \in F : \A V \in F : V \subseteq U => V = U
  <2>1. F \subseteq SUBSET S
    OBVIOUS
  <2> HIDE DEF F
  <2> QED
    BY <1>2, <2>1, SmallestSubset
<1>4. PICK x \in S : U = UpTo(f, S, f[x])
  BY <1>3
<1> DEFINE v == f[x]
           L == Lower(f, S, v)
<1>5. Cardinality(L) <= k
  <2>1. L \subseteq S /\ IsFiniteSet(L) /\ \A y \in L : f[y] \in Int
    BY FS_Subset DEF Lower
  <2>2. CASE L = {}
    BY <2>2, <1>1
  <2>3. CASE L # {}
    <3> HIDE DEF L
    <3>1. PICK y \in L : \A z \in L : f[z] <= f[y]
      BY <2>1, <2>3, Greatest
    <3>2. y \in S /\ f[y] < v
      BY <3>1 DEF L, Lower
    <3>3. UpTo(f, S, f[y]) = L
      <4>1. \A z \in S : f[z] \in Int
        OBVIOUS
      <4> QED
        BY <3>1, <3>2, <4>1 DEF UpTo, Lower, L
    <3>4. x \in U /\ x \notin L /\ L \subseteq U
      BY <1>4 DEF UpTo, L, Lower
    <3>5. L \notin F
      BY <1>3, <3>4
    <3>6. ~(Cardinality(L) > k)
      BY <3>2, <3>3, <3>5, <2>1
    <3>7. Cardinality(L) \in Nat
      BY <2>1, FS_CardinalityType
    <3> QED
      BY <3>6, <3>7
  <2> QED
    BY <2>2, <2>3
<1>6. Cardinality(UpTo(f, S, v)) > k
  BY <1>3, <1>4
<1> HIDE DEF v
<1>7. v \in {f[y] : y \in S}
  BY DEF v
<1> QED
  BY <1>5, <1>6, <1>7 DEF Nth

(* Greater values, place by place.                                         *)
LEMMA NthGrows ==
  ASSUME NEW S, IsFiniteSet(S), NEW f, NEW g,
         \A x \in S : f[x] \in Int /\ g[x] \in Int /\ f[x] <= g[x],
         NEW k \in Nat, k < Cardinality(S)
  PROVE  Nth(f, S, k) \in Int /\ Nth(g, S, k) \in Int /\ Nth(f, S, k) <= Nth(g, S, k)
<1> DEFINE v == Nth(f, S, k)
           w == Nth(g, S, k)
<1>1. v \in {f[x] : x \in S} /\ Cardinality(Lower(f, S, v)) <= k
  BY NthExists
<1>2. w \in {g[x] : x \in S} /\ Cardinality(UpTo(g, S, w)) > k
  BY NthExists
<1> HIDE DEF v, w
<1>3. v \in Int /\ w \in Int
  BY <1>1, <1>2
<1>4. ASSUME w < v PROVE FALSE
  <2>1. UpTo(g, S, w) \subseteq Lower(f, S, v)
    BY <1>3, <1>4 DEF UpTo, Lower
  <2>2. IsFiniteSet(Lower(f, S, v))
    BY FS_Subset DEF Lower
  <2>3. /\ Cardinality(UpTo(g, S, w)) <= Cardinality(Lower(f, S, v))
        /\ Cardinality(UpTo(g, S, w)) \in Nat /\ Cardinality(Lower(f, S, v)) \in Nat
    BY <2>1, <2>2, FS_Subset, FS_CardinalityType
  <2> QED
    BY <2>3, <1>1, <1>2
<1> QED
  BY <1>3, <1>4 DEF v, w

(* A product of numbers that are not negative is not.                      *)
LEMMA Times ==
  ASSUME NEW a \in Nat, NEW b \in Int, NEW c \in Int, b <= c
  PROVE  a * b \in Int /\ a * c \in Int /\ a * b <= a * c
<1>1. a * b \in Int /\ a * c \in Int
  OBVIOUS
<1>2. a * (c - b) >= 0 /\ a * (c - b) = a * c - a * b
  OBVIOUS
<1> QED
  BY <1>1, <1>2

(* Interpolated in the same way, greater values have greater quantiles.    *)
LEMMA QuantileGrows ==
  ASSUME NEW S, IsFiniteSet(S), S # {}, NEW f, NEW g,
         \A x \in S : f[x] \in Int /\ g[x] \in Int /\ f[x] <= g[x],
         NEW p \in Percentiles
  PROVE  Quantile(f, S, p) <= Quantile(g, S, p)
<1> DEFINE n == Cardinality(S)
           place == (n - 1) * p
           k == place \div 100
           r == place % 100
<1>1. n \in Nat /\ n >= 1
  <2>1. n \in Nat /\ n # 0
    BY FS_CardinalityType, FS_EmptySet
  <2> QED
    BY <2>1
<1> HIDE DEF n
<1>2. /\ k \in Nat /\ k < n /\ r \in 0..99 /\ (r # 0 => k + 1 \in Nat /\ k + 1 < n)
  <2>1. CASE p = 50
    BY <1>1, <2>1
  <2>2. CASE p = 95
    BY <1>1, <2>2
  <2>3. CASE p = 99
    BY <1>1, <2>3
  <2> QED
    BY <2>1, <2>2, <2>3 DEF Percentiles
<1>3. \A h : Quantile(h, S, p) = IF r = 0 THEN 100 * Nth(h, S, k)
               ELSE 100 * Nth(h, S, k) + r * (Nth(h, S, k + 1) - Nth(h, S, k))
  BY DEF Quantile, Nth, Lower, UpTo, n
<1> HIDE DEF r, k
<1> DEFINE a == Nth(f, S, k)
           b == Nth(g, S, k)
           c == Nth(f, S, k + 1)
           d == Nth(g, S, k + 1)
<1>4. a \in Int /\ b \in Int /\ a <= b
  BY <1>2, NthGrows DEF n
<1>5. CASE r = 0
  <2> HIDE DEF a, b
  <2>1. 100 * a <= 100 * b
    BY <1>4
  <2> QED
    BY <1>3, <1>5, <2>1 DEF a, b
<1>6. CASE r # 0
  <2>1. c \in Int /\ d \in Int /\ c <= d
    BY <1>2, <1>6, NthGrows DEF n
  <2> HIDE DEF a, b, c, d
  <2> DEFINE q == 100 - r
  <2>2. q \in Nat /\ r \in Nat
    BY <1>2
  <2>3. 100 * a + r * (c - a) = q * a + r * c /\ 100 * b + r * (d - b) = q * b + r * d
    BY <1>2, <1>4, <2>1
  <2> HIDE DEF q
  <2>4. q * a \in Int /\ q * b \in Int /\ q * a <= q * b
    BY <1>4, <2>2, Times
  <2>5. r * c \in Int /\ r * d \in Int /\ r * c <= r * d
    BY <2>1, <2>2, Times
  <2>6. q * a + r * c <= q * b + r * d
    BY <2>4, <2>5
  <2> QED
    BY <1>3, <1>6, <2>3, <2>6 DEF a, b, c, d
<1> QED
  BY <1>5, <1>6

-----------------------------------------------------------------------------
(* A trace's times as sums of the library's form.                          *)
LEMMA SumIs ==
  ASSUME NEW f, NEW S
  PROVE  Sum(f, S) = SumFunctionOnSet(f, S)
BY DEF Sum, MapThenSumSet, SumFunctionOnSet, FoldFunctionOnSet

(* No operation takes more than the whole of its trace, if no call path    *)
(* has a negative time of its own.                                         *)
LEMMA PartOfTotal ==
  ASSUME NEW t \in Traces, \A p \in DOMAIN t.self : t.self[p] >= 0,
         NEW o \in DOMAIN t.chain \cup {TotalTime}
  PROVE  /\ Metrics(t).opTimeExclusive[o] \in Int
         /\ Metrics(t).opTimeExclusive[TotalTime] \in Int
         /\ Metrics(t).opTimeExclusive[o] <= Metrics(t).opTimeExclusive[TotalTime]
<1> DEFINE paths == DOMAIN t.self
           w == t.self
           ends == {p \in paths : LastOf(p) = o}
<1>1. /\ IsFiniteSet(paths) /\ \A p \in paths : w[p] \in Int /\ w[p] >= 0
      /\ TotalTime \notin DOMAIN t.chain
  BY TracesAssumption
<1>2. /\ Metrics(t).opTimeExclusive[TotalTime] = Sum(w, paths)
      /\ o # TotalTime => Metrics(t).opTimeExclusive[o] = Sum(w, ends)
  BY DEF Metrics, Put
<1>3. ends \in SUBSET paths
  OBVIOUS
<1> HIDE DEF paths, w, ends
<1>4. /\ SumFunctionOnSet(w, ends) \in Int /\ SumFunctionOnSet(w, paths) \in Int
      /\ SumFunctionOnSet(w, ends) <= SumFunctionOnSet(w, paths)
  BY <1>1, <1>3, SumOfPart
<1>5. Sum(w, ends) = SumFunctionOnSet(w, ends) /\ Sum(w, paths) = SumFunctionOnSet(w, paths)
  BY SumIs
<1> QED
  BY <1>2, <1>4, <1>5

(* Files have columns, finitely many.                                      *)
LEMMA Columns ==
  ASSUME Inputs
  PROVE  IsFiniteSet(traceIDIndex) /\ traceIDIndex # {}
<1> DEFINE column == [f \in Files |-> splitext(jaegerTraceFiles[f])]
<1>1. Len(jaegerTraceFiles) \in Nat /\ Files = 1..Len(jaegerTraceFiles)
  BY FileList DEF Files
<1>2. Len(jaegerTraceFiles) >= 1
  <2>1. args.names \in Seq(Seq(STRING) \ {<<>>}) /\ Len(args.names) \in Nat /\ Len(args.names) >= 1
    BY ArgsAssumption DEF Inputs
  <2> QED
    BY <2>1 DEF jaegerTraceFiles
<1>3. IsFiniteSet(Files) /\ 1 \in Files
  BY <1>1, <1>2, FS_Interval
<1>4. column \in Surjection(Files, traceIDIndex)
  BY DEF Surjection, traceIDIndex
<1> QED
  BY <1>3, <1>4, FS_Surjection DEF traceIDIndex

(* If no call path has a negative time of its own, the percentiles of an   *)
(* operation that took time in every trace are at most the percentiles of  *)
(* the total, for any number of traces: quantiles of values that are less  *)
(* trace by trace are less, interpolation included.                        *)
THEOREM PercentagesAreBounded ==
  ASSUME \A t \in Traces : \A p \in DOMAIN t.self : t.self[p] >= 0
  PROVE  Spec => []PercentBounded
<1>1. ASSUME NamesInv, Written, NEW o \in allOps, NEW p \in Percentiles,
             report.occurrence[o] = Cardinality(traceIDIndex)
      PROVE  report.exclusive[p][o] <= report.denominator[p]
  <2> DEFINE df == report.cell
             S == traceIDIndex
  <2>1. IsFiniteSet(S) /\ S # {}
    BY <1>1, Columns DEF NamesInv, IInv
  <2>2. \A x \in allOps : DOMAIN df[x] = S
    BY <1>1 DEF NamesInv, Written, ReportOK, insertInDF
  <2>3. TotalTime \in allOps
    BY DEF allOps
  <2>4. NonZeros(df[o]) = S
    <3>1. Cardinality(NonZeros(df[o])) = Cardinality(S)
      BY <1>1 DEF NamesInv, Written, ReportOK
    <3>2. NonZeros(df[o]) \subseteq S
      BY <1>1, <2>2 DEF NonZeros
    <3> HIDE DEF df, S
    <3> QED
      BY <2>1, <3>1, <3>2, FS_Subset
  <2>5. ASSUME NEW c \in S
        PROVE  df[o][c] \in Int /\ df[TotalTime][c] \in Int /\ df[o][c] <= df[TotalTime][c]
    <3>1. PICK f \in Files : c = splitext(jaegerTraceFiles[f])
      BY <2>5 DEF traceIDIndex
    <3>2. df[o][c] # 0
      BY <2>4, <2>5 DEF NonZeros
    <3>3. HeatmapExact
      BY <1>1, CellsExact
    <3>4. f \in Found
      BY <1>1, <3>1, <3>2, <3>3 DEF HeatmapExact
    <3>5. PICK x \in DOMAIN True(f).opTimeExclusive : o = NewOp(x)
      BY <1>1, <3>1, <3>2, <3>3, <3>4 DEF HeatmapExact
    <3> DEFINE own == True(f).opTimeExclusive
    <3>6. \A y \in DOMAIN own : df[NewOp(y)][c] = own[y]
      BY <1>1, <3>1, <3>3, <3>4 DEF HeatmapExact
    <3>7. NewOp(TotalTime) = TotalTime
      BY <1>1 DEF NamesInv, MapOK, NewOp
    <3> DEFINE t == input[f]
    <3>8. t \in Traces /\ own = Metrics(t).opTimeExclusive
      BY <3>4 DEF Found, True
    <3> HIDE DEF t
    <3>9. DOMAIN own = DOMAIN t.chain \cup {TotalTime}
      BY <3>8, MetricsKeys
    <3>10. own[x] \in Int /\ own[TotalTime] \in Int /\ own[x] <= own[TotalTime]
      <4>1. x \in DOMAIN t.chain \cup {TotalTime}
        BY <3>5, <3>9
      <4>2. \A q \in DOMAIN t.self : t.self[q] >= 0
        BY <3>8
      <4> HIDE DEF own
      <4> QED
        BY <3>8, <4>1, <4>2, PartOfTotal
    <3>11. df[o][c] = own[x] /\ df[TotalTime][c] = own[TotalTime]
      BY <3>5, <3>6, <3>7, <3>9
    <3> QED
      BY <3>10, <3>11
  <2>6. Quantile(df[o], S, p) <= Quantile(df[TotalTime], S, p)
    <3> DEFINE f == df[o]
               g == df[TotalTime]
    <3>1. \A x \in S : f[x] \in Int /\ g[x] \in Int /\ f[x] <= g[x]
      BY <2>5
    <3> HIDE DEF f, g, S
    <3>2. Quantile(f, S, p) <= Quantile(g, S, p)
      BY <2>1, <3>1, QuantileGrows
    <3> QED
      BY <3>2 DEF f, g
  <2>7. report.exclusive[p][o] = PVal(df, o, p) /\ report.denominator[p] = Denominator(df, p)
    BY <1>1 DEF NamesInv, Written, ReportOK, addPercentileColumns
  <2> HIDE DEF df
  <2>8. PVal(df, o, p) = Quantile(df[o], S, p) /\ Denominator(df, p) = Quantile(df[TotalTime], S, p)
    BY <2>1, <2>4 DEF PVal, Denominator
  <2> QED
    BY <2>6, <2>7, <2>8
<1>2. NamesInv => PercentBounded
  BY <1>1 DEF PercentBounded
<1> QED
  BY <1>2, NamesInvHolds, PTL

-----------------------------------------------------------------------------
(* Tool tips. What the merged dictionaries hold of a set M of traces, whose*)
(* recorded call paths are C, times T and examples E: behind a call path   *)
(* the times of the traces that recorded it, in order; and a greatest      *)
(* example.                                                                *)
Users(C, o, q, M) == {g \in M : o \in DOMAIN C[g] /\ q \in C[g][o]}
Place(g, U) == Cardinality({h \in U : h <= g})
InOrder(times, T, q, U) ==
    /\ times \in Seq(Int) /\ Len(times) = Cardinality(U)
    /\ \A g \in U : times[Place(g, U)] = T[g][q]
TimesOf(dict, C, T, M) ==
    /\ DOMAIN dict = UNION {DOMAIN C[g] : g \in M}
    /\ \A o \in DOMAIN dict :
         /\ \A q : q \in DOMAIN dict[o] <=> Users(C, o, q, M) # {}
         /\ \A q \in DOMAIN dict[o] : InOrder(dict[o][q], T, q, Users(C, o, q, M))
WorstOf(examples, E, M) ==
    /\ DOMAIN examples = UNION {DOMAIN E[g] : g \in M}
    /\ \A q \in DOMAIN examples :
         /\ \E g \in M : q \in DOMAIN E[g] /\ examples[q] = <<Id(g), E[g][q]>>
         /\ \A g \in M : q \in DOMAIN E[g] => examples[q][2] >= E[g][q]

(* One more trace, after the others, is last in its place.                 *)
LEMMA PlaceAfter ==
  ASSUME NEW U, IsFiniteSet(U), U \subseteq Nat, NEW n \in Nat, \A g \in U : g < n
  PROVE  /\ Cardinality(U \cup {n}) = Cardinality(U) + 1 /\ Cardinality(U) \in Nat
         /\ Place(n, U \cup {n}) = Cardinality(U) + 1
         /\ \A g \in U : Place(g, U \cup {n}) = Place(g, U) /\ Place(g, U) \in 1..Cardinality(U)
<1>1. n \notin U
  OBVIOUS
<1>2. Cardinality(U \cup {n}) = Cardinality(U) + 1 /\ Cardinality(U) \in Nat
  BY <1>1, FS_AddElement, FS_CardinalityType
<1>3. {h \in U \cup {n} : h <= n} = U \cup {n}
  <2>1. \A g \in U \cup {n} : g <= n
    OBVIOUS
  <2> QED
    BY <2>1
<1>4. ASSUME NEW g \in U
      PROVE  Place(g, U \cup {n}) = Place(g, U) /\ Place(g, U) \in 1..Cardinality(U)
  <2> DEFINE D == {h \in U : h <= g}
  <2>1. {h \in U \cup {n} : h <= g} = D
    OBVIOUS
  <2>2. D \subseteq U /\ g \in D
    OBVIOUS
  <2> HIDE DEF D
  <2>3. IsFiniteSet(D) /\ Cardinality(D) <= Cardinality(U) /\ Cardinality(D) \in Nat
    BY <2>2, FS_Subset, FS_CardinalityType
  <2>4. Cardinality(D) # 0
    BY <2>2, <2>3, FS_EmptySet
  <2>5. Cardinality(D) \in 1..Cardinality(U)
    BY <1>2, <2>3, <2>4
  <2> QED
    BY <2>1, <2>5 DEF Place, D
<1> QED
  BY <1>2, <1>3, <1>4 DEF Place

(* A time that is appended for the trace that comes last is in order.      *)
LEMMA AppendInOrder ==
  ASSUME NEW U, IsFiniteSet(U), U \subseteq Nat, NEW n \in Nat, \A g \in U : g < n,
         NEW T, NEW q, T[n][q] \in Int, NEW times, InOrder(times, T, q, U)
  PROVE  InOrder(times \o <<T[n][q]>>, T, q, U \cup {n})
<1> DEFINE v == T[n][q]
           new == times \o <<v>>
           c == Cardinality(U)
<1>1. times \in Seq(Int) /\ Len(times) = c /\ \A g \in U : times[Place(g, U)] = T[g][q]
  BY DEF InOrder
<1>2. c \in Nat /\ Cardinality(U \cup {n}) = c + 1 /\ Place(n, U \cup {n}) = c + 1
      /\ \A g \in U : Place(g, U \cup {n}) = Place(g, U) /\ Place(g, U) \in 1..c
  BY PlaceAfter
<1>3. v \in Int
  OBVIOUS
<1> HIDE DEF v, c
<1>4. /\ new \in Seq(Int) /\ Len(new) = c + 1
      /\ \A k \in 1..(c + 1) : new[k] = IF k <= c THEN times[k] ELSE v
  <2>1. <<v>> \in Seq(Int) /\ Len(<<v>>) = 1 /\ <<v>>[1] = v
    BY <1>3
  <2> DEFINE one == <<v>>
  <2> HIDE DEF one
  <2>2. /\ times \o one \in Seq(Int) /\ Len(times \o one) = c + 1
        /\ \A k \in 1..(c + 1) : (times \o one)[k] = IF k <= c THEN times[k] ELSE one[k - c]
    BY <1>1, <1>2, <2>1, ConcatProperties DEF one
  <2>3. \A k \in 1..(c + 1) : ~(k <= c) => one[k - c] = v
    <3>1. \A k \in 1..(c + 1) : ~(k <= c) => k - c = 1
      BY <1>2
    <3> QED
      BY <2>1, <3>1 DEF one
  <2> QED
    BY <2>2, <2>3 DEF one
<1> HIDE DEF new
<1>5. \A g \in U : new[Place(g, U)] = T[g][q]
  <2>1. \A g \in U : Place(g, U) \in 1..(c + 1) /\ Place(g, U) <= c
    BY <1>2
  <2> QED
    BY <1>1, <1>4, <2>1
<1>6. new[c + 1] = T[n][q]
  <2>1. c + 1 \in 1..(c + 1) /\ ~(c + 1 <= c)
    BY <1>2
  <2> QED
    BY <1>4, <2>1 DEF v
<1>7. InOrder(new, T, q, U \cup {n})
  <2>1. \A g \in U \cup {n} : new[Place(g, U \cup {n})] = T[g][q]
    BY <1>2, <1>5, <1>6
  <2> QED
    BY <1>2, <1>4, <2>1 DEF InOrder
<1> QED
  BY <1>7 DEF new, v

(* Merging the call paths of one more trace.                               *)
LEMMA MergeTimes ==
  ASSUME NEW M, IsFiniteSet(M), M \subseteq Nat, NEW n \in Nat, \A g \in M : g < n,
         NEW C, NEW T, NEW dict, TimesOf(dict, C, T, M),
         \A o \in DOMAIN C[n] : \A q \in C[n][o] : T[n][q] \in Int
  PROVE  TimesOf(mergeCallpathTime(C[n], T[n], dict), C, T, M \cup {n})
<1> DEFINE old(o) == IF o \in DOMAIN dict THEN dict[o] ELSE NoKeys
           new(o) == IF o \in DOMAIN C[n] THEN C[n][o] ELSE {}
           times(o, q) == (IF q \in DOMAIN old(o) THEN old(o)[q] ELSE <<>>) \o
                          (IF q \in new(o) THEN <<T[n][q]>> ELSE <<>>)
           D == mergeCallpathTime(C[n], T[n], dict)
           U(o, q) == Users(C, o, q, M)
           W(o, q) == Users(C, o, q, M \cup {n})
<1>1. /\ DOMAIN D = DOMAIN C[n] \cup DOMAIN dict
      /\ \A o \in DOMAIN D : /\ DOMAIN D[o] = DOMAIN old(o) \cup new(o)
                             /\ \A q \in DOMAIN D[o] : D[o][q] = times(o, q)
  BY DEF mergeCallpathTime
<1>2. DOMAIN D = UNION {DOMAIN C[g] : g \in M \cup {n}}
  <2>1. DOMAIN dict = UNION {DOMAIN C[g] : g \in M}
    BY DEF TimesOf
  <2>2. DOMAIN D = DOMAIN C[n] \cup DOMAIN dict
    BY <1>1
  <2> HIDE DEF D
  <2> QED
    BY <2>1, <2>2
<1>3. \A o, q : W(o, q) = IF q \in new(o) THEN U(o, q) \cup {n} ELSE U(o, q)
  BY DEF Users
<1>4. \A o, q : q \in DOMAIN old(o) <=> U(o, q) # {}
  <2> SUFFICES ASSUME NEW o, NEW q PROVE q \in DOMAIN old(o) <=> U(o, q) # {}
    OBVIOUS
  <2>1. CASE o \in DOMAIN dict
    BY <2>1 DEF TimesOf
  <2>2. CASE o \notin DOMAIN dict
    <3>1. \A g \in M : o \notin DOMAIN C[g]
      BY <2>2 DEF TimesOf
    <3>2. DOMAIN old(o) = {}
      BY <2>2 DEF NoKeys
    <3> QED
      BY <3>1, <3>2 DEF Users
  <2> QED
    BY <2>1, <2>2
<1>5. \A o : \A q \in DOMAIN old(o) : InOrder(old(o)[q], T, q, U(o, q))
  <2> SUFFICES ASSUME NEW o, NEW q \in DOMAIN old(o) PROVE InOrder(old(o)[q], T, q, U(o, q))
    OBVIOUS
  <2>1. CASE o \in DOMAIN dict
    BY <2>1 DEF TimesOf
  <2>2. CASE o \notin DOMAIN dict
    BY <2>2 DEF NoKeys
  <2> QED
    BY <2>1, <2>2
<1>6. \A o, q : IsFiniteSet(U(o, q)) /\ U(o, q) \subseteq Nat /\ \A g \in U(o, q) : g < n
  <2>1. \A o, q : U(o, q) \subseteq M
    BY DEF Users
  <2> HIDE DEF U
  <2> QED
    BY <2>1, FS_Subset
<1>7. \A o : \A q \in new(o) : T[n][q] \in Int
  OBVIOUS
<1> HIDE DEF old, new, U, W
<1>8. ASSUME NEW o, NEW q \in DOMAIN old(o) \cup new(o)
      PROVE  InOrder(times(o, q), T, q, W(o, q))
  <2>1. CASE q \in DOMAIN old(o) /\ q \in new(o)
    <3>1. InOrder(old(o)[q] \o <<T[n][q]>>, T, q, U(o, q) \cup {n})
      BY <2>1, <1>5, <1>6, <1>7, AppendInOrder
    <3> QED
      BY <3>1, <2>1, <1>3
  <2>2. CASE q \in DOMAIN old(o) /\ q \notin new(o)
    <3>1. InOrder(old(o)[q], T, q, U(o, q))
      BY <2>2, <1>5
    <3>2. old(o)[q] \o <<>> = old(o)[q]
      BY <3>1 DEF InOrder
    <3> QED
      BY <3>1, <3>2, <2>2, <1>3
  <2>3. CASE q \notin DOMAIN old(o) /\ q \in new(o)
    <3>1. U(o, q) = {}
      BY <2>3, <1>4
    <3>2. InOrder(<<>>, T, q, U(o, q))
      <4>1. <<>> \in Seq(Int) /\ Len(<<>>) = 0
        OBVIOUS
      <4> QED
        BY <3>1, <4>1, FS_EmptySet DEF InOrder
    <3>3. InOrder(<<>> \o <<T[n][q]>>, T, q, U(o, q) \cup {n})
      BY <2>3, <3>2, <1>6, <1>7, AppendInOrder
    <3> QED
      BY <3>3, <2>3, <1>3
  <2> QED
    BY <2>1, <2>2, <2>3, <1>8
<1> HIDE DEF times, D
<1>9. \A o \in DOMAIN D : \A q : q \in DOMAIN D[o] <=> W(o, q) # {}
  BY <1>1, <1>3, <1>4
<1>10. \A o \in DOMAIN D : \A q \in DOMAIN D[o] : InOrder(D[o][q], T, q, W(o, q))
  BY <1>1, <1>8
<1> QED
  BY <1>2, <1>9, <1>10 DEF TimesOf, W, D

(* Merging the examples of one more trace.                                 *)
LEMMA MergeExamples ==
  ASSUME NEW M, NEW n, NEW E, NEW examples, WorstOf(examples, E, M),
         \A g \in M \cup {n} : \A q \in DOMAIN E[g] : E[g][q] \in Int
  PROVE  WorstOf(mergeExampleID(Id(n), E[n], examples), E, M \cup {n})
<1> DEFINE X == mergeExampleID(Id(n), E[n], examples)
           newer(q) == q \in DOMAIN E[n] /\ (q \in DOMAIN examples => E[n][q] > examples[q][2])
<1>1. /\ DOMAIN X = DOMAIN E[n] \cup DOMAIN examples
      /\ \A q \in DOMAIN X : X[q] = IF newer(q) THEN <<Id(n), E[n][q]>> ELSE examples[q]
  BY DEF mergeExampleID
<1>2. /\ DOMAIN examples = UNION {DOMAIN E[g] : g \in M}
      /\ \A q \in DOMAIN examples :
           /\ \E g \in M : q \in DOMAIN E[g] /\ examples[q] = <<Id(g), E[g][q]>>
           /\ \A g \in M : q \in DOMAIN E[g] => examples[q][2] >= E[g][q]
  BY DEF WorstOf
<1> HIDE DEF X
<1>3. DOMAIN X = UNION {DOMAIN E[g] : g \in M \cup {n}}
  BY <1>1, <1>2
<1>4. ASSUME NEW q \in DOMAIN X
      PROVE  /\ \E g \in M \cup {n} : q \in DOMAIN E[g] /\ X[q] = <<Id(g), E[g][q]>>
             /\ \A g \in M \cup {n} : q \in DOMAIN E[g] => X[q][2] >= E[g][q]
  <2>1. CASE newer(q)
    <3>0. q \in DOMAIN E[n] /\ X[q] = <<Id(n), E[n][q]>>
      BY <2>1, <1>1, <1>4, Zenon
    <3>1. q \in DOMAIN E[n] /\ X[q] = <<Id(n), E[n][q]>> /\ X[q][2] = E[n][q] /\ E[n][q] \in Int
      BY <3>0
    <3>2. ASSUME NEW g \in M, q \in DOMAIN E[g] PROVE E[n][q] >= E[g][q]
      <4>1. q \in DOMAIN examples
        BY <3>2, <1>2
      <4>2. examples[q][2] >= E[g][q] /\ E[n][q] > examples[q][2] /\ E[g][q] \in Int
        BY <4>1, <3>2, <2>1, <1>2
      <4>3. examples[q][2] \in Int
        BY <4>1, <1>2
      <4> QED
        BY <4>2, <4>3, <3>1
    <3> QED
      BY <3>1, <3>2
  <2>2. CASE ~newer(q)
    <3>1. q \in DOMAIN examples /\ X[q] = examples[q]
      BY <2>2, <1>1, <1>4
    <3>2. PICK h \in M : q \in DOMAIN E[h] /\ examples[q] = <<Id(h), E[h][q]>>
      BY <3>1, <1>2
    <3>3. q \in DOMAIN E[n] => X[q][2] >= E[n][q]
      <4>1. X[q][2] = E[h][q] /\ E[h][q] \in Int
        BY <3>1, <3>2
      <4>2. q \in DOMAIN E[n] => ~(E[n][q] > X[q][2]) /\ E[n][q] \in Int
        BY <2>2, <3>1
      <4> QED
        BY <4>1, <4>2
    <3> QED
      BY <3>1, <3>2, <3>3, <1>2
  <2> QED
    BY <2>1, <2>2
<1> QED
  BY <1>3, <1>4 DEF WorstOf, X

(* The results of the traces under the names they get, as the merged       *)
(* dictionaries see them.                                                  *)
Chains == [f \in Files |-> Named(f).callChain]
OwnTimes == [f \in Files |-> Named(f).callpathTimeExclusive]
Examples == [f \in Files |-> Named(f).exampleMap]

TipsOK ==
    phase \in {"args", "map", "sanitize", "aggregate", "flame", "tables", "written"} =>
        /\ TimesOf(exclusive.callpathTime, Chains, OwnTimes, Merged)
        /\ WorstOf(exclusive.exampleMap, Examples, Merged)

TipsInv == NamesInv /\ TipsOK

(* Call paths are renamed operation by operation.                          *)
LEMMA PathsRenamed ==
  ASSUME NamesInv, phase \in {"aggregate", "flame", "tables", "written"}, NEW f \in Found
  PROVE  LET t == input[f] IN
         /\ \A o \in DOMAIN t.chain \cup {TotalTime} :
               args.anonymize => o \in DOMAIN saniMap /\ NewOp(o) = saniMap[o]
         /\ ~args.anonymize => \A o : NewOp(o) = o
         /\ \A p \in DOMAIN t.self :
               /\ p \in Seq(DOMAIN t.chain)
               /\ args.anonymize => NewPath(p) = [k \in DOMAIN p |-> saniMap[p[k]]]
               /\ ~args.anonymize => NewPath(p) = p
<1> DEFINE t == input[f]
<1>1. f \in Files /\ t \in Traces /\ process(f) = Metrics(t)
  BY FoundIs DEF True
<1>2. Ops(process(f)) = DOMAIN t.chain \cup {TotalTime}
  <2> HIDE DEF t
  <2> QED
    BY <1>1, MetricsKeys DEF Ops
<1>3. \A p \in DOMAIN t.self : p \in Seq(DOMAIN t.chain)
  <2> HIDE DEF t
  <2> QED
    BY <1>1, TracesAssumption
<1>4. args.anonymize => DOMAIN t.chain \cup {TotalTime} \subseteq DOMAIN saniMap
  BY <1>1, <1>2 DEF NamesInv, MetricsOK
<1>5. ~args.anonymize => DOMAIN saniMap = {TotalTime} /\ saniMap[TotalTime] = TotalTime
  BY DEF NamesInv, MapOK
<1> HIDE DEF t
<1>6. \A o \in DOMAIN t.chain \cup {TotalTime} :
         args.anonymize => o \in DOMAIN saniMap /\ NewOp(o) = saniMap[o]
  BY <1>4 DEF NewOp
<1>7. ~args.anonymize => \A o : NewOp(o) = o
  BY <1>5 DEF NewOp
<1>8. ASSUME NEW p \in DOMAIN t.self
      PROVE  /\ args.anonymize => NewPath(p) = [k \in DOMAIN p |-> saniMap[p[k]]]
             /\ ~args.anonymize => NewPath(p) = p
  <2>1. p \in Seq(DOMAIN t.chain) /\ DOMAIN p = 1..Len(p) /\ p = [k \in DOMAIN p |-> p[k]]
        /\ \A k \in DOMAIN p : p[k] \in DOMAIN t.chain
    BY <1>3, <1>8
  <2>2. args.anonymize => \A k \in DOMAIN p : NewOp(p[k]) = saniMap[p[k]]
    BY <1>6, <2>1
  <2>3. ~args.anonymize => \A k \in DOMAIN p : NewOp(p[k]) = p[k]
    BY <1>7
  <2> QED
    BY <2>1, <2>2, <2>3 DEF NewPath
<1> QED
  BY <1>3, <1>6, <1>7, <1>8 DEF t

(* New names, and so new call paths, of any two traces are told apart.     *)
LEMMA PathsApart ==
  ASSUME NamesInv, phase \in {"aggregate", "flame", "tables", "written"},
         NEW f \in Found, NEW g \in Found
  PROVE  /\ \A o \in DOMAIN input[f].chain, x \in DOMAIN input[g].chain :
               NewOp(o) = NewOp(x) => o = x
         /\ \A p \in DOMAIN input[f].self, q \in DOMAIN input[g].self :
               NewPath(p) = NewPath(q) => p = q
<1> DEFINE t == input[f]
           u == input[g]
<1>1. /\ \A o \in DOMAIN t.chain \cup {TotalTime} :
            args.anonymize => o \in DOMAIN saniMap /\ NewOp(o) = saniMap[o]
      /\ ~args.anonymize => \A o : NewOp(o) = o
      /\ \A p \in DOMAIN t.self : p \in Seq(DOMAIN t.chain)
  BY PathsRenamed
<1>2. /\ \A o \in DOMAIN u.chain \cup {TotalTime} :
            args.anonymize => o \in DOMAIN saniMap /\ NewOp(o) = saniMap[o]
      /\ \A p \in DOMAIN u.self : p \in Seq(DOMAIN u.chain)
  BY PathsRenamed
<1>3. OneToOne(saniMap, DOMAIN saniMap)
  BY DEF NamesInv, MapOK
<1> HIDE DEF t, u
<1>4. \A o \in DOMAIN t.chain, x \in DOMAIN u.chain : NewOp(o) = NewOp(x) => o = x
  BY <1>1, <1>2, <1>3 DEF OneToOne
<1>5. ASSUME NEW p \in DOMAIN t.self, NEW q \in DOMAIN u.self, NewPath(p) = NewPath(q)
      PROVE  p = q
  <2>1. /\ DOMAIN p = 1..Len(p) /\ p = [k \in DOMAIN p |-> p[k]]
        /\ \A k \in DOMAIN p : p[k] \in DOMAIN t.chain
    BY <1>1
  <2>2. /\ DOMAIN q = 1..Len(q) /\ q = [k \in DOMAIN q |-> q[k]]
        /\ \A k \in DOMAIN q : q[k] \in DOMAIN u.chain
    BY <1>2
  <2>3. DOMAIN p = DOMAIN q
    <3>1. DOMAIN NewPath(p) = DOMAIN p /\ DOMAIN NewPath(q) = DOMAIN q
      BY DEF NewPath
    <3> QED
      BY <3>1, <1>5
  <2>4. \A k \in DOMAIN p : NewOp(p[k]) = NewOp(q[k])
    <3>1. ASSUME NEW k \in DOMAIN p PROVE NewOp(p[k]) = NewOp(q[k])
      <4>1. NewPath(p)[k] = NewOp(p[k])
        BY DEF NewPath
      <4>2. NewPath(q)[k] = NewOp(q[k])
        BY <2>3 DEF NewPath
      <4> QED
        BY <4>1, <4>2, <1>5
    <3> QED
      BY <3>1
  <2>5. \A k \in DOMAIN p : p[k] = q[k]
    BY <1>4, <2>1, <2>2, <2>3, <2>4
  <2> QED
    BY <2>1, <2>2, <2>3, <2>5
<1> QED
  BY <1>4, <1>5 DEF t, u

(* What the tool tips need of a trace's result, under its new names.       *)
LEMMA NamedPaths ==
  ASSUME NamesInv, phase \in {"aggregate", "flame", "tables", "written"}, NEW f \in Found
  PROVE  LET t == input[f]
             r == Named(f)
         IN /\ DOMAIN r.callChain = {NewOp(o) : o \in DOMAIN t.chain}
            /\ \A o \in DOMAIN t.chain : r.callChain[NewOp(o)] = {NewPath(t.chain[o])}
            /\ DOMAIN r.exampleMap = {NewPath(p) : p \in DOMAIN t.self}
            /\ \A p \in DOMAIN t.self : /\ r.callpathTimeExclusive[NewPath(p)] = t.self[p]
                                        /\ r.exampleMap[NewPath(p)] = True(f).exampleMap[p]
<1> DEFINE t == input[f]
           r == True(f)
<1>1. f \in Files /\ t \in Traces /\ process(f) = r /\ r = Metrics(t)
  BY FoundIs DEF True
<1>2. /\ r.callChain = [o \in DOMAIN t.chain |-> {t.chain[o]}]
      /\ r.callpathTimeExclusive = t.self /\ DOMAIN r.exampleMap = DOMAIN t.self
      /\ DOMAIN r.callpathTimeExclusive = DOMAIN t.self
  <2> HIDE DEF t, r
  <2> QED
    BY <1>1 DEF Metrics
<1>3. /\ \A o \in DOMAIN t.chain \cup {TotalTime} :
            args.anonymize => o \in DOMAIN saniMap /\ NewOp(o) = saniMap[o]
      /\ ~args.anonymize => \A o : NewOp(o) = o
      /\ \A p \in DOMAIN t.self :
            /\ args.anonymize => NewPath(p) = [k \in DOMAIN p |-> saniMap[p[k]]]
            /\ ~args.anonymize => NewPath(p) = p
  BY PathsRenamed
<1>4. t.chain \in [DOMAIN t.chain -> DOMAIN t.self]
  <2> HIDE DEF t
  <2> QED
    BY <1>1, TracesAssumption
<1>5. /\ \A o, x \in DOMAIN t.chain : NewOp(o) = NewOp(x) => o = x
      /\ \A p, q \in DOMAIN t.self : NewPath(p) = NewPath(q) => p = q
  BY PathsApart
<1>6. CASE ~args.anonymize
  <2>1. Named(f) = r
    BY <1>1, <1>6 DEF Named
  <2> HIDE DEF t, r
  <2>2. {NewOp(o) : o \in DOMAIN t.chain} = DOMAIN t.chain
    BY <1>3, <1>6
  <2>3. {NewPath(p) : p \in DOMAIN t.self} = DOMAIN t.self
    BY <1>3, <1>6
  <2>4. \A o \in DOMAIN t.chain : r.callChain[NewOp(o)] = {NewPath(t.chain[o])}
    <3>1. \A o \in DOMAIN t.chain : NewOp(o) = o /\ NewPath(t.chain[o]) = t.chain[o]
      BY <1>3, <1>4, <1>6
    <3> QED
      BY <3>1, <1>2
  <2> QED
    BY <1>2, <1>3, <1>6, <2>1, <2>2, <2>3, <2>4 DEF t, r
<1>7. CASE args.anonymize
  <2> DEFINE paths == [p \in DOMAIN r.callpathTimeExclusive |-> [k \in DOMAIN p |-> saniMap[p[k]]]]
             chains == [o \in DOMAIN r.callChain |-> {paths[p] : p \in r.callChain[o]}]
             times == r.callpathTimeExclusive
             worst == r.exampleMap
  <2>1. /\ Named(f).callChain = Renamed(chains, saniMap)
        /\ Named(f).callpathTimeExclusive = Renamed(times, paths)
        /\ Named(f).exampleMap = Renamed(worst, paths)
    BY <1>1, <1>7 DEF Named, sanitized
  <2> HIDE DEF t, r
  <2>2. \A p \in DOMAIN t.self : paths[p] = NewPath(p)
    BY <1>2, <1>3, <1>7
  <2>3. DOMAIN chains = DOMAIN t.chain /\ \A o \in DOMAIN t.chain : chains[o] = {NewPath(t.chain[o])}
    <3>1. \A o \in DOMAIN t.chain : t.chain[o] \in DOMAIN t.self
      BY <1>4
    <3> HIDE DEF paths
    <3>2. \A o \in DOMAIN t.chain : r.callChain[o] = {t.chain[o]}
      BY <1>2
    <3>3. \A o \in DOMAIN t.chain : chains[o] = {paths[t.chain[o]]}
      <4>1. \A o \in DOMAIN t.chain : {paths[p] : p \in r.callChain[o]} = {paths[t.chain[o]]}
        BY <3>2
      <4>2. \A o \in DOMAIN t.chain : chains[o] = {paths[p] : p \in r.callChain[o]}
        BY <1>2
      <4> HIDE DEF chains
      <4> QED
        BY <4>1, <4>2
    <3> QED
      BY <1>2, <2>2, <3>1, <3>3
  <2> HIDE DEF paths, chains, times, worst
  <2>4. DOMAIN times = DOMAIN t.self /\ DOMAIN worst = DOMAIN t.self
    BY <1>2 DEF times, worst
  <2>5. /\ OneToOne(paths, DOMAIN times) /\ OneToOne(paths, DOMAIN worst)
        /\ OneToOne(saniMap, DOMAIN chains)
    BY <1>3, <1>5, <1>7, <2>2, <2>3, <2>4 DEF OneToOne
  <2>6. /\ \A p \in DOMAIN times : Renamed(times, paths)[paths[p]] = times[p]
        /\ DOMAIN Renamed(worst, paths) = {paths[p] : p \in DOMAIN worst}
        /\ \A p \in DOMAIN worst : Renamed(worst, paths)[paths[p]] = worst[p]
        /\ DOMAIN Renamed(chains, saniMap) = {saniMap[o] : o \in DOMAIN chains}
        /\ \A o \in DOMAIN chains : Renamed(chains, saniMap)[saniMap[o]] = chains[o]
    <3>1. \A p \in DOMAIN times : Renamed(times, paths)[paths[p]] = times[p]
      BY <2>5, RenamedIs, Zenon
    <3>2. /\ DOMAIN Renamed(worst, paths) = {paths[p] : p \in DOMAIN worst}
          /\ \A p \in DOMAIN worst : Renamed(worst, paths)[paths[p]] = worst[p]
      BY <2>5, RenamedIs, Zenon
    <3>3. /\ DOMAIN Renamed(chains, saniMap) = {saniMap[o] : o \in DOMAIN chains}
          /\ \A o \in DOMAIN chains : Renamed(chains, saniMap)[saniMap[o]] = chains[o]
      BY <2>5, RenamedIs, Zenon
    <3> QED
      BY <3>1, <3>2, <3>3
  <2>7. /\ DOMAIN Named(f).callChain = {NewOp(o) : o \in DOMAIN t.chain}
        /\ \A o \in DOMAIN t.chain : Named(f).callChain[NewOp(o)] = {NewPath(t.chain[o])}
    <3>1. \A o \in DOMAIN t.chain : NewOp(o) = saniMap[o]
      BY <1>3, <1>7
    <3>2. {NewOp(o) : o \in DOMAIN t.chain} = {saniMap[o] : o \in DOMAIN t.chain}
      BY <3>1
    <3> QED
      BY <3>1, <3>2, <2>1, <2>3, <2>6
  <2>8. DOMAIN Named(f).exampleMap = {NewPath(p) : p \in DOMAIN t.self}
    <3>1. {NewPath(p) : p \in DOMAIN t.self} = {paths[p] : p \in DOMAIN t.self}
      BY <2>2
    <3> QED
      BY <3>1, <2>1, <2>4, <2>6
  <2>9. \A p \in DOMAIN t.self : /\ Named(f).callpathTimeExclusive[NewPath(p)] = times[p]
                                 /\ Named(f).exampleMap[NewPath(p)] = worst[p]
    BY <2>1, <2>2, <2>4, <2>6
  <2> QED
    BY <1>2, <2>7, <2>8, <2>9 DEF t, r, times, worst
<1> QED
  BY <1>6, <1>7

(* A trace without the operation asked for has no call paths; all recorded *)
(* times are whole numbers.                                                *)
LEMMA TipsAreNumbers ==
  ASSUME NamesInv, phase \in {"aggregate", "flame", "tables", "written"}, NEW f \in Files
  PROVE  /\ f \notin Found => DOMAIN Named(f).callChain = {} /\ DOMAIN Named(f).exampleMap = {}
         /\ \A o \in DOMAIN Named(f).callChain : \A q \in Named(f).callChain[o] :
               Named(f).callpathTimeExclusive[q] \in Int
         /\ \A q \in DOMAIN Named(f).exampleMap : Named(f).exampleMap[q] \in Int
<1>1. CASE f \notin Found
  <2>1. process(f) = EmptyMetrics
    BY <1>1, FileList DEF NamesInv, IInv, NoneBroken, Found, process
  <2>2. DOMAIN Named(f).callChain = {} /\ DOMAIN Named(f).exampleMap = {}
    BY <2>1 DEF Named, sanitized, Renamed, EmptyMetrics, NoKeys
  <2> QED
    BY <2>2, <1>1
<1>2. CASE f \in Found
  <2> DEFINE t == input[f]
             r == Named(f)
  <2>1. t \in Traces
    BY <1>2 DEF Found
  <2>2. /\ DOMAIN r.callChain = {NewOp(o) : o \in DOMAIN t.chain}
        /\ \A o \in DOMAIN t.chain : r.callChain[NewOp(o)] = {NewPath(t.chain[o])}
        /\ DOMAIN r.exampleMap = {NewPath(p) : p \in DOMAIN t.self}
        /\ \A p \in DOMAIN t.self : /\ r.callpathTimeExclusive[NewPath(p)] = t.self[p]
                                    /\ r.exampleMap[NewPath(p)] = True(f).exampleMap[p]
    BY <1>2, NamedPaths
  <2>3. True(f) = Metrics(t)
    BY DEF True
  <2> HIDE DEF t, r
  <2>4. /\ IsFiniteSet(DOMAIN t.self) /\ \A p \in DOMAIN t.self : t.self[p] \in Int
        /\ \A o \in DOMAIN t.chain : t.chain[o] \in DOMAIN t.self
    BY <2>1, TracesAssumption
  <2>5. ASSUME NEW p \in DOMAIN t.self PROVE Metrics(t).exampleMap[p] \in Int
    <3> DEFINE B == {q \in DOMAIN t.self : Len(q) >= Len(p) /\ SubSeq(q, 1, Len(p)) = p}
               w == t.self
    <3>1. Metrics(t).exampleMap[p] = Sum(w, B)
      BY <2>5 DEF Metrics
    <3>2. IsFiniteSet(B) /\ \A q \in B : w[q] \in Int
      BY <2>4, FS_Subset
    <3> HIDE DEF B, w
    <3>3. SumFunctionOnSet(w, B) \in Int
      BY <3>2, SumInt
    <3> QED
      BY <3>1, <3>3, SumIs
  <2> QED
    BY <1>2, <2>2, <2>3, <2>4, <2>5 DEF r
<1> QED
  BY <1>1, <1>2

(* With nothing merged the dictionaries have no keys.                      *)
LEMMA NothingInTips ==
  ASSUME NEW dict, NEW C, NEW T, NEW examples, NEW E
  PROVE  /\ TimesOf(dict, C, T, {}) <=> DOMAIN dict = {}
         /\ WorstOf(examples, E, {}) <=> DOMAIN examples = {}
BY DEF TimesOf, WorstOf

(* At the start nothing has been merged.                                   *)
LEMMA InitTips == Init => TipsInv
<1> SUFFICES ASSUME Init PROVE TipsInv
  OBVIOUS
<1>1. /\ Merged = {} /\ DOMAIN exclusive.callpathTime = {} /\ DOMAIN exclusive.exampleMap = {}
  BY DEF Init, Merged, NoKeys
<1> QED
  BY <1>1, InitNames, NothingInTips DEF TipsInv, TipsOK

(* Ids and results are what they were while the inputs and the map are.    *)
LEMMA SameTips ==
  ASSUME [Next]_vars, saniMap' = saniMap
  PROVE  /\ Chains' = Chains /\ OwnTimes' = OwnTimes /\ Examples' = Examples
         /\ \A examples, E, M : WorstOf(examples, E, M)' = WorstOf(examples, E, M)
<1>1. Files' = Files /\ (\A f : Named(f)' = Named(f)) /\ (\A f : Id(f)' = Id(f))
  BY SameInputs, SameNames
<1> QED
  BY <1>1 DEF Chains, OwnTimes, Examples, WorstOf

(* Merging one more trace keeps the dictionaries exact.                    *)
LEMMA AggregateTips == TipsInv /\ AggregateTrace => TipsOK'
<1> SUFFICES ASSUME TipsInv, AggregateTrace PROVE TipsOK'
  OBVIOUS
<1> DEFINE n == i + 1
           before == 1..i
<1>0. /\ NamesInv /\ TipsOK
      /\ [Next]_vars /\ saniMap' = saniMap /\ phase = "aggregate" /\ phase' = "aggregate"
      /\ i < Len(jaegerTraceFiles) /\ i' = n
      /\ exclusive'.callpathTime = mergeCallpathTime(metrics[n].callChain,
             metrics[n].callpathTimeExclusive, exclusive.callpathTime)
      /\ exclusive'.exampleMap = mergeExampleID(Id(n), metrics[n].exampleMap, exclusive.exampleMap)
  BY DEF AggregateTrace, Next, Merge, Id, TipsInv
<1>1. /\ i \in Nat /\ n \in Nat /\ n \in Files /\ before \subseteq Files
      /\ 1..n = before \cup {n}
      /\ before \subseteq Nat /\ \A g \in before : g < n
  <2>1. Len(jaegerTraceFiles) \in Nat /\ Files = 1..Len(jaegerTraceFiles)
    BY <1>0, FileList DEF NamesInv, IInv, Files
  <2>2. i \in 0..Len(jaegerTraceFiles)
    BY <1>0 DEF NamesInv, IInv, Counting
  <2> QED
    BY <2>1, <2>2, <1>0
<1>2. metrics[n] = Named(n)
  BY <1>0, <1>1 DEF NamesInv, MetricsOK
<1>3. Merged = before /\ Merged' = before \cup {n} /\ IsFiniteSet(before)
  <2>1. IsFiniteSet(before)
    <3>1. i \in Int /\ 1 \in Int
      BY <1>1
    <3> QED
      BY <3>1, FS_Interval
  <2>2. Merged = before
    BY <1>0 DEF Merged
  <2>3. Merged' = 1..n
    BY <1>0 DEF Merged
  <2> QED
    BY <1>1, <2>1, <2>2, <2>3
<1>4. /\ TimesOf(exclusive.callpathTime, Chains, OwnTimes, before)
      /\ WorstOf(exclusive.exampleMap, Examples, before)
  BY <1>0, <1>3 DEF TipsOK
<1>5. /\ Chains[n] = Named(n).callChain /\ OwnTimes[n] = Named(n).callpathTimeExclusive
      /\ Examples[n] = Named(n).exampleMap
  BY <1>1 DEF Chains, OwnTimes, Examples
<1>6. /\ \A o \in DOMAIN Chains[n] : \A q \in Chains[n][o] : OwnTimes[n][q] \in Int
      /\ \A g \in before \cup {n} : \A q \in DOMAIN Examples[g] : Examples[g][q] \in Int
  <2>1. \A g \in before \cup {n} : g \in Files
    BY <1>1
  <2>2. \A g \in Files : Examples[g] = Named(g).exampleMap
    BY DEF Examples
  <2> QED
    BY <1>0, <1>1, <1>5, <2>1, <2>2, TipsAreNumbers
<1> DEFINE C == Chains
           T == OwnTimes
           E == Examples
           dict == exclusive.callpathTime
           ex == exclusive.exampleMap
<1> HIDE DEF n, before, C, T, E, dict, ex
<1>7. TimesOf(mergeCallpathTime(C[n], T[n], dict), C, T, before \cup {n})
  BY <1>1, <1>3, <1>4, <1>6, MergeTimes DEF C, T, dict
<1>8. WorstOf(mergeExampleID(Id(n), E[n], ex), E, before \cup {n})
  BY <1>4, <1>6, MergeExamples DEF E, ex
<1>9. /\ TimesOf(exclusive'.callpathTime, Chains, OwnTimes, Merged')
      /\ WorstOf(exclusive'.exampleMap, Examples, Merged')
  BY <1>0, <1>2, <1>3, <1>5, <1>7, <1>8 DEF C, T, E, dict, ex
<1>10. Chains' = Chains /\ OwnTimes' = OwnTimes /\ Examples' = Examples
  BY <1>0, SameTips
<1>11. WorstOf(exclusive.exampleMap, Examples, Merged)' = WorstOf(exclusive'.exampleMap, Examples, Merged')
  <2>1. \A f : Id(f)' = Id(f)
    BY <1>0, SameInputs
  <2> QED
    BY <1>10, <2>1 DEF WorstOf
<1> QED
  BY <1>9, <1>10, <1>11 DEF TipsOK

(* Every other step leaves them as they are.                               *)
LEMMA NextTips == TipsInv /\ [Next]_vars => TipsInv'
<1> SUFFICES ASSUME TipsInv, [Next]_vars PROVE TipsInv'
  OBVIOUS
<1>0. NamesInv /\ TipsOK /\ NamesInv'
  BY NextNames DEF TipsInv
<1>len. Len(jaegerTraceFiles) \in Nat /\ Files = 1..Len(jaegerTraceFiles) /\ Files' = Files
        /\ jaegerTraceFiles' = jaegerTraceFiles
  BY <1>0, FileList, SameInputs DEF NamesInv, IInv, Files
<1>1. ASSUME exclusive' = exclusive, Merged = {}, Merged' = {},
             phase \in {"args", "map", "sanitize", "aggregate"}
      PROVE  TipsOK'
  <2>1. DOMAIN exclusive.callpathTime = {} /\ DOMAIN exclusive.exampleMap = {}
    BY <1>0, <1>1, NothingInTips DEF TipsOK
  <2> DEFINE C == Chains'
             T == OwnTimes'
             E == Examples'
             dict == exclusive'.callpathTime
             ex == exclusive'.exampleMap
  <2>2. DOMAIN dict = {} /\ DOMAIN ex = {}
    BY <1>1, <2>1
  <2> HIDE DEF C, T, E, dict, ex
  <2>3. TimesOf(dict, C, T, {})
    BY <2>2 DEF TimesOf
  <2>4. WorstOf(exclusive.exampleMap, Examples, Merged)'
    BY <2>2, <1>1 DEF WorstOf, ex
  <2> QED
    BY <2>3, <2>4, <1>1 DEF TipsOK, C, T, dict
<1>2. ASSUME exclusive' = exclusive, saniMap' = saniMap, Merged' = Merged,
             phase \in {"args", "map", "sanitize", "aggregate", "flame", "tables", "written"}
      PROVE  TipsOK'
  <2>1. /\ TimesOf(exclusive.callpathTime, Chains, OwnTimes, Merged)
        /\ WorstOf(exclusive.exampleMap, Examples, Merged)
    BY <1>0, <1>2 DEF TipsOK
  <2>2. /\ Chains' = Chains /\ OwnTimes' = OwnTimes /\ Examples' = Examples
        /\ \A f : Id(f)' = Id(f)
    BY <1>2, SameTips, SameInputs
  <2>3. TimesOf(exclusive.callpathTime, Chains, OwnTimes, Merged)'
    BY <1>2, <2>1, <2>2
  <2>4. WorstOf(exclusive.exampleMap, Examples, Merged)'
    BY <1>2, <2>1, <2>2 DEF WorstOf
  <2> QED
    BY <2>3, <2>4 DEF TipsOK
<1>3. CASE CheckArgs \/ \E w \in DOMAIN busy : Take(w) \/ Finish(w)
  <2>1. phase \in {"args", "map"} /\ phase' \in {"args", "map", "failed"} /\ exclusive' = exclusive
    BY <1>3 DEF CheckArgs, Take, Finish, results
  <2>2. Merged = {} /\ Merged' = {}
    BY <2>1 DEF Merged
  <2> QED
    BY <2>1, <2>2, <1>0, <1>1 DEF TipsInv
<1>4. CASE Gather
  <2>1. phase = "map" /\ exclusive' = exclusive /\ phase' \in {"failed", "sanitize", "aggregate"}
        /\ i = 0 /\ i' = i
    BY <1>4, <1>0 DEF Gather, results, NamesInv, IInv, Counting
  <2>2. Merged = {} /\ Merged' = {}
    BY <2>1 DEF Merged
  <2> QED
    BY <2>1, <2>2, <1>0, <1>1 DEF TipsInv
<1>5. CASE SanitizeTrace \/ Sanitized
  <2>1. phase = "sanitize" /\ exclusive' = exclusive
        /\ (phase' = "sanitize" \/ (phase' = "aggregate" /\ i' = 0))
    BY <1>5 DEF SanitizeTrace, Sanitized, results
  <2>2. Merged = {} /\ Merged' = {}
    BY <2>1 DEF Merged
  <2> QED
    BY <2>1, <2>2, <1>0, <1>1 DEF TipsInv
<1>6. CASE AggregateTrace
  BY <1>6, <1>0, AggregateTips DEF TipsInv
<1>7. CASE Aggregated
  <2>1. /\ phase = "aggregate" /\ phase' = "flame" /\ i = Len(jaegerTraceFiles)
        /\ saniMap' = saniMap /\ exclusive' = exclusive
    BY <1>7 DEF Aggregated, results
  <2>2. Merged' = Merged
    BY <2>1, <1>len DEF Merged
  <2> QED
    BY <2>1, <2>2, <1>0, <1>2 DEF TipsInv
<1>8. CASE FlameGraph \/ Drawn \/ HeatmapAndSummary
  <2>1. /\ phase \in {"flame", "tables"} /\ phase' \in {"flame", "tables", "written"}
        /\ saniMap' = saniMap /\ exclusive' = exclusive
    BY <1>8 DEF FlameGraph, Drawn, HeatmapAndSummary, results
  <2>2. Merged' = Merged
    BY <2>1, <1>len DEF Merged
  <2> QED
    BY <2>1, <2>2, <1>0, <1>2 DEF TipsInv
<1>9. CASE ToolFails \/ KeyError
  <2>1. phase' \in {"failed", "aborted"}
    BY <1>9 DEF ToolFails, KeyError
  <2> QED
    BY <2>1, <1>0 DEF TipsInv, TipsOK
<1>10. CASE UNCHANGED vars
  <2>1. phase' = phase /\ exclusive' = exclusive /\ saniMap' = saniMap /\ i' = i
    BY <1>10 DEF vars, results
  <2>2. Merged' = Merged
    BY <2>1, <1>len DEF Merged
  <2>3. CASE phase \in {"args", "map", "sanitize", "aggregate", "flame", "tables", "written"}
    BY <2>1, <2>2, <2>3, <1>0, <1>2 DEF TipsInv
  <2>4. CASE phase \notin {"args", "map", "sanitize", "aggregate", "flame", "tables", "written"}
    BY <2>1, <2>4, <1>0 DEF TipsInv, TipsOK
  <2> QED
    BY <2>3, <2>4
<1> QED
  BY <1>3, <1>4, <1>5, <1>6, <1>7, <1>8, <1>9, <1>10 DEF Next

(* In a report every tool tip shows the times of its own call path, in the *)
(* order of the files, and no smaller example, however many traces there   *)
(* are, in whatever order they were analysed, and whatever was drawn in    *)
(* between.                                                                *)
THEOREM TooltipsAreExact == Spec => []TooltipsExact
<1>1. ASSUME TipsInv, Written, NEW f \in Found, NEW o \in DOMAIN input[f].chain
      PROVE  LET p == input[f].chain[o]
                 users == {g \in Found : o \in DOMAIN input[g].chain /\ input[g].chain[o] = p}
                 times == exclusive.callpathTime[NewOp(o)][NewPath(p)]
             IN /\ Len(times) = Cardinality(users)
                /\ \A g \in users :
                      times[Cardinality({h \in users : h <= g})] = input[g].self[p]
  <2> DEFINE p == input[f].chain[o]
             users == {g \in Found : o \in DOMAIN input[g].chain /\ input[g].chain[o] = p}
             dict == exclusive.callpathTime
             times == dict[NewOp(o)][NewPath(p)]
  <2>1. /\ NamesInv /\ phase \in {"aggregate", "flame", "tables", "written"}
        /\ TimesOf(dict, Chains, OwnTimes, Files)
    BY <1>1 DEF TipsInv, TipsOK, Written, Merged
  <2>2. \A g \in Found : /\ g \in Files /\ input[g] \in Traces /\ Chains[g] = Named(g).callChain
                         /\ OwnTimes[g] = Named(g).callpathTimeExclusive
                         /\ input[g].chain \in [DOMAIN input[g].chain -> DOMAIN input[g].self]
    BY TracesAssumption DEF Found, Chains, OwnTimes
  <2>3. p \in DOMAIN input[f].self
    BY <1>1, <2>2
  <2>4. ASSUME NEW g \in Files
        PROVE  g \in users <=> NewOp(o) \in DOMAIN Chains[g] /\ NewPath(p) \in Chains[g][NewOp(o)]
    <3>1. CASE g \notin Found
      <4>1. DOMAIN Named(g).callChain = {} /\ Chains[g] = Named(g).callChain
        BY <3>1, <2>1, TipsAreNumbers DEF Chains
      <4> QED
        BY <3>1, <4>1
    <3>2. CASE g \in Found
      <4> DEFINE t == input[g]
      <4>1. /\ DOMAIN Named(g).callChain = {NewOp(x) : x \in DOMAIN t.chain}
            /\ \A x \in DOMAIN t.chain : Named(g).callChain[NewOp(x)] = {NewPath(t.chain[x])}
        BY <3>2, <2>1, NamedPaths
      <4>2. /\ \A x \in DOMAIN t.chain : NewOp(o) = NewOp(x) => o = x
            /\ \A q \in DOMAIN t.self : NewPath(p) = NewPath(q) => p = q
        BY <3>2, <2>1, <2>3, <1>1, PathsApart
      <4>3. Chains[g] = Named(g).callChain /\ \A x \in DOMAIN t.chain : t.chain[x] \in DOMAIN t.self
        BY <3>2, <2>2
      <4>4. g \in users <=> o \in DOMAIN t.chain /\ t.chain[o] = p
        BY <3>2
      <4> HIDE DEF t, p, users
      <4>5. NewOp(o) \in DOMAIN Chains[g] <=> o \in DOMAIN t.chain
        BY <4>1, <4>2, <4>3
      <4>6. o \in DOMAIN t.chain => (NewPath(p) \in Chains[g][NewOp(o)] <=> t.chain[o] = p)
        BY <4>1, <4>2, <4>3
      <4> QED
        BY <4>4, <4>5, <4>6
    <3> QED
      BY <3>1, <3>2
  <2>5. users = Users(Chains, NewOp(o), NewPath(p), Files) /\ f \in users
    <3>1. users \subseteq Files /\ f \in users
      BY <2>2
    <3> HIDE DEF users, p
    <3> QED
      BY <2>4, <3>1 DEF Users
  <2>6. NewOp(o) \in DOMAIN dict
    <3>1. f \in Files /\ NewOp(o) \in DOMAIN Chains[f]
      BY <2>2, <2>4, <2>5
    <3> HIDE DEF dict
    <3> QED
      BY <2>1, <3>1 DEF TimesOf
  <2>7. InOrder(times, OwnTimes, NewPath(p), users)
    <3> HIDE DEF dict, users, p
    <3> QED
      BY <2>1, <2>5, <2>6 DEF TimesOf
  <2>8. \A g \in users : OwnTimes[g][NewPath(p)] = input[g].self[p]
    <3> SUFFICES ASSUME NEW g \in users PROVE OwnTimes[g][NewPath(p)] = input[g].self[p]
      OBVIOUS
    <3>1. g \in Found /\ p \in DOMAIN input[g].self /\ OwnTimes[g] = Named(g).callpathTimeExclusive
      BY <2>2
    <3> HIDE DEF p, users
    <3> QED
      BY <3>1, <2>1, NamedPaths
  <2> HIDE DEF p, users, times
  <2>9. Len(times) = Cardinality(users) /\ \A g \in users : times[Place(g, users)] = input[g].self[p]
    BY <2>7, <2>8 DEF InOrder
  <2> QED
    BY <2>9 DEF Place, p, users, times
<1>2. ASSUME TipsInv, Written, NEW f \in Found, NEW p \in DOMAIN input[f].self
      PROVE  LET worst == exclusive.exampleMap[NewPath(p)] IN
             /\ worst[2] >= True(f).exampleMap[p]
             /\ \E g \in Found :
                   /\ getTraceIdFromFilePath(jaegerTraceFiles[g]) = worst[1]
                   /\ p \in DOMAIN input[g].self /\ True(g).exampleMap[p] = worst[2]
  <2> DEFINE ex == exclusive.exampleMap
             q == NewPath(p)
  <2>1. /\ NamesInv /\ phase \in {"aggregate", "flame", "tables", "written"}
        /\ WorstOf(ex, Examples, Files)
    BY <1>2 DEF TipsInv, TipsOK, Written, Merged
  <2>2. f \in Files /\ \A g \in Files : Examples[g] = Named(g).exampleMap
    BY DEF Found, Examples
  <2>3. q \in DOMAIN Examples[f] /\ Examples[f][q] = True(f).exampleMap[p]
    BY <1>2, <2>1, <2>2, NamedPaths
  <2> HIDE DEF ex, q
  <2>4. q \in DOMAIN ex
    BY <2>1, <2>2, <2>3 DEF WorstOf
  <2>5. ex[q][2] >= Examples[f][q]
    BY <2>1, <2>2, <2>3, <2>4 DEF WorstOf
  <2>6. PICK g \in Files : q \in DOMAIN Examples[g] /\ ex[q] = <<Id(g), Examples[g][q]>>
    BY <2>1, <2>4 DEF WorstOf
  <2>7. g \in Found
    BY <2>1, <2>2, <2>6, TipsAreNumbers
  <2>8. PICK x \in DOMAIN input[g].self : q = NewPath(x)
    BY <2>1, <2>2, <2>6, <2>7, NamedPaths
  <2>9. p = x
    BY <1>2, <2>1, <2>7, <2>8, PathsApart DEF q
  <2>10. Examples[g][q] = True(g).exampleMap[p]
    BY <2>1, <2>2, <2>6, <2>7, <2>8, <2>9, NamedPaths
  <2>11. ex[q][1] = Id(g) /\ ex[q][2] = True(g).exampleMap[p]
    BY <2>6, <2>10
  <2> QED
    BY <2>3, <2>5, <2>7, <2>8, <2>9, <2>11 DEF ex, q, Id
<1>3. TipsInv => TooltipsExact
  BY <1>1, <1>2 DEF TooltipsExact
<1> QED
  BY <1>3, InitTips, NextTips, PTL DEF Spec
=============================================================================
