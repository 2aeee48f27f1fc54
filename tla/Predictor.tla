------------------------------ MODULE Predictor ------------------------------
(***************************************************************************)
(* predictor/online_predictor.py with process, mapReduce and run_CRISP of  *)
(* CRISP/process.py: from trace files to the overhead printed for each of  *)
(* them. CRISP itself is one step per file here; what it does is in the    *)
(* modules TraceGraph, SpanWindows, CriticalPath and SpanMetrics.          *)
(*                                                                         *)
(* The five components a model predicts are two here: reading, and the     *)
(* others, which the code treats alike. Sizes and rates are the defaults   *)
(* for every call and part of Cost. Overheads are in hundredths, so that   *)
(* a percentage of them is a whole number.                                 *)
(***************************************************************************)
EXTENDS Integers, Sequences, FiniteSets, Functions

CONSTANTS Files,          \* number of trace files
          Services, CriticalPaths,   \* sequences of the services called
          Protocols,      \* protocols the profiler knows, "tcp" among them
          Cost,           \* predictions of a model: Cost[type][protocol].read, .others
          Gain            \* percentages of the speed-up profile: Gain.READ, Gain.OTHERS

ASSUME FilesAssumption == Files \in Nat
ASSUME PathsAssumption == CriticalPaths \subseteq Seq(Services) \ {<<>>}
ASSUME CostAssumption ==
    \A type \in {"latency", "cpu"}, p \in Protocols :
        Cost[type][p].read \in Int /\ Cost[type][p].others \in Int
ASSUME GainAssumption == Gain.READ \in 0..100 /\ Gain.OTHERS \in 0..100

VARIABLES
    content, path,       \* what CRISP finds in each file
    inputsReadable,      \* the profile has the platform, the deployment files can be parsed
    service_to_proxy,    \* from the deployment files
    models,              \* the profile: protocols with a model, by type
    speedup,             \* -s: "none", "unreadable", "flat" as speedup.yml (no key SPEEDUP),
                         \* "nested" as the code reads it
    pc, file, call,      \* position in the script
    critical_paths, parsed,
    reported, reportedOpt           \* names and numbers that were printed

inputs == <<content, path, inputsReadable, service_to_proxy, models, speedup>>
vars == <<content, path, inputsReadable, service_to_proxy, models, speedup, pc, file, call,
          critical_paths, parsed, reported, reportedOpt>>

Types == {"latency", "cpu"}

(* A file that cannot be opened, parsed or made a graph of; one without    *)
(* the configured root; and one with it. The second can be read as well.   *)
Contents == {"broken", "rootless", "rooted"}
SpeedupProfiles == {"none", "unreadable", "flat", "nested"}

Init ==
    /\ content \in [1..Files -> Contents]
    /\ path \in [1..Files -> CriticalPaths]
    /\ service_to_proxy \in UNION {[S -> Protocols \cup {"unknown"}] : S \in SUBSET Services}
    /\ inputsReadable \in BOOLEAN
    /\ models \in [Types -> SUBSET Protocols]
    /\ speedup \in SpeedupProfiles
    /\ pc = "crisp" /\ file = 1 /\ call = 1
    /\ critical_paths = <<>> /\ parsed = <<>>
    /\ reported = <<>> /\ reportedOpt = <<>>

-----------------------------------------------------------------------------
GoTo(stage) == pc' = stage /\ file' = 1 /\ call' = 1
NextStage(stage) ==
    CASE stage = "latency" -> "cpu" [] stage = "cpu" -> "print"
      [] stage = "latencyOpt" -> "cpuOpt" [] stage = "cpuOpt" -> "printOpt"

(* process has no handler: what open, json.load or Graph raise leaves it.  *)
(* Else it returns a bare Metrics object without a root, or a triple.      *)
CrispResult(f) ==
    CASE content[f] = "broken" -> [shape |-> "raised"]
      [] content[f] = "rootless" -> [shape |-> "metrics"]
      [] content[f] = "rooted" -> [shape |-> "triple", services |-> path[f], name |-> f]

(* run_CRISP, with one worker: the files one after the other. (After a     *)
(* file that raises the worker skips the rest, whose results are lost with *)
(* those of the map.)                                                      *)
ProcessTrace ==
    /\ pc = "crisp" /\ file <= Files
    /\ critical_paths' = Append(critical_paths, CrispResult(file))
    /\ file' = file + 1
    /\ UNCHANGED <<inputs, pc, call, parsed, reported, reportedOpt>>

Raised == \E k \in 1..Len(critical_paths) : critical_paths[k].shape = "raised"

(* Pool.map raises again what one call of process raised, and with it the  *)
(* results of all the others are gone.                                     *)
MapRaises ==
    /\ pc = "crisp" /\ file > Files /\ Raised
    /\ GoTo("failed")
    /\ UNCHANGED <<inputs, critical_paths, parsed, reported, reportedOpt>>

(* The profile, the platform in it, and the deployment files.              *)
LoadProfile ==
    /\ pc = "crisp" /\ file > Files /\ ~Raised
    /\ GoTo(IF inputsReadable THEN "parse" ELSE "failed")
    /\ UNCHANGED <<inputs, critical_paths, parsed, reported, reportedOpt>>

protocol(s) == IF s \in DOMAIN service_to_proxy THEN service_to_proxy[s] ELSE "tcp"

Critical_Path(cp) ==
    [parsed_cp |-> [k \in DOMAIN cp.services |-> protocol(cp.services[k])], trace_name |-> cp.name,
     latency |-> 0, cpu |-> 0, latencyOpt |-> 0, cpuOpt |-> 0]

(* parse_critical_path_from_CRISP: a bare Metrics object has no cp[0].     *)
ParsePath ==
    /\ pc = "parse" /\ file <= Files
    /\ IF critical_paths[file].shape = "triple"
       THEN /\ parsed' = Append(parsed, Critical_Path(critical_paths[file]))
            /\ file' = file + 1 /\ UNCHANGED <<pc, call>>
       ELSE GoTo("failed") /\ UNCHANGED parsed
    /\ UNCHANGED <<inputs, critical_paths, reported, reportedOpt>>

ParseEnds ==
    /\ pc = "parse" /\ file > Files
    /\ GoTo("latency")
    /\ UNCHANGED <<inputs, critical_paths, parsed, reported, reportedOpt>>

(* predict. Only the first summand is divided by 100.                      *)
predict(type, p) == 100 * (Cost[type][p].read + Cost[type][p].others)
predictOpt(type, p) ==
    Cost[type][p].read * (100 - Gain.READ) + 100 * Cost[type][p].others * (100 - Gain.OTHERS)

TypeOf(stage) == IF stage \in {"latency", "latencyOpt"} THEN "latency" ELSE "cpu"
Optimized(stage) == stage \in {"latencyOpt", "cpuOpt"}
Predicting == pc \in {"latency", "cpu", "latencyOpt", "cpuOpt"}

(* The accumulator a prediction is added to depends on the pass.           *)
Add(cp, p) ==
    CASE pc = "latency" -> [cp EXCEPT !.latency = @ + predict("latency", p)]
      [] pc = "cpu" -> [cp EXCEPT !.cpu = @ + predict("cpu", p)]
      [] pc = "latencyOpt" -> [cp EXCEPT !.latencyOpt = @ + predictOpt("latency", p)]
      [] pc = "cpuOpt" -> [cp EXCEPT !.cpuOpt = @ + predictOpt("cpu", p)]

NoModel(p) == p \notin models[TypeOf(pc)]

(* A missing model is a KeyError; in the second passes speedup.SPEEDUP is  *)
(* an AttributeError unless the profile has that key.                      *)
PredictFails(p) == NoModel(p) \/ (Optimized(pc) /\ speedup = "flat")

(* A fault variant: what NextTrace would be with a slip in the code.       *)
StartAtSecond ==
    /\ Predicting /\ file <= Len(parsed) /\ call > Len(parsed[file].parsed_cp)
    /\ file' = file + 1 /\ call' = 2
    /\ UNCHANGED <<inputs, pc, critical_paths, parsed, reported, reportedOpt>>

NextTrace ==
    /\ Predicting /\ file <= Len(parsed) /\ call > Len(parsed[file].parsed_cp)
    /\ file' = file + 1 /\ call' = 1
    /\ UNCHANGED <<inputs, pc, critical_paths, parsed, reported, reportedOpt>>

(* One call of predict_latency_overhead or predict_cpu_overhead.           *)
PredictCall ==
    /\ Predicting /\ file <= Len(parsed) /\ call <= Len(parsed[file].parsed_cp)
    /\ LET p == parsed[file].parsed_cp[call] IN
       IF PredictFails(p)
       THEN GoTo("failed") /\ UNCHANGED parsed
       ELSE /\ parsed' = [parsed EXCEPT ![file] = Add(@, p)]
            /\ call' = call + 1 /\ UNCHANGED <<pc, file>>
    /\ UNCHANGED <<inputs, critical_paths, reported, reportedOpt>>

PassEnds ==
    /\ Predicting /\ file > Len(parsed)
    /\ GoTo(NextStage(pc))
    /\ UNCHANGED <<inputs, critical_paths, parsed, reported, reportedOpt>>

Line(cp) == [trace |-> cp.trace_name, latency |-> cp.latency, cpu |-> cp.cpu]

(* The speed-up profile is read between the reports.                       *)
Report ==
    /\ pc = "print"
    /\ reported' = [k \in DOMAIN parsed |-> Line(parsed[k])]
    /\ GoTo(CASE speedup = "none" -> "done" [] speedup = "unreadable" -> "failed"
              [] OTHER -> "latencyOpt")
    /\ UNCHANGED <<inputs, critical_paths, parsed, reportedOpt>>

ReportOpt ==
    /\ pc = "printOpt"
    /\ reportedOpt' =
         [k \in DOMAIN parsed |->
            [trace |-> parsed[k].trace_name, latency |-> parsed[k].latencyOpt,
             cpu |-> parsed[k].cpuOpt]]
    /\ GoTo("done")
    /\ UNCHANGED <<inputs, critical_paths, parsed, reported>>

Next ==
    \/ ProcessTrace \/ MapRaises \/ LoadProfile \/ ParsePath \/ ParseEnds
    \/ PredictCall \/ NextTrace \/ PassEnds \/ Report \/ ReportOpt

Spec == Init /\ [][Next]_vars

-----------------------------------------------------------------------------
Over == pc \in {"done", "failed"}
Total(type, f) == SumFunction([k \in DOMAIN path[f] |-> predict(type, protocol(path[f][k]))])
TotalOpt(type, f) ==
    SumFunction([k \in DOMAIN path[f] |-> predictOpt(type, protocol(path[f][k]))])

(* What is printed for a trace is the sum over the calls on its own        *)
(* critical path, each counted once, with the model of its proxy.          *)
EachCallOnce ==
    /\ \A k \in 1..Len(reported) :
         reported[k] = [trace |-> k, latency |-> Total("latency", k), cpu |-> Total("cpu", k)]
    /\ \A k \in 1..Len(reportedOpt) :
         reportedOpt[k] = [trace |-> k, latency |-> TotalOpt("latency", k),
                           cpu |-> TotalOpt("cpu", k)]

(* Once CRISP has a directory of traces, a run fails exactly if a single   *)
(* file of it makes process raise or has no root, if the profile or the    *)
(* deployment cannot be used, if a call has no model, or if the speed-up   *)
(* profile cannot be read or has the form of the one that is shipped; and  *)
(* only in those last two cases after printing something.                  *)
FailureExplained ==
    LET bad == \/ ~inputsReadable
               \/ \E f \in 1..Files : content[f] # "rooted"
               \/ \E f \in 1..Files : \E type \in Types :
                    \E k \in DOMAIN path[f] : protocol(path[f][k]) \notin models[type]
    IN Over =>
         /\ pc = "failed" <=>
              bad \/ speedup = "unreadable" \/ (speedup = "flat" /\ Files > 0)
         /\ bad => reported = <<>>
         /\ ~bad => Len(reported) = Files

(* "10 means there is a 10% speedup": an overhead after an optimization is *)
(* not larger than before.                                                 *)
SpeedupHelps ==
    \A k \in 1..Len(reportedOpt) : reportedOpt[k].latency <= reported[k].latency
=============================================================================
