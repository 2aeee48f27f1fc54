---------------------------- MODULE SpanMetrics ----------------------------
(***************************************************************************)
(* What becomes of a linked graph in CRISP/graph.py and process.py: its    *)
(* spans are cut (module SpanWindows), the critical path is searched in    *)
(* what is left (module CriticalPath, on the same variables), and          *)
(* getMetrics walks the path from its end to its beginning, adding every   *)
(* span to the profiles and taking it from its parent's exclusive times.   *)
(*                                                                         *)
(* A Python dictionary is a function whose domain is the set of its keys.  *)
(* A call path, the operations joined by "->", is their sequence.          *)
(***************************************************************************)
EXTENDS CriticalPath, FiniteSetsExt

CONSTANT Ops    \* canonicalOpName: "[service] operation"

VARIABLES
    origDur, called, removeList, totalShrink, shrinkCounter, totalDrop,   \* of SpanWindows
    op,                          \* the operation of each span
    left,                        \* spans of the path still to be added
    opTimeExclusive, opTimeInclusive,
    callpathTimeExclusive, callpathTimeInclusive,
    exclusiveExampleMap, inclusiveExampleMap,
    callChain,
    totalTime, numNodes, depth,  \* what the metrics end with, 0 before
    phase                        \* "cut", "path", "spans", "done"

SW == INSTANCE SpanWindows WITH Times <- Starts \cup Durations

cutVars == <<origDur, called, removeList, totalShrink, shrinkCounter, totalDrop>>
pathVars == <<graph, stack, todo, cutVars, lrc, cp>>
flat == <<opTimeExclusive, opTimeInclusive>>
byPath == <<callpathTimeExclusive, callpathTimeInclusive>>
examples == <<exclusiveExampleMap, inclusiveExampleMap>>
stats == <<totalTime, numNodes, depth>>
metrics == <<op, left, flat, byPath, examples, callChain, stats>>
processVars == <<pathVars, metrics, phase>>

NoKeys == [k \in {} |-> 0]

(* Every span hangs from the root; cycles of references beside it are left *)
(* to SpanWindows.                                                         *)
Tree ==
    /\ parent \in [Nodes -> Nodes \cup {NoNode}]
    /\ \A B \in SUBSET Nodes :
          Root \in B /\ (\A n \in Nodes : parent[n] \in B => n \in B) => B = Nodes

ProcessInit ==
    /\ Tree /\ start \in [Nodes -> Starts] /\ dur \in [Nodes -> Durations]
    /\ SW!Init
    /\ lrc = [n \in Nodes |-> NoNode] /\ cp = <<>>
    /\ op \in [Nodes -> Ops]
    /\ left = 0 /\ phase = "cut"
    /\ opTimeExclusive = NoKeys /\ opTimeInclusive = NoKeys
    /\ callpathTimeExclusive = NoKeys /\ callpathTimeInclusive = NoKeys
    /\ exclusiveExampleMap = NoKeys /\ inclusiveExampleMap = NoKeys
    /\ callChain = NoKeys
    /\ totalTime = 0 /\ numNodes = 0 /\ depth = 0

-----------------------------------------------------------------------------
Put(dict, key, value) ==
    [k \in DOMAIN dict \cup {key} |-> IF k = key THEN value ELSE dict[k]]

(* Fault variants, here and below: what the definition after each would be *)
(* with a slip in the code.                                                *)
InsertInDict(dict, key, value) ==
    IF key \in DOMAIN dict THEN dict ELSE Put(dict, key, value)

accumulateInDict(dict, key, value) ==
    Put(dict, key, IF key \in DOMAIN dict THEN dict[key] + value ELSE value)

maxExample(dict, key, sid, value) ==
    IF key \in DOMAIN dict /\ value <= dict[key][2]
    THEN dict
    ELSE Put(dict, key, <<sid, value>>)

getCallPath(n) ==
    LET path[m \in Nodes] ==
          IF parent[m] = NoNode THEN <<op[m]>> ELSE Append(path[parent[m]], op[m])
    IN path[n]

TakeIfThere(dict, key, parentKey, n) ==
    LET added == accumulateInDict(dict, key, dur[n])
    IN IF n # Root /\ parentKey \in DOMAIN added
       THEN accumulateInDict(added, parentKey, -dur[n]) ELSE added

(* An exclusive profile after span n: its duration is added, and, but for  *)
(* the root, taken from its parent, whose entry may not be there yet.      *)
Exclusive(dict, key, parentKey, n) ==
    IF n = Root THEN accumulateInDict(dict, key, dur[n])
    ELSE accumulateInDict(accumulateInDict(dict, key, dur[n]), parentKey, -dur[n])

(* The operation is looked up in self.callChain, which stays empty: the    *)
(* list is a new one for every span.                                       *)
RecordChain(key, path) == Put(callChain, key, <<path>>)

(* One iteration of the loop over reversed(criticalPath).                  *)
AddSpan ==
    LET n == cp[left]
        path == getCallPath(n)
        up == IF n = Root THEN path ELSE getCallPath(parent[n])
        upOp == IF n = Root THEN op[n] ELSE op[parent[n]]
    IN
    /\ phase = "spans" /\ left > 0
    /\ left' = left - 1
    /\ callChain' = RecordChain(op[n], path)
    /\ opTimeExclusive' = Exclusive(opTimeExclusive, op[n], upOp, n)
    /\ opTimeInclusive' = accumulateInDict(opTimeInclusive, op[n], dur[n])
    /\ callpathTimeExclusive' = Exclusive(callpathTimeExclusive, path, up, n)
    /\ callpathTimeInclusive' = accumulateInDict(callpathTimeInclusive, path, dur[n])
    /\ exclusiveExampleMap' = maxExample(exclusiveExampleMap, path, n, dur[n])
    /\ inclusiveExampleMap' = maxExample(inclusiveExampleMap, path, n, dur[n])
    /\ UNCHANGED <<pathVars, op, stats, phase>>

(* Number of spans and of levels below root, the root included.            *)
computeGraphStats(root) ==
    LET descendants[n \in Nodes] == 1 + MapThenSumSet(LAMBDA c : descendants[c], kids[n])
        deep[n \in Nodes] == 1 + Max({0} \cup {deep[c] : c \in kids[n]})
    IN <<descendants[root], deep[root]>>

CutSpans ==
    /\ phase = "cut"
    /\ SW!Next
    /\ UNCHANGED <<lrc, cp, metrics, phase>>

(* The pass over the windows is over: Graph is built, and findCriticalPath *)
(* is called on it.                                                        *)
StartPath ==
    /\ phase = "cut" /\ SW!Finished
    /\ phase' = "path"
    /\ stack' = <<Root>> /\ todo' = kids /\ cp' = <<Root>>
    /\ UNCHANGED <<graph, cutVars, lrc, metrics>>

FindPath ==
    /\ phase = "path"
    /\ Next
    /\ UNCHANGED <<cutVars, metrics, phase>>

StartMetrics ==
    /\ phase = "path" /\ Finished
    /\ phase' = "spans" /\ left' = Len(cp)
    /\ UNCHANGED <<pathVars, op, flat, byPath, examples, callChain, stats>>

(* The loop is over; process adds the entries totalTime.                   *)
Finish ==
    /\ phase = "spans" /\ left = 0
    /\ numNodes' = computeGraphStats(Root)[1] /\ depth' = computeGraphStats(Root)[2]
    /\ totalTime' = dur[Root]
    /\ phase' = "done"
    /\ UNCHANGED <<pathVars, op, left, flat, byPath, examples, callChain>>

ProcessNext ==
    CutSpans \/ StartPath \/ FindPath \/ StartMetrics \/ AddSpan \/ Finish

ProcessSpec == ProcessInit /\ [][ProcessNext]_processVars

-----------------------------------------------------------------------------
Done == phase = "done"
Sum(f, S) == MapThenSumSet(LAMBDA x : f[x], S)
Chosen(n) == kids[n] \cap Path
selfTime == [n \in Nodes |-> dur[n] - Sum(dur, Chosen(n))]
CallPaths == {getCallPath(n) : n \in Path}
At(path) == {n \in Path : getCallPath(n) = path}
LastOf(path) == path[Len(path)]

(* Both exclusive profiles distribute the duration of the root: whatever   *)
(* is added for a span is taken from its parent, which is on the path.     *)
TimeConserved ==
    Done => /\ Sum(opTimeExclusive, DOMAIN opTimeExclusive) = totalTime
            /\ Sum(callpathTimeExclusive, DOMAIN callpathTimeExclusive) = totalTime

(* Each call path's exclusive time is the time its spans on the critical   *)
(* path do not spend in their children on the path, and its inclusive time *)
(* the sum of their durations, although parents are added after children.  *)
CallPathTimes ==
    Done => \A p \in CallPaths :
        /\ callpathTimeExclusive[p] = Sum(selfTime, At(p))
        /\ callpathTimeInclusive[p] = Sum(dur, At(p))

(* The flat profile is at any time the call path profile, summed up by the *)
(* last operation of the paths.                                            *)
ProfilesAgree ==
    LET Ends(dict, o) == {p \in DOMAIN dict : LastOf(p) = o} IN
    /\ \A o \in DOMAIN opTimeExclusive :
         opTimeExclusive[o] = Sum(callpathTimeExclusive, Ends(callpathTimeExclusive, o))
    /\ \A o \in DOMAIN opTimeInclusive :
         opTimeInclusive[o] = Sum(callpathTimeInclusive, Ends(callpathTimeInclusive, o))

(* Overlaps of children on the path can make a span's exclusive time       *)
(* negative, but by less than the allowance for each pair of neighbours.   *)
SelfTimeBounded ==
    Done => \A n \in Path :
        LET k == Cardinality(Chosen(n)) IN
        /\ k <= 1 => selfTime[n] >= 0
        /\ k > 1 => selfTime[n] * Allowance > -((k - 1) * dur[n])
=============================================================================
