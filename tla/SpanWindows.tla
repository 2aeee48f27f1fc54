---------------------------- MODULE SpanWindows ----------------------------
(***************************************************************************)
(* Graph.sanitizeOverflowingChildren of CRISP/graph.py: the depth-first    *)
(* walk below rootNode that cuts every child span to the window of its     *)
(* parent, or takes it out of the graph.                                   *)
(*                                                                         *)
(* A node is the position of its span in the ordered dictionary nodeHT, so *)
(* the insertion order of a children dictionary is the order of numbers.   *)
(* No node is entered twice, so the loop variables of a call are kept per  *)
(* node (todo, removeList); stack is the Python call stack.                *)
(***************************************************************************)
EXTENDS Integers, Sequences, FiniteSets, FiniteSetsExt

CONSTANTS Nodes,    \* positions in nodeHT of the spans linked at or below the root
          Root,     \* rootNode
          NoNode,   \* None
          Times     \* start times and durations found in traces

ASSUME NodesAssumption ==
    Nodes \subseteq Nat /\ IsFiniteSet(Nodes) /\ Root \in Nodes /\ NoNode \notin Nodes
ASSUME TimesAssumption == Times \subseteq Nat

VARIABLES
    start, end, dur,   \* GraphNode.startTime, endTime, duration
    origDur,           \* GraphNode.originalDuration
    parent, kids,      \* GraphNode.parent, children
    stack,             \* curNode of every call in progress, the innermost last
    called,            \* nodes whose call has been entered (history)
    todo,              \* children the loop of each call has not reached yet
    removeList,        \* children each call has marked for deletion
    totalShrink, shrinkCounter,
    totalDrop          \* never incremented

windows == <<start, end, dur>>
counters == <<totalShrink, shrinkCounter, totalDrop>>
vars == <<start, end, dur, origDur, parent, kids, stack, called,
          todo, removeList, totalShrink, shrinkCounter, totalDrop>>

(* The links parseNode leaves below the root: every node has one parent    *)
(* and the root none. A cycle of references is possible, and unreachable.  *)
Init ==
    /\ parent \in [Nodes -> Nodes \cup {NoNode}]
    /\ \A n \in Nodes : parent[n] = NoNode <=> n = Root
    /\ start \in [Nodes -> Times]
    /\ dur \in [Nodes -> Times]
    /\ end = [n \in Nodes |-> start[n] + dur[n]]
    /\ origDur = dur
    /\ kids = [n \in Nodes |-> {c \in Nodes : parent[c] = n}]
    /\ stack = <<Root>>
    /\ called = {Root}
    /\ todo = kids
    /\ removeList = [n \in Nodes |-> {}]
    /\ totalShrink = 0 /\ shrinkCounter = 0 /\ totalDrop = 0

-----------------------------------------------------------------------------
Within(c, p) == start[p] <= start[c] /\ end[c] <= end[p]

(* Fault variants, here and below: what the definition after each would be *)
(* with a slip in the code. They are not part of Next; every property of   *)
(* the runs is shown to fail under one of them.                            *)
EntersOrPrecedes(c, p) == start[c] < start[p] /\ end[c] <= end[p]
LeavesOrCovers(c, p) == end[c] > end[p] /\ start[c] < end[p]

EntersEarly(c, p) == start[c] < start[p] /\ end[c] <= end[p] /\ end[c] > start[p]
LeavesLate(c, p) == start[p] <= start[c] /\ end[c] > end[p] /\ start[c] < end[p]

cur == stack[Len(stack)]    \* curNode of the innermost call
Finished == stack = <<>>

(* c is the child the loop of the innermost call looks at next.            *)
IsNext(c) == ~Finished /\ c \in todo[cur] /\ \A d \in todo[cur] : c <= d

DescendAgain(c) ==
    /\ stack' = Append(stack, c)
    /\ called' = called \cup {c}
    /\ UNCHANGED <<origDur, parent, kids, todo, removeList, totalDrop>>

(* The loop has dealt with c and the call on c is entered.                 *)
Descend(c) ==
    /\ todo' = [todo EXCEPT ![cur] = @ \ {c}]
    /\ stack' = Append(stack, c)
    /\ called' = called \cup {c}
    /\ UNCHANGED <<origDur, parent, kids, removeList, totalDrop>>

CountUnits(shrunk) ==
    /\ totalShrink' = totalShrink + shrunk
    /\ shrinkCounter' = shrinkCounter + shrunk

AddShrink(shrunk) ==
    /\ totalShrink' = totalShrink + shrunk
    /\ shrinkCounter' = shrinkCounter + 1

KeepChild(c) ==
    /\ IsNext(c) /\ Within(c, cur)
    /\ Descend(c)
    /\ UNCHANGED <<start, end, dur, totalShrink, shrinkCounter>>

TrimFrontOnlyStart(c) ==
    /\ IsNext(c) /\ EntersEarly(c, cur)
    /\ start' = [start EXCEPT ![c] = start[cur]]
    /\ UNCHANGED <<end, dur>>
    /\ AddShrink(start[cur] - start[c])
    /\ Descend(c)

TrimFront(c) ==
    LET shrunk == start[cur] - start[c] IN
    /\ IsNext(c) /\ EntersEarly(c, cur)
    /\ start' = [start EXCEPT ![c] = start[cur]]
    /\ dur' = [dur EXCEPT ![c] = @ - shrunk]
    /\ UNCHANGED end
    /\ AddShrink(shrunk)
    /\ Descend(c)

GrowParent(c) ==
    LET grown == end[c] - end[cur] IN
    /\ IsNext(c) /\ LeavesLate(c, cur)
    /\ dur' = [dur EXCEPT ![cur] = @ + grown]
    /\ end' = [end EXCEPT ![cur] = @ + grown]
    /\ UNCHANGED start
    /\ AddShrink(grown)
    /\ Descend(c)

TrimBack(c) ==
    LET shrunk == end[c] - end[cur] IN
    /\ IsNext(c) /\ LeavesLate(c, cur)
    /\ dur' = [dur EXCEPT ![c] = @ - shrunk]
    /\ end' = [end EXCEPT ![c] = @ - shrunk]
    /\ UNCHANGED start
    /\ AddShrink(shrunk)
    /\ Descend(c)

MarkDropped(c) ==
    /\ IsNext(c)
    /\ ~Within(c, cur) /\ ~EntersEarly(c, cur) /\ ~LeavesLate(c, cur)
    /\ removeList' = [removeList EXCEPT ![cur] = @ \cup {c}]
    /\ todo' = [todo EXCEPT ![cur] = @ \ {c}]
    /\ UNCHANGED <<start, end, dur, origDur, parent, kids, stack, called,
                   totalShrink, shrinkCounter, totalDrop>>

ReturnKeepsParents ==
    /\ ~Finished /\ todo[cur] = {}
    /\ kids' = [kids EXCEPT ![cur] = @ \ removeList[cur]]
    /\ stack' = SubSeq(stack, 1, Len(stack) - 1)
    /\ UNCHANGED <<start, end, dur, origDur, parent, called, todo, removeList,
                   totalShrink, shrinkCounter, totalDrop>>

(* The loop is over: the marked children lose both links and the call      *)
(* returns.                                                                *)
Return ==
    /\ ~Finished /\ todo[cur] = {}
    /\ parent' = [n \in Nodes |-> IF n \in removeList[cur] THEN NoNode ELSE parent[n]]
    /\ kids' = [kids EXCEPT ![cur] = @ \ removeList[cur]]
    /\ stack' = SubSeq(stack, 1, Len(stack) - 1)
    /\ UNCHANGED <<start, end, dur, origDur, called, todo, removeList,
                   totalShrink, shrinkCounter, totalDrop>>

Next ==
    \/ \E c \in Nodes : KeepChild(c) \/ TrimFront(c) \/ TrimBack(c) \/ MarkDropped(c)
    \/ Return

(* One process runs the recursion to its end: a step that can be taken is  *)
(* taken.                                                                  *)
Spec == Init /\ [][Next]_vars /\ WF_vars(Next)

-----------------------------------------------------------------------------
TypeOK ==
    /\ start \in [Nodes -> Nat]
    /\ end \in [Nodes -> Nat]
    /\ dur \in [Nodes -> Nat]
    /\ origDur \in [Nodes -> Nat]
    /\ parent \in [Nodes -> Nodes \cup {NoNode}]
    /\ kids \in [Nodes -> SUBSET Nodes]
    /\ stack \in Seq(Nodes)
    /\ called \subseteq Nodes
    /\ todo \in [Nodes -> SUBSET Nodes]
    /\ removeList \in [Nodes -> SUBSET Nodes]
    /\ totalShrink \in Nat /\ shrinkCounter \in Nat /\ totalDrop \in Nat

(* Start, end and duration are edited separately: whatever is cut, they    *)
(* keep describing one window, which is never of negative length.          *)
WindowsConsistent == \A n \in Nodes : end[n] = start[n] + dur[n]

(* After the walk every child a node still has lies in the node's window,  *)
(* and so has been walked itself: this is what computeCriticalPath and     *)
(* getMetrics rely on when they subtract a child's time from its parent.   *)
ChildrenFit ==
    Finished => \A n \in called : \A c \in kids[n] : c \in called /\ Within(c, n)

(* parent and children agree between any two calls: a deleted child has    *)
(* lost both links, a kept one has both, so getCallPath climbs from any    *)
(* reachable span to the root.                                             *)
LinksAgree ==
    \A n \in Nodes, c \in Nodes : c \in kids[n] <=> parent[c] = n

(* totalShrink is the time that was cut from all the spans, and            *)
(* shrinkCounter the number of spans that were cut.                        *)
ShrinkAccounted ==
    /\ totalShrink = SumFunction([n \in Nodes |-> origDur[n] - dur[n]])
    /\ shrinkCounter = Cardinality({n \in Nodes : dur[n] < origDur[n]})

(* The caller's copies parentStart and parentEnd stay right: once the call *)
(* on a node is entered, nobody moves the node's window.                   *)
CalledWindowsFrozen ==
    [][\A n \in called : start'[n] = start[n] /\ end'[n] = end[n]]_vars

(* The recursion ends, whatever the references of the trace.               *)
Termination == <>Finished
=============================================================================
