---------------------------- MODULE CriticalPath ----------------------------
(***************************************************************************)
(* Graph.computeCriticalPath and happensBefore of CRISP/graph.py: the      *)
(* recursion that picks, below every span it visits, the child that ends   *)
(* last and then, backwards in time, each child that ends before the one   *)
(* picked last starts, with an allowance for clock skew.                   *)
(*                                                                         *)
(* Nodes are numbered in the order of the children dictionaries, as in     *)
(* SpanWindows, and the spans have been cut to their parents' windows. A   *)
(* call returns its own list, which the caller appends to its list at      *)
(* once; the concatenation is the order in which the calls are entered, so *)
(* cp is extended at the entry of a call. lastStartTime is never used.     *)
(***************************************************************************)
EXTENDS Integers, Sequences, FiniteSets

CONSTANTS Nodes, Root, NoNode,
          Starts, Durations,   \* of the spans, once they are cut
          Allowance   \* 1 / _OVERLAP_ALLOWANCE_FRACTION

ASSUME NodesAssumption == Nodes \subseteq Nat /\ Root \in Nodes /\ NoNode \notin Nodes
ASSUME FiniteAssumption == IsFiniteSet(Nodes)
ASSUME TimesAssumption == Starts \subseteq Nat /\ Durations \subseteq Nat
ASSUME AllowanceAssumption == Allowance \in Nat \ {0}

VARIABLES
    start, end, dur, parent, kids,  \* the graph, which this walk only reads
    stack,                          \* curNode of every call in progress, the innermost last
    todo,                           \* children the loop of each call has not looked at
    lrc,                            \* last child each call put on the path, NoNode before
    cp                              \* the critical path, in the order of the calls

graph == <<start, end, dur, parent, kids>>
vars == <<start, end, dur, parent, kids, stack, todo, lrc, cp>>

(* A graph of the shape parseNode and sanitizeOverflowingChildren leave.   *)
Linked ==
    /\ parent \in [Nodes -> Nodes \cup {NoNode}]
    /\ \A n \in Nodes : parent[n] = NoNode <=> n = Root
    /\ start \in [Nodes -> Starts]
    /\ dur \in [Nodes -> Durations]
    /\ end = [n \in Nodes |-> start[n] + dur[n]]
    /\ kids = [n \in Nodes |-> {c \in Nodes : parent[c] = n}]

Fitted ==
    \A n \in Nodes : \A c \in kids[n] : start[n] <= start[c] /\ end[c] <= end[n]

Walk(root) ==
    /\ stack = <<root>>
    /\ todo = kids
    /\ lrc = [n \in Nodes |-> NoNode]
    /\ cp = <<root>>

(* Fault variants, here and below: what the definition after each would be *)
(* with a slip in the code. They are not part of Next.                     *)
InitUncut == Linked /\ Walk(Root)

Init == Linked /\ Fitted /\ Walk(Root)

-----------------------------------------------------------------------------
cur == stack[Len(stack)]
Finished == stack = <<>>

InFileOrder(c, d) == c < d

(* The order of sortedChildren: a stable sort by end time, reversed.       *)
ComesFirst(c, d) == end[c] > end[d] \/ (end[c] = end[d] /\ c > d)
IsNext(c) == ~Finished /\ c \in todo[cur] /\ \A d \in todo[cur] \ {c} : ComesFirst(c, d)

OwnEventsOnly(siblings, from, to) == 2

numSyncEventsInWindowInclusive(siblings, from, to) ==
    LET InWindow(t) == from <= t /\ t <= to IN
    Cardinality({c \in siblings : InWindow(start[c])}) +
    Cardinality({c \in siblings : InWindow(end[c])})

(* The part of happensBefore's second condition evaluated before the       *)
(* division by the duration of the parent.                                 *)
Staggered(before, later) == end[before] < end[later] /\ start[before] < start[later]

AnyOverlap(p, before, later) == dur[p] > 0

(* a / b < _OVERLAP_ALLOWANCE_FRACTION, with b > 0.                        *)
SmallOverlap(p, before, later) == (end[before] - start[later]) * Allowance < dur[p]

happensBefore(p, before, later) ==
    \/ end[before] < start[later]
    \/ /\ Staggered(before, later)
       /\ SmallOverlap(p, before, later)
       /\ numSyncEventsInWindowInclusive(kids[p], start[later], end[before]) = 2

ExtendOldLrc(c) ==
    /\ todo' = [todo EXCEPT ![cur] = @ \ {c}]
    /\ lrc' = [lrc EXCEPT ![cur] = c]
    /\ stack' = Append(stack, lrc[cur])
    /\ cp' = Append(cp, lrc[cur])
    /\ UNCHANGED graph

(* The call on cur puts its child c on the path and enters the call on c.  *)
Extend(c) ==
    /\ todo' = [todo EXCEPT ![cur] = @ \ {c}]
    /\ lrc' = [lrc EXCEPT ![cur] = c]
    /\ stack' = Append(stack, c)
    /\ cp' = Append(cp, c)
    /\ UNCHANGED graph

EarlierRepeatsLrc(c) ==
    /\ IsNext(c) /\ lrc[cur] # NoNode
    /\ happensBefore(cur, c, lrc[cur])
    /\ ExtendOldLrc(c)

TakeLatest(c) == IsNext(c) /\ lrc[cur] = NoNode /\ Extend(c)

TakeEarlier(c) ==
    /\ IsNext(c) /\ lrc[cur] # NoNode
    /\ happensBefore(cur, c, lrc[cur])
    /\ Extend(c)

SkipOverlapping(c) ==
    /\ IsNext(c) /\ lrc[cur] # NoNode
    /\ ~happensBefore(cur, c, lrc[cur])
    /\ todo' = [todo EXCEPT ![cur] = @ \ {c}]
    /\ UNCHANGED <<start, end, dur, parent, kids, stack, lrc, cp>>

Return ==
    /\ ~Finished /\ todo[cur] = {}
    /\ stack' = SubSeq(stack, 1, Len(stack) - 1)
    /\ UNCHANGED <<start, end, dur, parent, kids, todo, lrc, cp>>

Next ==
    \/ \E c \in Nodes : TakeLatest(c) \/ TakeEarlier(c) \/ SkipOverlapping(c)
    \/ Return

Spec == Init /\ [][Next]_vars

-----------------------------------------------------------------------------
TypeOK ==
    /\ start \in [Nodes -> Nat] /\ end \in [Nodes -> Nat] /\ dur \in [Nodes -> Nat]
    /\ parent \in [Nodes -> Nodes \cup {NoNode}]
    /\ kids \in [Nodes -> SUBSET Nodes]
    /\ stack \in Seq(Nodes)
    /\ todo \in [Nodes -> SUBSET Nodes]
    /\ lrc \in [Nodes -> Nodes \cup {NoNode}]
    /\ cp \in Seq(Nodes)

(* happensBefore divides by the duration of the parent. Whenever its       *)
(* earlier conditions let the division happen, that duration is not zero:  *)
(* this is the cutting of the children and nothing in happensBefore.       *)
NoZeroDivision ==
    \A c \in Nodes :
        (IsNext(c) /\ lrc[cur] # NoNode)
            => end[c] < start[lrc[cur]] \/ ~Staggered(c, lrc[cur]) \/ dur[cur] # 0

(* The path starts at the root, goes from a span it has reached to a child *)
(* of that span, and reaches no span twice: getMetrics subtracts each span *)
(* once, from a parent that is on the path too.                            *)
PathConnected ==
    /\ Len(cp) > 0 /\ cp[1] = Root
    /\ \A i \in 2..Len(cp) : \E j \in 1..(i - 1) : cp[i] \in kids[cp[j]]
    /\ \A i, j \in 1..Len(cp) : cp[i] = cp[j] => i = j

Path == {cp[i] : i \in 1..Len(cp)}

(* The recursion picks spans as BackwardPath does: the child that ends     *)
(* last, then earlier and earlier ones, each below a span picked before.   *)
Backward == INSTANCE BackwardPath WITH picked <- Path
PicksBackwards == Backward!Spec

Siblings(i, j) == i < j /\ parent[cp[i]] = parent[cp[j]]

(* "allow a 1 % overlap": any two children on the path, not only those the *)
(* code compares, overlap by less than that fraction of their parent.      *)
OverlapBounded ==
    \A i, j \in 1..Len(cp) :
        Siblings(i, j) => (end[cp[j]] - start[cp[i]]) * Allowance < dur[parent[cp[i]]]

(* "there is no other overlapping child in this region": two children with *)
(* a third between them on the path do not overlap, so no instant of the   *)
(* parent is charged to three of its children.                             *)
NoTripleOverlap ==
    \A i, j, k \in 1..Len(cp) :
        Siblings(i, j) /\ Siblings(j, k) => end[cp[k]] < start[cp[i]]

(* Nothing that fits is left out: a child of a span on the path that is    *)
(* not on the path itself overlaps a chosen sibling that ends no earlier.  *)
(* In particular the child that ends last, or one that ends with it, is on *)
(* the path.                                                               *)
NoGapMissed ==
    Finished => \A n \in Nodes : n \in Path =>
        \A c \in kids[n] :
            c \in Path \/ \E l \in kids[n] : l \in Path /\ start[l] <= end[c] /\ end[c] <= end[l]
=============================================================================
