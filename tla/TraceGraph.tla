----------------------------- MODULE TraceGraph -----------------------------
(***************************************************************************)
(* Graph.__init__ and Graph.parseNode of CRISP/graph.py: spans are read in *)
(* file order into the ordered dictionary nodeHT, linked by their CHILD_OF *)
(* references, and a root is chosen, either the only span without a parent *)
(* (rootTrace) or the first span a depth-first search finds with the       *)
(* wanted service and operation name.                                      *)
(*                                                                         *)
(* The file is the input: ReadSpan takes whatever span comes next. A node  *)
(* is named by its span identifier, which is its key in nodeHT.            *)
(***************************************************************************)
EXTENDS Integers, SequencesExt

CONSTANTS SpanIds, NoNode, MaxSpans,
          RefLists   \* the lists of references of a span: [type, span] records

ASSUME SpanIdsAssumption == NoNode \notin SpanIds
ASSUME MaxSpansAssumption == MaxSpans \in Nat

VARIABLES
    rootTrace,         \* argument: the root must be the trace's own root
    phase,             \* what __init__ is doing
    spansRead,         \* number of spans read, up to MaxSpans
    nodeHT,            \* keys of nodeHT in the order of their first insertion
    parentSpanId, matches,   \* of each node: its reference, whether its names are the wanted ones
    linked,            \* number of nodes the third pass has linked
    parent, children,  \* the links; children in insertion order
    potentialRoots,
    agenda,            \* nodes the search is still to visit, the next first
    candidates,        \* potential roots the loop has not tried
    rootNode

file == <<rootTrace, spansRead, nodeHT, parentSpanId, matches>>
links == <<linked, parent, children, potentialRoots>>
search == <<agenda, candidates, rootNode>>
vars == <<rootTrace, phase, spansRead, nodeHT, parentSpanId, matches, linked, parent,
          children, potentialRoots, agenda, candidates, rootNode>>

Init ==
    /\ rootTrace \in BOOLEAN
    /\ phase = "parse" /\ spansRead = 0 /\ linked = 0
    /\ nodeHT = <<>> /\ potentialRoots = <<>>
    /\ parentSpanId = [s \in SpanIds |-> NoNode]
    /\ matches = [s \in SpanIds |-> FALSE]
    /\ parent = [s \in SpanIds |-> NoNode]
    /\ children = [s \in SpanIds |-> <<>>]
    /\ agenda = <<>> /\ candidates = <<>>
    /\ rootNode = NoNode

Known == ToSet(nodeHT)

-----------------------------------------------------------------------------
(* The loop over the references keeps the last one of type CHILD_OF.       *)
LastParent(refs) ==
    LET childOf == {i \in DOMAIN refs : refs[i].type = "CHILD_OF"}
    IN  IF childOf = {} THEN NoNode ELSE refs[Max(childOf)].span

(* Pass 2. A second span with the same identifier replaces the first, in   *)
(* the first one's place.                                                  *)
ReadSpan(s, refs, match) ==
    /\ phase = "parse" /\ spansRead < MaxSpans
    /\ nodeHT' = IF s \in Known THEN nodeHT ELSE Append(nodeHT, s)
    /\ parentSpanId' = [parentSpanId EXCEPT ![s] = LastParent(refs)]
    /\ matches' = [matches EXCEPT ![s] = match]
    /\ spansRead' = spansRead + 1
    /\ UNCHANGED <<rootTrace, phase, links, search>>

EndOfSpans ==
    /\ phase = "parse" /\ phase' = "link"
    /\ UNCHANGED <<file, links, search>>

me == nodeHT[linked + 1]

(* Pass 3, one node: a span with no parent, or with a parent that is not   *)
(* in the file, is a potential root; any other is linked.                  *)
AddPotentialRoot ==
    /\ phase = "link" /\ linked < Len(nodeHT)
    /\ parentSpanId[me] \notin Known
    /\ potentialRoots' = Append(potentialRoots, me)
    /\ linked' = linked + 1
    /\ UNCHANGED <<phase, parent, children, file, search>>

Link ==
    /\ phase = "link" /\ linked < Len(nodeHT)
    /\ parentSpanId[me] \in Known
    /\ parent' = [parent EXCEPT ![me] = parentSpanId[me]]
    /\ children' = [children EXCEPT ![parentSpanId[me]] = Append(@, me)]
    /\ linked' = linked + 1
    /\ UNCHANGED <<phase, potentialRoots, file, search>>

(* With rootTrace the only potential root is taken if its names match;     *)
(* otherwise the search starts, with no candidate when there is no root.   *)
ChooseTraceRoot ==
    /\ phase = "link" /\ linked = Len(nodeHT) /\ rootTrace
    /\ phase' = "done"
    /\ rootNode' = IF Len(potentialRoots) = 1 /\ matches[potentialRoots[1]]
                   THEN potentialRoots[1] ELSE NoNode
    /\ UNCHANGED <<agenda, candidates, file, links>>

StartSearch ==
    /\ phase = "link" /\ linked = Len(nodeHT) /\ ~rootTrace
    /\ phase' = "search"
    /\ candidates' = potentialRoots
    /\ UNCHANGED <<agenda, rootNode, file, links>>

(* Fault variants, here and below: what the definition after each would be *)
(* with a slip in the code. They are not part of Next.                     *)
FirstCandidateOnly ==
    /\ phase = "search" /\ agenda = <<>> /\ candidates # <<>>
    /\ agenda' = <<Head(candidates)>>
    /\ candidates' = <<>>
    /\ UNCHANGED <<phase, rootNode, file, links>>

CandidateAgain ==
    /\ phase = "search" /\ agenda = <<>> /\ candidates # <<>>
    /\ agenda' = <<Head(candidates)>>
    /\ UNCHANGED <<phase, candidates, rootNode, file, links>>

NextCandidate ==
    /\ phase = "search" /\ agenda = <<>> /\ candidates # <<>>
    /\ agenda' = <<Head(candidates)>>
    /\ candidates' = Tail(candidates)
    /\ UNCHANGED <<phase, rootNode, file, links>>

DescendFirst ==
    /\ phase = "search" /\ agenda # <<>>
    /\ ~matches[Head(agenda)] \/ children[Head(agenda)] # <<>>
    /\ agenda' = children[Head(agenda)] \o Tail(agenda)
    /\ UNCHANGED <<phase, candidates, rootNode, file, links>>

(* findARoot on a node that does not match looks at its children first.    *)
Descend ==
    /\ phase = "search" /\ agenda # <<>> /\ ~matches[Head(agenda)]
    /\ agenda' = children[Head(agenda)] \o Tail(agenda)
    /\ UNCHANGED <<phase, candidates, rootNode, file, links>>

(* The match becomes the root and forgets its parent, which still lists it *)
(* among its children.                                                     *)
FindKeepingParent ==
    /\ phase = "search" /\ agenda # <<>> /\ matches[Head(agenda)]
    /\ rootNode' = Head(agenda)
    /\ phase' = "done"
    /\ UNCHANGED <<agenda, candidates, file, links>>

Find ==
    /\ phase = "search" /\ agenda # <<>> /\ matches[Head(agenda)]
    /\ rootNode' = Head(agenda)
    /\ parent' = [parent EXCEPT ![Head(agenda)] = NoNode]
    /\ phase' = "done"
    /\ UNCHANGED <<agenda, candidates, file, linked, children, potentialRoots>>

GiveUp ==
    /\ phase = "search" /\ agenda = <<>> /\ candidates = <<>>
    /\ phase' = "done"
    /\ UNCHANGED <<file, links, search>>

Next ==
    \/ \E s \in SpanIds, refs \in RefLists, match \in BOOLEAN : ReadSpan(s, refs, match)
    \/ EndOfSpans \/ AddPotentialRoot \/ Link
    \/ ChooseTraceRoot \/ StartSearch \/ NextCandidate \/ Descend \/ Find \/ GiveUp

Spec == Init /\ [][Next]_vars /\ WF_vars(Next)

-----------------------------------------------------------------------------
(* The ancestors of a node by the references of the file, itself among     *)
(* them: what is in every set that holds the node and leads out of itself  *)
(* by no reference. A reference cycle is no special case.                  *)
ClosedUpwards ==
    {S \in SUBSET SpanIds : \A m \in S : parentSpanId[m] \in Known => parentSpanId[m] \in S}
Ancestors(n) == {m \in SpanIds : \A S \in ClosedUpwards : n \in S => m \in S}
HangsFromRoot(n) == \E r \in ToSet(potentialRoots) : r \in Ancestors(n)
Below(r) == {n \in Known : r \in Ancestors(n)}
Position(n) == CHOOSE i \in DOMAIN nodeHT : nodeHT[i] = n

(* What the passes over the tree rely on, whatever the references of the   *)
(* file: below the chosen root every span but the root has one parent,     *)
(* which lists it once and in the order of nodeHT, and getCallPath, which  *)
(* climbs until it meets None, climbs to the root and no further.          *)
TreeBelowRoot ==
    (phase = "done" /\ rootNode # NoNode) =>
        /\ parent[rootNode] = NoNode
        /\ \A n \in Below(rootNode) :
             /\ n # rootNode => parent[n] \in Below(rootNode) /\ parent[n] # n
             /\ \A i, j \in DOMAIN children[n] :
                  i < j => Position(children[n][i]) < Position(children[n][j])
             /\ \A c \in Below(rootNode) \ {rootNode} :
                  c \in ToSet(children[n]) <=> parent[c] = n

(* "a DFS for finding the first node that matches": the search gives up    *)
(* only if every span with the wanted names hangs from a reference cycle.  *)
NoMatchMissed ==
    (phase = "done" /\ ~rootTrace /\ rootNode = NoNode) =>
        \A n \in Known : matches[n] => ~HangsFromRoot(n)

(* No span above the chosen root has the wanted names: the search takes    *)
(* the outermost of nested calls of the operation.                         *)
OutermostMatch ==
    (phase = "done" /\ rootNode # NoNode) =>
        \A n \in Ancestors(rootNode) \ {rootNode} : ~matches[n]

(* Reading, linking and searching end, on cyclic references too.           *)
Termination == <>(phase = "done")
=============================================================================
