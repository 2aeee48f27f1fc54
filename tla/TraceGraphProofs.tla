-------------------------- MODULE TraceGraphProofs --------------------------
(***************************************************************************)
(* For any number of spans and any references, cyclic ones included: below *)
(* the root that is chosen the links form a tree that lists every child    *)
(* once and in the order of the file, and the depth-first search takes an  *)
(* outermost span with the wanted names unless there is none to reach.     *)
(***************************************************************************)
EXTENDS TraceGraph, SequenceTheorems, FiniteSetTheorems, TLAPS

TypesOK ==
    /\ rootTrace \in BOOLEAN /\ phase \in {"parse", "link", "search", "done"}
    /\ nodeHT \in Seq(SpanIds) /\ matches \in [SpanIds -> BOOLEAN]
    /\ parentSpanId = [s \in SpanIds |-> parentSpanId[s]]
    /\ parent = [s \in SpanIds |-> parent[s]]
    /\ children \in [SpanIds -> Seq(SpanIds)]
    /\ linked \in 0..Len(nodeHT)
    /\ potentialRoots \in Seq(SpanIds)
    /\ agenda \in Seq(SpanIds) /\ candidates \in Seq(SpanIds)

(* An identifier has one place in nodeHT, and a reference once it is read. *)
FileOK ==
    /\ \A i, j \in 1..Len(nodeHT) : nodeHT[i] = nodeHT[j] => i = j
    /\ \A s \in SpanIds \ Known : parentSpanId[s] = NoNode

Linked == {nodeHT[i] : i \in 1..linked}
Referred(n) == n \in Linked /\ parentSpanId[n] \in Known

(* The third pass has linked the first nodes, whichever their references.  *)
LinksOK ==
    /\ phase = "parse" => linked = 0
    /\ phase \in {"search", "done"} => linked = Len(nodeHT)
    /\ \A n \in SpanIds \ {rootNode} :
          parent[n] = IF Referred(n) THEN parentSpanId[n] ELSE NoNode
    /\ \A m, c \in SpanIds : c \in ToSet(children[m]) <=> Referred(c) /\ parentSpanId[c] = m
    /\ ToSet(potentialRoots) = {n \in Linked : parentSpanId[n] \notin Known}

(* Children are listed in the order of nodeHT.                             *)
ChildrenInOrder ==
    \A m \in SpanIds : \A i, j \in 1..Len(children[m]) :
        i < j => \E k, l \in 1..Len(nodeHT) :
                    k < l /\ nodeHT[k] = children[m][i] /\ nodeHT[l] = children[m][j]

Outermost(n) == \A m \in Ancestors(n) \ {n} : ~matches[m]
ToVisit == ToSet(agenda) \cup ToSet(candidates)

(* What is still to be visited has no match above it, and every match that *)
(* hangs from a root has an ancestor that is still to be visited.          *)
SearchOK ==
    /\ phase \in {"parse", "link"} => agenda = <<>> /\ candidates = <<>>
    /\ ToVisit \subseteq Known /\ \A n \in ToVisit : Outermost(n)
    /\ phase = "search" =>
         \A n \in Known : matches[n] /\ HangsFromRoot(n) => Ancestors(n) \cap ToVisit # {}
    /\ phase # "done" => rootNode = NoNode
    /\ phase = "done" /\ rootNode # NoNode =>
         rootNode \in Known /\ parent[rootNode] = NoNode /\ Outermost(rootNode)
    /\ NoMatchMissed

Inv == TypesOK /\ FileOK /\ LinksOK /\ ChildrenInOrder /\ SearchOK

-----------------------------------------------------------------------------
(* The members of a sequence that grew, shrank or was put before another.  *)
LEMMA Members ==
  ASSUME NEW S, NEW s \in Seq(S)
  PROVE  /\ ToSet(s) \subseteq S
         /\ ToSet(s) = {s[i] : i \in 1..Len(s)}
         /\ \A x \in S : ToSet(Append(s, x)) = ToSet(s) \cup {x}
         /\ s # <<>> => Head(s) \in ToSet(s) /\ ToSet(s) = {Head(s)} \cup ToSet(Tail(s))
         /\ \A t \in Seq(S) : ToSet(t \o s) = ToSet(t) \cup ToSet(s)
<1>1. ToSet(s) \subseteq S /\ ToSet(s) = {s[i] : i \in 1..Len(s)}
  BY DEF ToSet
<1>2. ASSUME NEW x \in S PROVE ToSet(Append(s, x)) = ToSet(s) \cup {x}
  <2> DEFINE t == Append(s, x)
  <2>1. DOMAIN t = 1..(Len(s) + 1) /\ t[Len(s) + 1] = x /\ \A i \in 1..Len(s) : t[i] = s[i]
    OBVIOUS
  <2>2. \A i \in DOMAIN t : t[i] \in ToSet(s) \cup {x}
    <3> HIDE DEF t
    <3> QED
      BY <2>1, <1>1
  <2>3. \A y \in ToSet(s) \cup {x} : \E i \in DOMAIN t : t[i] = y
    <3>1. Len(s) \in Nat
      OBVIOUS
    <3> HIDE DEF t
    <3>2. Len(s) + 1 \in DOMAIN t /\ \A i \in 1..Len(s) : i \in DOMAIN t
      BY <2>1, <3>1
    <3> QED
      BY <2>1, <3>2, <1>1
  <2> HIDE DEF t
  <2> QED
    BY <2>2, <2>3 DEF ToSet, t
<1>3. ASSUME s # <<>>
      PROVE  Head(s) \in ToSet(s) /\ ToSet(s) = {Head(s)} \cup ToSet(Tail(s))
  <2>1. /\ Len(s) \in Nat \ {0} /\ Head(s) = s[1] /\ DOMAIN Tail(s) = 1..(Len(s) - 1)
        /\ \A i \in 1..(Len(s) - 1) : Tail(s)[i] = s[i + 1]
    BY <1>3
  <2>2. ToSet(Tail(s)) = {s[i + 1] : i \in 1..(Len(s) - 1)}
    BY <2>1 DEF ToSet
  <2>3. \A i \in 1..Len(s) : i = 1 \/ \E k \in 1..(Len(s) - 1) : i = k + 1
    <3> SUFFICES ASSUME NEW i \in 1..Len(s), i # 1
                 PROVE  \E k \in 1..(Len(s) - 1) : i = k + 1
      OBVIOUS
    <3>1. i - 1 \in 1..(Len(s) - 1) /\ i = (i - 1) + 1
      BY <2>1
    <3> QED
      BY <3>1
  <2>4. \A i \in 1..Len(s) : s[i] \in {s[1]} \cup {s[k + 1] : k \in 1..(Len(s) - 1)}
    BY <2>1, <2>3
  <2>5. \A i \in 1..(Len(s) - 1) : s[i + 1] \in ToSet(s)
    BY <2>1, <1>1
  <2> QED
    BY <2>1, <2>2, <2>4, <2>5, <1>1
<1>4. ASSUME NEW t \in Seq(S) PROVE ToSet(t \o s) = ToSet(t) \cup ToSet(s)
  <2> DEFINE u == t \o s
             m == Len(t)
             n == Len(s)
  <2>1. /\ DOMAIN u = 1..(m + n) /\ m \in Nat /\ n \in Nat
        /\ \A i \in 1..m : u[i] = t[i]
        /\ \A i \in 1..n : u[m + i] = s[i]
        /\ \A i \in 1..(m + n) : u[i] = IF i <= m THEN t[i] ELSE s[i - m]
        /\ ToSet(t) = {t[i] : i \in 1..m} /\ ToSet(s) = {s[i] : i \in 1..n}
    BY ConcatProperties DEF ToSet
  <2> HIDE DEF u, m, n
  <2>2. \A i \in DOMAIN u : u[i] \in ToSet(t) \cup ToSet(s)
    <3> SUFFICES ASSUME NEW i \in 1..(m + n) PROVE u[i] \in ToSet(t) \cup ToSet(s)
      BY <2>1
    <3>1. CASE i <= m
      BY <2>1, <3>1
    <3>2. CASE i > m
      <4>1. i - m \in 1..n /\ u[i] = s[i - m]
        BY <2>1, <3>2
      <4> QED
        BY <4>1, <2>1
    <3> QED
      BY <3>1, <3>2, <2>1
  <2>3. \A y \in ToSet(t) \cup ToSet(s) : \E i \in DOMAIN u : u[i] = y
    <3>1. \A i \in 1..m : i \in DOMAIN u
      BY <2>1
    <3>2. \A i \in 1..n : m + i \in DOMAIN u
      BY <2>1
    <3> QED
      BY <3>1, <3>2, <2>1
  <2> QED
    BY <2>2, <2>3 DEF ToSet, u
<1> QED
  BY <1>1, <1>2, <1>3, <1>4

(* A node is its own ancestor, and so is what its ancestors refer to.      *)
LEMMA AncestorsClosed ==
  ASSUME TypesOK, NEW n \in SpanIds
  PROVE  /\ n \in Ancestors(n)
         /\ Ancestors(n) \subseteq SpanIds
         /\ \A m \in Ancestors(n) : parentSpanId[m] \in Known => parentSpanId[m] \in Ancestors(n)
<1>1. Known \subseteq SpanIds
  BY Members DEF Known, TypesOK
<1> QED
  BY <1>1 DEF Ancestors, ClosedUpwards

(* It has no others: any set with these two properties holds them all.     *)
LEMMA AncestorsLeast ==
  ASSUME NEW n \in SpanIds, NEW S \in SUBSET SpanIds, n \in S,
         \A m \in S : parentSpanId[m] \in Known => parentSpanId[m] \in S
  PROVE  Ancestors(n) \subseteq S
BY DEF Ancestors, ClosedUpwards

(* The ancestors of a node are itself and those of what it refers to.      *)
LEMMA AncestorsUnfold ==
  ASSUME TypesOK, NEW n \in SpanIds
  PROVE  /\ parentSpanId[n] \notin Known => Ancestors(n) = {n}
         /\ parentSpanId[n] \in Known =>
               Ancestors(n) = {n} \cup Ancestors(parentSpanId[n])
<1>1. Known \subseteq SpanIds
  BY Members DEF Known, TypesOK
<1>2. CASE parentSpanId[n] \notin Known
  <2>1. Ancestors(n) \subseteq {n}
    BY <1>2, AncestorsLeast
  <2> QED
    BY <1>2, <2>1, AncestorsClosed
<1>3. CASE parentSpanId[n] \in Known
  <2> DEFINE p == parentSpanId[n]
             S == {n} \cup Ancestors(p)
  <2>1. p \in SpanIds /\ p \in Ancestors(n)
    BY <1>1, <1>3, AncestorsClosed
  <2>2. p \in Ancestors(p) /\ Ancestors(p) \subseteq SpanIds
    BY <2>1, AncestorsClosed
  <2>3. \A m \in S : parentSpanId[m] \in Known => parentSpanId[m] \in S
    BY <2>1, <2>2, AncestorsClosed
  <2>4. Ancestors(n) \subseteq S
    BY <2>2, <2>3, AncestorsLeast
  <2>5. Ancestors(p) \subseteq Ancestors(n)
    <3> HIDE DEF p
    <3> QED
      BY <2>1, AncestorsClosed, AncestorsLeast
  <2> QED
    BY <1>3, <2>4, <2>5, AncestorsClosed
<1> QED
  BY <1>2, <1>3

(* Between a node and an ancestor there is one that refers to the latter.  *)
LEMMA AncestorHasChild ==
  ASSUME TypesOK, NEW n \in SpanIds, NEW h \in Ancestors(n), h # n, h \in Known
  PROVE  \E c \in Ancestors(n) : parentSpanId[c] = h
<1> SUFFICES ASSUME \A c \in Ancestors(n) : parentSpanId[c] # h PROVE FALSE
  OBVIOUS
<1> DEFINE S == Ancestors(n) \ {h}
<1>1. n \in S /\ S \subseteq SpanIds
  BY AncestorsClosed
<1>2. \A m \in S : parentSpanId[m] \in Known => parentSpanId[m] \in S
  BY AncestorsClosed
<1>3. Ancestors(n) \subseteq S
  BY <1>1, <1>2, AncestorsLeast
<1> QED
  BY <1>3

(* The place of a span in nodeHT is where it stands.                       *)
LEMMA PositionIs ==
  ASSUME TypesOK, FileOK, NEW i \in 1..Len(nodeHT)
  PROVE  Position(nodeHT[i]) = i
<1>1. DOMAIN nodeHT = 1..Len(nodeHT)
  BY DEF TypesOK
<1>2. \A k \in DOMAIN nodeHT : nodeHT[k] = nodeHT[i] <=> k = i
  BY <1>1 DEF FileOK
<1> QED
  BY <1>1, <1>2 DEF Position

-----------------------------------------------------------------------------
(* The ancestors are a matter of the file alone.                           *)
LEMMA FileStays ==
  ASSUME UNCHANGED file
  PROVE  /\ Known' = Known
         /\ \A n : Ancestors(n)' = Ancestors(n) /\ Outermost(n)' = Outermost(n)
         /\ FileOK => FileOK'
<1>1. Known' = Known
  BY DEF file, Known
<1>2. \A n : Ancestors(n)' = Ancestors(n)
  BY <1>1 DEF file, Ancestors, ClosedUpwards
<1>3. \A n : Outermost(n)' = Outermost(n)
  BY <1>2 DEF file, Outermost
<1>4. FileOK => FileOK'
  BY <1>1 DEF file, FileOK
<1> QED
  BY <1>1, <1>2, <1>3, <1>4

(* A linked node is one of the file; all of them are when the links are    *)
(* complete.                                                               *)
LEMMA LinkedIsKnown ==
  ASSUME TypesOK
  PROVE  /\ Known \subseteq SpanIds /\ Linked \subseteq Known
         /\ Known = {nodeHT[i] : i \in 1..Len(nodeHT)}
         /\ linked = Len(nodeHT) => Linked = Known
<1>1. Known \subseteq SpanIds /\ Known = {nodeHT[i] : i \in 1..Len(nodeHT)}
  BY Members DEF Known, TypesOK
<1> QED
  BY <1>1 DEF Linked, TypesOK

(* Links that stay leave the children in the order of the file.            *)
LEMMA OrderStays ==
  ASSUME ChildrenInOrder, children' = children, nodeHT' = nodeHT
  PROVE  ChildrenInOrder'
BY DEF ChildrenInOrder

(* An empty graph has no links.                                            *)
LEMMA InitInv == Init => Inv
<1> SUFFICES ASSUME Init PROVE Inv
  OBVIOUS
<1> USE DEF Init
<1>1. TypesOK
  BY DEF TypesOK
<1>2. Known = {} /\ Linked = {} /\ ToVisit = {} /\ ToSet(potentialRoots) = {}
      /\ \A m \in SpanIds : children[m] = <<>> /\ ToSet(children[m]) = {}
  BY DEF Known, Linked, ToVisit, ToSet
<1>3. FileOK
  BY DEF FileOK
<1>4. LinksOK
  BY <1>2 DEF LinksOK, Referred
<1>5. ChildrenInOrder
  BY <1>2 DEF ChildrenInOrder
<1>6. SearchOK
  BY <1>2 DEF SearchOK, NoMatchMissed
<1> QED
  BY <1>1, <1>3, <1>4, <1>5, <1>6 DEF Inv

(* Reading a span keeps the invariant, under a new identifier or an old.   *)
LEMMA ReadSpanInv ==
  ASSUME Inv, NEW s \in SpanIds, NEW refs, NEW match \in BOOLEAN, ReadSpan(s, refs, match)
  PROVE  Inv'
<1> USE DEF ReadSpan, links, search
<1>0. /\ nodeHT \in Seq(SpanIds) /\ Len(nodeHT) \in Nat
      /\ Known = {nodeHT[i] : i \in 1..Len(nodeHT)}
      /\ \A i, j \in 1..Len(nodeHT) : nodeHT[i] = nodeHT[j] => i = j
      /\ \A n \in SpanIds \ Known : parentSpanId[n] = NoNode
      /\ parentSpanId = [n \in SpanIds |-> parentSpanId[n]]
  BY LinkedIsKnown DEF Inv, TypesOK, FileOK
<1>1. nodeHT' \in Seq(SpanIds) /\ Known' = Known \cup {s}
  <2>1. nodeHT' \in Seq(SpanIds)
    BY <1>0
  <2>2. CASE s \in Known
    BY <2>1, <2>2 DEF Known
  <2>3. CASE s \notin Known
    BY <2>1, <2>3, <1>0, Members DEF Known
  <2> QED
    BY <2>1, <2>2, <2>3
<1>2. linked = 0 /\ linked' = 0
  BY DEF Inv, LinksOK
<1>3. TypesOK'
  <2>1. Len(nodeHT') \in Nat
    BY <1>1
  <2>2. matches' \in [SpanIds -> BOOLEAN] /\ parentSpanId' = [n \in SpanIds |-> parentSpanId'[n]]
    <3>1. matches \in [SpanIds -> BOOLEAN]
      BY DEF Inv, TypesOK
    <3> QED
      BY <3>1, <1>0
  <2> QED
    BY <1>1, <1>2, <2>1, <2>2 DEF Inv, TypesOK
<1>4. FileOK'
  <2>1. \A n \in SpanIds \ Known' : parentSpanId'[n] = NoNode
    BY <1>0, <1>1
  <2>2. \A i, j \in 1..Len(nodeHT') : nodeHT'[i] = nodeHT'[j] => i = j
    <3>1. CASE s \in Known
      BY <3>1, <1>0
    <3>2. CASE s \notin Known
      <4>1. nodeHT' = Append(nodeHT, s) /\ Len(nodeHT') = Len(nodeHT) + 1
            /\ nodeHT'[Len(nodeHT) + 1] = s
            /\ \A i \in 1..Len(nodeHT) : nodeHT'[i] = nodeHT[i] /\ nodeHT[i] # s
        BY <3>2, <1>0
      <4>2. \A i \in 1..Len(nodeHT') : i \in 1..Len(nodeHT) \/ i = Len(nodeHT) + 1
        BY <4>1, <1>0
      <4> QED
        BY <4>1, <4>2, <1>0
    <3> QED
      BY <3>1, <3>2
  <2> QED
    BY <2>1, <2>2 DEF FileOK
<1>5. \A n : ~Referred(n) /\ ~Referred(n)' /\ n \notin Linked /\ n \notin Linked'
  BY <1>2 DEF Referred, Linked
<1>6. LinksOK'
  BY <1>2, <1>5 DEF Inv, LinksOK
<1>7. ChildrenInOrder'
  <2>1. \A m \in SpanIds : ToSet(children[m]) = {}
    <3>1. \A m \in SpanIds : children[m] \in Seq(SpanIds)
      BY DEF Inv, TypesOK
    <3>2. \A m \in SpanIds : ToSet(children[m]) \subseteq SpanIds
      BY <3>1, Members
    <3> QED
      BY <3>2, <1>5 DEF Inv, LinksOK
  <2>2. \A m \in SpanIds : 1..Len(children[m]) = {}
    <3> SUFFICES ASSUME NEW m \in SpanIds PROVE 1..Len(children[m]) = {}
      OBVIOUS
    <3>1. ToSet(children[m]) = {children[m][i] : i \in 1..Len(children[m])}
      BY Members DEF Inv, TypesOK
    <3> QED
      BY <3>1, <2>1
  <2> QED
    BY <2>2 DEF ChildrenInOrder
<1>8. SearchOK'
  <2>1. ToVisit' = {} /\ phase' = "parse" /\ rootNode' = NoNode
    BY DEF Inv, SearchOK, ToVisit, ToSet
  <2> QED
    BY <2>1 DEF Inv, SearchOK, NoMatchMissed
<1> QED
  BY <1>3, <1>4, <1>6, <1>7, <1>8 DEF Inv

(* The end of the file keeps it.                                           *)
LEMMA EndOfSpansInv == Inv /\ EndOfSpans => Inv'
<1> SUFFICES ASSUME Inv, EndOfSpans PROVE Inv'
  OBVIOUS
<1> USE DEF EndOfSpans, links, search
<1>1. UNCHANGED file /\ TypesOK'
  BY DEF Inv, TypesOK, file
<1>2. FileOK' /\ Known' = Known /\ \A n : Outermost(n)' = Outermost(n)
  BY <1>1, FileStays DEF Inv
<1>3. Linked' = Linked /\ (\A n : Referred(n)' = Referred(n)) /\ ToVisit' = ToVisit
  BY <1>1, <1>2 DEF Linked, Referred, file, ToVisit
<1>4. LinksOK' /\ ChildrenInOrder'
  BY <1>1, <1>2, <1>3 DEF Inv, LinksOK, ChildrenInOrder, file
<1>5. SearchOK'
  BY <1>2, <1>3 DEF Inv, SearchOK, NoMatchMissed
<1> QED
  BY <1>1, <1>2, <1>4, <1>5 DEF Inv

(* The next node to link is one of the file that is not linked yet.        *)
LEMMA MeIsNew ==
  ASSUME Inv, phase = "link", linked < Len(nodeHT), linked' = linked + 1, UNCHANGED file
  PROVE  /\ me \in Known /\ me \in SpanIds /\ me \notin Linked
         /\ Linked' = Linked \cup {me} /\ rootNode = NoNode
         /\ linked + 1 \in 1..Len(nodeHT)
<1>1. linked \in Nat /\ Len(nodeHT) \in Nat /\ linked + 1 \in 1..Len(nodeHT)
  BY DEF Inv, TypesOK
<1>2. me \in Known /\ me \in SpanIds
  BY <1>1, LinkedIsKnown DEF me, Inv
<1>3. me \notin Linked
  <2> SUFFICES ASSUME NEW i \in 1..linked, nodeHT[i] = nodeHT[linked + 1] PROVE FALSE
    BY DEF me, Linked
  <2>1. i \in 1..Len(nodeHT) /\ i # linked + 1
    BY <1>1
  <2> QED
    BY <2>1, <1>1 DEF Inv, FileOK
<1>4. Linked' = Linked \cup {me}
  <2>1. \A i \in 1..(linked + 1) : i \in 1..linked \/ i = linked + 1
    BY <1>1
  <2>2. linked + 1 \in 1..(linked + 1) /\ \A i \in 1..linked : i \in 1..(linked + 1)
    BY <1>1
  <2> QED
    BY <2>1, <2>2 DEF Linked, me, file
<1> QED
  BY <1>1, <1>2, <1>3, <1>4 DEF Inv, SearchOK

(* A node without a parent in the file becomes a potential root.           *)
LEMMA AddPotentialRootInv == Inv /\ AddPotentialRoot => Inv'
<1> SUFFICES ASSUME Inv, AddPotentialRoot PROVE Inv'
  OBVIOUS
<1> USE DEF AddPotentialRoot, search
<1>0. UNCHANGED file /\ phase = "link" /\ phase' = "link"
  OBVIOUS
<1>1. /\ me \in Known /\ me \in SpanIds /\ me \notin Linked
      /\ Linked' = Linked \cup {me} /\ rootNode = NoNode /\ linked + 1 \in 1..Len(nodeHT)
  BY <1>0, MeIsNew
<1>2. TypesOK'
  BY <1>0, <1>1 DEF Inv, TypesOK, file
<1>3. FileOK' /\ Known' = Known /\ \A n : Outermost(n)' = Outermost(n)
  BY <1>0, FileStays DEF Inv
<1>4. \A n : Referred(n)' = Referred(n)
  BY <1>0, <1>1, <1>3 DEF Referred, file
<1>5. LinksOK'
  <2>1. ToSet(potentialRoots') = {n \in Linked' : parentSpanId'[n] \notin Known'}
    <3>1. ToSet(potentialRoots') = ToSet(potentialRoots) \cup {me}
      BY <1>1, Members DEF Inv, TypesOK
    <3> QED
      BY <3>1, <1>0, <1>1, <1>3 DEF Inv, LinksOK, file
  <2> QED
    BY <2>1, <1>0, <1>4 DEF Inv, LinksOK, file
<1>6. ChildrenInOrder'
  BY <1>0, OrderStays DEF Inv, file
<1>7. SearchOK'
  <2>1. ToVisit' = ToVisit
    BY DEF ToVisit
  <2> QED
    BY <2>1, <1>0, <1>3 DEF Inv, SearchOK, NoMatchMissed
<1> QED
  BY <1>2, <1>3, <1>5, <1>6, <1>7 DEF Inv

(* A node with a parent in the file becomes its last child.                *)
LEMMA LinkInv == Inv /\ Link => Inv'
<1> SUFFICES ASSUME Inv, Link PROVE Inv'
  OBVIOUS
<1> USE DEF Link, search
<1>0. UNCHANGED file /\ phase = "link" /\ phase' = "link"
  OBVIOUS
<1>1. /\ me \in Known /\ me \in SpanIds /\ me \notin Linked
      /\ Linked' = Linked \cup {me} /\ rootNode = NoNode /\ linked + 1 \in 1..Len(nodeHT)
  BY <1>0, MeIsNew
<1> DEFINE p == parentSpanId[me]
<1>a. p \in SpanIds /\ p \in Known
  BY LinkedIsKnown DEF Inv
<1>b. children \in [SpanIds -> Seq(SpanIds)] /\ children' = [children EXCEPT ![p] = Append(@, me)]
      /\ parent = [n \in SpanIds |-> parent[n]] /\ parent' = [parent EXCEPT ![me] = p]
  BY DEF Inv, TypesOK
<1> HIDE DEF p
<1>2. TypesOK'
  <2>1. children' \in [SpanIds -> Seq(SpanIds)] /\ parent' = [n \in SpanIds |-> parent'[n]]
    <3>1. Append(children[p], me) \in Seq(SpanIds)
      BY <1>a, <1>b, <1>1
    <3>2. children' \in [SpanIds -> Seq(SpanIds)]
      BY <3>1, <1>a, <1>b
    <3> QED
      BY <3>2, <1>b, <1>1
  <2> QED
    BY <2>1, <1>0, <1>1 DEF Inv, TypesOK, file
<1>3. FileOK' /\ Known' = Known /\ \A n : Outermost(n)' = Outermost(n)
  BY <1>0, FileStays DEF Inv
<1>4. \A n : Referred(n)' <=> Referred(n) \/ n = me
  BY <1>0, <1>1, <1>3, <1>a DEF Referred, file, p
<1>c. ToSet(children'[p]) = ToSet(children[p]) \cup {me}
      /\ \A m \in SpanIds \ {p} : children'[m] = children[m]
  BY <1>a, <1>b, <1>1, Members
<1>5. LinksOK'
  <2>1. \A n \in SpanIds \ {rootNode'} :
           parent'[n] = IF Referred(n)' THEN parentSpanId'[n] ELSE NoNode
    <3> SUFFICES ASSUME NEW n \in SpanIds \ {rootNode}
                 PROVE  parent'[n] = IF Referred(n)' THEN parentSpanId[n] ELSE NoNode
      BY DEF file
    <3>1. parent[n] = IF Referred(n) THEN parentSpanId[n] ELSE NoNode
      BY DEF Inv, LinksOK
    <3>2. parent'[n] = IF n = me THEN p ELSE parent[n]
      BY <1>b, <1>1
    <3> QED
      BY <3>1, <3>2, <1>4 DEF p
  <2>2. ASSUME NEW m \in SpanIds, NEW c \in SpanIds
        PROVE  c \in ToSet(children'[m]) <=> Referred(c)' /\ parentSpanId'[c] = m
    <3>1. c \in ToSet(children[m]) <=> Referred(c) /\ parentSpanId[c] = m
      BY DEF Inv, LinksOK
    <3>2. ~Referred(me) /\ parentSpanId' = parentSpanId
      BY <1>0, <1>1 DEF Referred, file
    <3>3. CASE m = p
      BY <3>1, <3>2, <3>3, <1>4, <1>c DEF p
    <3>4. CASE m # p
      BY <3>1, <3>2, <3>4, <1>4, <1>c DEF p
    <3> QED
      BY <3>3, <3>4
  <2>3. ToSet(potentialRoots') = {n \in Linked' : parentSpanId'[n] \notin Known'}
    BY <1>0, <1>1, <1>3, <1>a DEF Inv, LinksOK, file, p
  <2> QED
    BY <2>1, <2>2, <2>3, <1>0 DEF LinksOK
<1>6. ChildrenInOrder'
  <2> SUFFICES ASSUME NEW m \in SpanIds, NEW i \in 1..Len(children'[m]),
                      NEW j \in 1..Len(children'[m]), i < j
               PROVE  \E k, l \in 1..Len(nodeHT) :
                        k < l /\ nodeHT[k] = children'[m][i] /\ nodeHT[l] = children'[m][j]
    <3>1. nodeHT' = nodeHT
      BY DEF file
    <3> USE <3>1 DEF ChildrenInOrder
    <3> HIDE DEF Link
    <3> QED
      OBVIOUS
  <2>1. CASE m # p
    <3>1. children'[m] = children[m]
      BY <2>1, <1>c
    <3>2. i \in 1..Len(children[m]) /\ j \in 1..Len(children[m])
      BY <3>1
    <3>3. PICK k \in 1..Len(nodeHT), l \in 1..Len(nodeHT) :
             k < l /\ nodeHT[k] = children[m][i] /\ nodeHT[l] = children[m][j]
      BY <3>2 DEF Inv, ChildrenInOrder
    <3> QED
      BY <3>1, <3>3
  <2>2. CASE m = p
    <3> DEFINE old == children[p]
    <3>1. old \in Seq(SpanIds) /\ children'[p] = Append(old, me)
      BY <1>a, <1>b
    <3>2. ToSet(old) = {old[x] : x \in 1..Len(old)} /\ ToSet(old) \subseteq SpanIds
      BY <3>1, Members
    <3>3. \A x \in 1..Len(old) : old[x] \in Linked
      BY <3>2, <1>a DEF Inv, LinksOK, Referred
    <3> HIDE DEF old
    <3>4. /\ Len(children'[p]) = Len(old) + 1 /\ Len(old) \in Nat
          /\ children'[p][Len(old) + 1] = me
          /\ \A x \in 1..Len(old) : children'[p][x] = old[x]
      <4>1. \A q \in Seq(SpanIds), x \in SpanIds :
               /\ Len(Append(q, x)) = Len(q) + 1 /\ Len(q) \in Nat
               /\ Append(q, x)[Len(q) + 1] = x
               /\ \A y \in 1..Len(q) : Append(q, x)[y] = q[y]
        OBVIOUS
      <4> HIDE DEF me, Link
      <4> QED
        BY <3>1, <4>1, <1>1
    <3>5. i \in 1..Len(old) /\ (j \in 1..Len(old) \/ j = Len(old) + 1)
      BY <3>4, <2>2
    <3>6. CASE j \in 1..Len(old)
      <4>1. PICK k \in 1..Len(nodeHT), l \in 1..Len(nodeHT) :
               k < l /\ nodeHT[k] = old[i] /\ nodeHT[l] = old[j]
        BY <3>5, <3>6, <1>a DEF Inv, ChildrenInOrder, old
      <4>2. children'[m][i] = old[i] /\ children'[m][j] = old[j]
        BY <3>4, <3>5, <3>6, <2>2
      <4> QED
        BY <4>1, <4>2
    <3>7. CASE j = Len(old) + 1
      <4>1. PICK k \in 1..linked : nodeHT[k] = old[i]
        BY <3>3, <3>5 DEF Linked
      <4>2. k \in 1..Len(nodeHT) /\ k < linked + 1
        <5>1. linked \in Nat /\ Len(nodeHT) \in Nat /\ linked + 1 \in 1..Len(nodeHT)
          BY <1>1 DEF Inv, TypesOK
        <5> QED
          BY <4>1, <5>1
      <4>3. nodeHT[linked + 1] = children'[m][j]
        BY <3>4, <3>7, <2>2 DEF me
      <4> QED
        BY <4>1, <4>2, <4>3, <3>4, <3>5, <2>2, <1>1
    <3> QED
      BY <3>5, <3>6, <3>7
  <2> QED
    BY <2>1, <2>2
<1>7. SearchOK'
  <2>1. ToVisit' = ToVisit
    BY DEF ToVisit
  <2> QED
    BY <2>1, <1>0, <1>3 DEF Inv, SearchOK, NoMatchMissed
<1> QED
  BY <1>2, <1>3, <1>5, <1>6, <1>7 DEF Inv

(* With rootTrace a root is the only span without a parent in the file.    *)
LEMMA ChooseTraceRootInv == Inv /\ ChooseTraceRoot => Inv'
<1> SUFFICES ASSUME Inv, ChooseTraceRoot PROVE Inv'
  OBVIOUS
<1> USE DEF ChooseTraceRoot, links
<1>0. UNCHANGED file /\ UNCHANGED <<nodeHT, children, parent, potentialRoots, linked>>
      /\ rootNode = NoNode /\ linked = Len(nodeHT)
  BY DEF Inv, SearchOK, file
<1>1. TypesOK'
  BY DEF Inv, TypesOK, file
<1>2. FileOK' /\ Known' = Known /\ \A n : Outermost(n)' = Outermost(n)
  BY <1>0, FileStays DEF Inv
<1>3. Linked' = Linked /\ (\A n : Referred(n)' = Referred(n)) /\ ToVisit' = ToVisit
  BY <1>0, <1>2 DEF Linked, Referred, file, ToVisit
<1>4. rootNode' # NoNode =>
         rootNode' \in Linked /\ rootNode' \in SpanIds /\ parentSpanId[rootNode'] \notin Known
  <2> SUFFICES ASSUME rootNode' # NoNode
               PROVE  rootNode' \in Linked /\ rootNode' \in SpanIds
                      /\ parentSpanId[rootNode'] \notin Known
    OBVIOUS
  <2>1. Len(potentialRoots) = 1 /\ rootNode' = potentialRoots[1]
    OBVIOUS
  <2>2. rootNode' \in ToSet(potentialRoots)
    <3>1. ToSet(potentialRoots) = {potentialRoots[i] : i \in 1..Len(potentialRoots)}
      BY Members DEF Inv, TypesOK
    <3>2. 1 \in 1..Len(potentialRoots)
      BY <2>1
    <3> QED
      BY <2>1, <3>1, <3>2
  <2> QED
    BY <2>2, LinkedIsKnown DEF Inv, LinksOK
<1>5. LinksOK' /\ ChildrenInOrder'
  <2>1. SpanIds \ {rootNode'} \subseteq SpanIds \ {rootNode}
    BY <1>0, SpanIdsAssumption
  <2>2. LinksOK'
    BY <2>1, <1>0, <1>2, <1>3 DEF Inv, LinksOK, file
  <2> QED
    BY <2>2, <1>0, OrderStays DEF Inv
<1>6. SearchOK'
  <2>1. rootNode' # NoNode => /\ rootNode' \in Known /\ parent[rootNode'] = NoNode
                              /\ Outermost(rootNode')
    <3> SUFFICES ASSUME NEW r \in Linked, r \in SpanIds, parentSpanId[r] \notin Known
                 PROVE  r \in Known /\ parent[r] = NoNode /\ Outermost(r)
      BY <1>4
    <3>1. r \in Known
      BY LinkedIsKnown DEF Inv
    <3>2. parent[r] = NoNode
      BY <1>0, SpanIdsAssumption DEF Inv, LinksOK, Referred
    <3>3. Outermost(r)
      BY AncestorsUnfold DEF Inv, Outermost
    <3> QED
      BY <3>1, <3>2, <3>3
  <2>2. \A n : Outermost(n)' = Outermost(n)
    BY <1>2
  <2>3. Outermost(rootNode)' <=> \A m \in Ancestors(rootNode') \ {rootNode'} : ~matches[m]
    <3>1. (\A n : Ancestors(n)' = Ancestors(n)) /\ matches' = matches
      BY <1>0, FileStays DEF file
    <3> QED
      BY <3>1 DEF Outermost
  <2>4. NoMatchMissed'
    BY DEF NoMatchMissed, file
  <2> QED
    BY <2>1, <2>2, <2>3, <2>4, <1>2, <1>3, <1>0 DEF Inv, SearchOK, Outermost
<1> QED
  BY <1>1, <1>2, <1>5, <1>6 DEF Inv

(* The search starts from all the potential roots.                         *)
LEMMA StartSearchInv == Inv /\ StartSearch => Inv'
<1> SUFFICES ASSUME Inv, StartSearch PROVE Inv'
  OBVIOUS
<1> USE DEF StartSearch, links
<1>0. UNCHANGED file /\ UNCHANGED <<nodeHT, children, parent, potentialRoots, linked>>
      /\ rootNode = NoNode /\ linked = Len(nodeHT) /\ agenda = <<>> /\ UNCHANGED rootNode
  BY DEF Inv, SearchOK, file
<1>1. TypesOK'
  BY DEF Inv, TypesOK, file
<1>2. FileOK' /\ Known' = Known
      /\ \A n : Outermost(n)' = Outermost(n) /\ Ancestors(n)' = Ancestors(n)
  BY <1>0, FileStays DEF Inv
<1>3. Linked' = Linked /\ (\A n : Referred(n)' = Referred(n))
  BY <1>0, <1>2 DEF Linked, Referred, file
<1>4. LinksOK' /\ ChildrenInOrder'
  BY <1>0, <1>2, <1>3, OrderStays DEF Inv, LinksOK, file
<1>5. ToVisit' = ToSet(potentialRoots)
  BY <1>0 DEF ToVisit, ToSet
<1>6. ToSet(potentialRoots) \subseteq Known /\ \A n \in ToSet(potentialRoots) : Outermost(n)
  <2>1. ToSet(potentialRoots) \subseteq Known
    BY LinkedIsKnown DEF Inv, LinksOK
  <2>2. ASSUME NEW n \in ToSet(potentialRoots) PROVE Outermost(n)
    <3>1. n \in SpanIds /\ parentSpanId[n] \notin Known
      BY <2>1, LinkedIsKnown DEF Inv, LinksOK
    <3> QED
      BY <3>1, AncestorsUnfold DEF Inv, Outermost
  <2> QED
    BY <2>1, <2>2
<1>7. \A n : HangsFromRoot(n)' => Ancestors(n)' \cap ToVisit' # {}
  BY <1>5, <1>2, <1>0 DEF HangsFromRoot
<1>8. SearchOK'
  BY <1>0, <1>2, <1>5, <1>6, <1>7 DEF SearchOK, NoMatchMissed
<1> QED
  BY <1>1, <1>2, <1>4, <1>8 DEF Inv

(* The next candidate starts a search when the last one has ended.         *)
LEMMA NextCandidateInv == Inv /\ NextCandidate => Inv'
<1> SUFFICES ASSUME Inv, NextCandidate PROVE Inv'
  OBVIOUS
<1> USE DEF NextCandidate, links
<1>0. UNCHANGED file /\ UNCHANGED <<nodeHT, children, parent, potentialRoots, linked, rootNode>>
      /\ phase = "search" /\ phase' = "search"
  BY DEF file
<1>1. TypesOK'
  <2>1. candidates \in Seq(SpanIds) /\ Head(candidates) \in SpanIds
        /\ Tail(candidates) \in Seq(SpanIds)
    BY DEF Inv, TypesOK
  <2>2. agenda' \in Seq(SpanIds) /\ candidates' \in Seq(SpanIds)
    BY <2>1
  <2> QED
    BY <2>2, <1>0 DEF Inv, TypesOK, file
<1>2. FileOK' /\ Known' = Known
      /\ \A n : Outermost(n)' = Outermost(n) /\ Ancestors(n)' = Ancestors(n)
  BY <1>0, FileStays DEF Inv
<1>3. Linked' = Linked /\ (\A n : Referred(n)' = Referred(n))
  BY <1>0, <1>2 DEF Linked, Referred, file
<1>4. LinksOK' /\ ChildrenInOrder'
  BY <1>0, <1>2, <1>3, OrderStays DEF Inv, LinksOK, file
<1>5. ToVisit' = ToVisit
  <2>1. ToSet(candidates) = {Head(candidates)} \cup ToSet(Tail(candidates))
    BY Members DEF Inv, TypesOK
  <2>2. ToSet(<<Head(candidates)>>) = {Head(candidates)} /\ ToSet(<<>>) = {}
    BY DEF ToSet
  <2> QED
    BY <2>1, <2>2 DEF ToVisit
<1>6. SearchOK'
  BY <1>0, <1>2, <1>5 DEF Inv, SearchOK, NoMatchMissed, HangsFromRoot, file
<1> QED
  BY <1>1, <1>2, <1>4, <1>6 DEF Inv

(* The search goes down below a node that does not match.                  *)
LEMMA DescendInv == Inv /\ Descend => Inv'
<1> SUFFICES ASSUME Inv, Descend PROVE Inv'
  OBVIOUS
<1> USE DEF Descend, links
<1>0. UNCHANGED file /\ UNCHANGED <<nodeHT, children, parent, potentialRoots, linked, rootNode>>
      /\ phase = "search" /\ phase' = "search" /\ linked = Len(nodeHT)
  BY DEF file, Inv, LinksOK
<1> DEFINE h == Head(agenda)
<1>a. /\ agenda \in Seq(SpanIds) /\ h \in SpanIds /\ Tail(agenda) \in Seq(SpanIds)
      /\ children[h] \in Seq(SpanIds) /\ h \in ToVisit /\ ~matches[h]
      /\ agenda' = children[h] \o Tail(agenda) /\ candidates' = candidates
      /\ ToSet(agenda) = {h} \cup ToSet(Tail(agenda))
  BY Members DEF Inv, TypesOK, ToVisit
<1> HIDE DEF h
<1>b. Linked = Known /\ Known \subseteq SpanIds /\ h \in Known
  BY <1>0, <1>a, LinkedIsKnown DEF Inv, SearchOK
<1>1. TypesOK'
  <2>1. agenda' \in Seq(SpanIds)
    BY <1>a, ConcatProperties
  <2> QED
    BY <2>1, <1>0 DEF Inv, TypesOK, file
<1>2. FileOK' /\ Known' = Known
      /\ \A n : Outermost(n)' = Outermost(n) /\ Ancestors(n)' = Ancestors(n)
  BY <1>0, FileStays DEF Inv
<1>3. Linked' = Linked /\ (\A n : Referred(n)' = Referred(n))
  BY <1>0, <1>2 DEF Linked, Referred, file
<1>4. LinksOK' /\ ChildrenInOrder'
  BY <1>0, <1>2, <1>3, OrderStays DEF Inv, LinksOK, file
<1>5. ToVisit' = ToSet(children[h]) \cup ToSet(Tail(agenda)) \cup ToSet(candidates)
      /\ ToVisit \subseteq {h} \cup ToVisit'
  <2>1. ToSet(agenda') = ToSet(children[h]) \cup ToSet(Tail(agenda))
    <3> DEFINE rest == Tail(agenda)
    <3>1. rest \in Seq(SpanIds) /\ agenda' = children[h] \o rest
      BY <1>a
    <3> HIDE DEF rest
    <3>2. \A t \in Seq(SpanIds) : ToSet(t \o rest) = ToSet(t) \cup ToSet(rest)
      BY <3>1, Members
    <3>3. ToSet(children[h] \o rest) = ToSet(children[h]) \cup ToSet(rest)
      BY <3>2, <1>a
    <3> QED
      BY <3>1, <3>3 DEF rest
  <2> QED
    BY <2>1, <1>a DEF ToVisit
<1>6. \A c \in SpanIds : c \in ToSet(children[h]) <=> c \in Known /\ parentSpanId[c] = h
  BY <1>a, <1>b DEF Inv, LinksOK, Referred
<1>7. ASSUME NEW c \in ToSet(children[h]) PROVE c \in Known /\ Outermost(c)
  <2>1. c \in SpanIds /\ c \in Known /\ parentSpanId[c] = h
    BY <1>6, <1>a, Members
  <2>2. Ancestors(c) = {c} \cup Ancestors(h)
    BY <2>1, <1>b, AncestorsUnfold DEF Inv
  <2>3. Outermost(h)
    BY <1>a DEF Inv, SearchOK
  <2> QED
    BY <2>1, <2>2, <2>3, <1>a DEF Outermost
<1>8. ToVisit' \subseteq Known /\ \A n \in ToVisit' : Outermost(n)
  BY <1>5, <1>7, <1>a DEF Inv, SearchOK, ToVisit
<1>9. ASSUME NEW n \in Known, matches[n], HangsFromRoot(n) PROVE Ancestors(n) \cap ToVisit' # {}
  <2>1. PICK x \in Ancestors(n) : x \in ToVisit
    BY <1>9, <1>0 DEF Inv, SearchOK
  <2>2. CASE x # h
    BY <2>1, <2>2, <1>5
  <2>3. CASE x = h
    <3>1. h # n /\ n \in SpanIds
      BY <1>9, <1>a, <1>b
    <3>2. PICK c \in Ancestors(n) : parentSpanId[c] = h
      BY <3>1, <2>1, <2>3, <1>b, AncestorHasChild DEF Inv
    <3>3. c \in SpanIds
      BY <3>1, AncestorsClosed DEF Inv
    <3>4. c \in Known
      BY <3>2, <3>3, <1>a, SpanIdsAssumption DEF Inv, FileOK
    <3> QED
      BY <3>2, <3>3, <3>4, <1>5, <1>6
  <2> QED
    BY <2>2, <2>3
<1>10. SearchOK'
  BY <1>0, <1>2, <1>8, <1>9 DEF Inv, SearchOK, NoMatchMissed, HangsFromRoot, file
<1> QED
  BY <1>1, <1>2, <1>4, <1>10 DEF Inv

(* A match that is found becomes the root.                                 *)
LEMMA FindInv == Inv /\ Find => Inv'
<1> SUFFICES ASSUME Inv, Find PROVE Inv'
  OBVIOUS
<1> USE DEF Find
<1>0. UNCHANGED file /\ UNCHANGED <<nodeHT, children, potentialRoots, linked, agenda, candidates>>
      /\ phase = "search" /\ phase' = "done" /\ linked = Len(nodeHT) /\ rootNode = NoNode
  BY DEF file, Inv, LinksOK, SearchOK
<1> DEFINE h == Head(agenda)
<1>a. /\ h \in SpanIds /\ h \in ToVisit /\ rootNode' = h
      /\ parent' = [parent EXCEPT ![h] = NoNode]
      /\ parent = [n \in SpanIds |-> parent[n]]
  BY Members DEF Inv, TypesOK, ToVisit
<1> HIDE DEF h
<1>b. h # NoNode /\ h \in Known /\ Outermost(h)
  BY <1>a, SpanIdsAssumption DEF Inv, SearchOK
<1>1. TypesOK'
  <2>1. parent' = [n \in SpanIds |-> parent'[n]]
    BY <1>a
  <2> QED
    BY <2>1, <1>0 DEF Inv, TypesOK, file
<1>2. FileOK' /\ Known' = Known
      /\ \A n : Outermost(n)' = Outermost(n) /\ Ancestors(n)' = Ancestors(n)
  BY <1>0, FileStays DEF Inv
<1>3. Linked' = Linked /\ (\A n : Referred(n)' = Referred(n))
  BY <1>0, <1>2 DEF Linked, Referred, file
<1>4. LinksOK'
  <2>1. ASSUME NEW n \in SpanIds \ {h}
        PROVE  parent'[n] = IF Referred(n) THEN parentSpanId[n] ELSE NoNode
    <3>1. parent'[n] = parent[n] /\ n # rootNode
      BY <1>a, <1>0, SpanIdsAssumption
    <3> QED
      BY <3>1 DEF Inv, LinksOK
  <2> QED
    BY <2>1, <1>0, <1>a, <1>2, <1>3 DEF Inv, LinksOK, file
<1>5. ChildrenInOrder'
  BY <1>0, OrderStays DEF Inv
<1>6. SearchOK'
  <2>1. parent'[h] = NoNode
    BY <1>a
  <2>2. Outermost(rootNode)'
    <3>1. (\A n : Ancestors(n)' = Ancestors(n)) /\ matches' = matches
      BY <1>0, FileStays DEF file
    <3> QED
      BY <3>1, <1>a, <1>b DEF Outermost
  <2>3. ToVisit' = ToVisit
    BY <1>0 DEF ToVisit
  <2>4. NoMatchMissed'
    BY <1>a, <1>b DEF NoMatchMissed
  <2> QED
    BY <2>1, <2>2, <2>3, <2>4, <1>0, <1>a, <1>b, <1>2 DEF Inv, SearchOK
<1> QED
  BY <1>1, <1>2, <1>4, <1>5, <1>6 DEF Inv

(* The search gives up when nothing is left to visit.                      *)
LEMMA GiveUpInv == Inv /\ GiveUp => Inv'
<1> SUFFICES ASSUME Inv, GiveUp PROVE Inv'
  OBVIOUS
<1> USE DEF GiveUp, links, search
<1>0. UNCHANGED file
      /\ UNCHANGED <<nodeHT, children, parent, potentialRoots, linked, rootNode, agenda, candidates>>
      /\ phase = "search" /\ phase' = "done" /\ linked = Len(nodeHT) /\ rootNode = NoNode
  BY DEF file, Inv, LinksOK, SearchOK
<1>1. TypesOK'
  BY <1>0 DEF Inv, TypesOK, file
<1>2. FileOK' /\ Known' = Known
      /\ \A n : Outermost(n)' = Outermost(n) /\ Ancestors(n)' = Ancestors(n)
  BY <1>0, FileStays DEF Inv
<1>3. Linked' = Linked /\ (\A n : Referred(n)' = Referred(n)) /\ ToVisit' = ToVisit
  BY <1>0, <1>2 DEF Linked, Referred, file, ToVisit
<1>4. LinksOK' /\ ChildrenInOrder'
  BY <1>0, <1>2, <1>3, OrderStays DEF Inv, LinksOK, file
<1>5. ToVisit = {}
  BY DEF ToVisit, ToSet
<1>6. NoMatchMissed'
  <2>1. \A n \in Known : matches[n] => ~HangsFromRoot(n)
    BY <1>5, <1>0 DEF Inv, SearchOK
  <2> QED
    BY <2>1, <1>0, <1>2 DEF NoMatchMissed, HangsFromRoot, file
<1>7. SearchOK'
  BY <1>0, <1>2, <1>3, <1>5, <1>6 DEF SearchOK
<1> QED
  BY <1>1, <1>2, <1>4, <1>7 DEF Inv

(* Every step keeps the invariant.                                         *)
LEMMA NextInv == Inv /\ [Next]_vars => Inv'
<1> SUFFICES ASSUME Inv, [Next]_vars PROVE Inv'
  OBVIOUS
<1>1. CASE UNCHANGED vars
  <2>1. UNCHANGED file /\ TypesOK'
    BY <1>1 DEF vars, file, Inv, TypesOK
  <2>2. FileOK' /\ Known' = Known
        /\ \A n : Outermost(n)' = Outermost(n) /\ Ancestors(n)' = Ancestors(n)
    BY <2>1, FileStays DEF Inv
  <2>3. Linked' = Linked /\ (\A n : Referred(n)' = Referred(n)) /\ ToVisit' = ToVisit
    BY <1>1, <2>2 DEF Linked, Referred, vars, ToVisit
  <2>4. LinksOK' /\ ChildrenInOrder'
    BY <1>1, <2>1, <2>2, <2>3, OrderStays DEF Inv, LinksOK, vars
  <2>5. NoMatchMissed'
    BY <1>1, <2>2 DEF Inv, SearchOK, NoMatchMissed, HangsFromRoot, vars
  <2>6. Outermost(rootNode)' = Outermost(rootNode)
    BY <1>1, <2>2 DEF Outermost, vars
  <2>7. SearchOK'
    BY <1>1, <2>2, <2>3, <2>5, <2>6 DEF Inv, SearchOK, HangsFromRoot, vars
  <2> QED
    BY <2>1, <2>2, <2>4, <2>7 DEF Inv
<1> QED
  BY <1>1, ReadSpanInv, EndOfSpansInv, AddPotentialRootInv, LinkInv, ChooseTraceRootInv,
     StartSearchInv, NextCandidateInv, DescendInv, FindInv, GiveUpInv DEF Next

(* In every reachable state the links are those of the nodes linked so     *)
(* far, and no match that hangs from a root is behind the search.          *)
THEOREM InvHolds == Spec => []Inv
BY InitInv, NextInv, PTL DEF Spec

(* No span above the chosen root has the wanted names.                     *)
THEOREM OutermostIsChosen == Spec => []OutermostMatch
<1>1. Inv => OutermostMatch
  BY DEF Inv, SearchOK, Outermost, OutermostMatch
<1> QED
  BY <1>1, InvHolds, PTL

(* The search gives up only if every span with the wanted names hangs from *)
(* a reference cycle.                                                      *)
THEOREM NoMatchIsMissed == Spec => []NoMatchMissed
<1>1. Inv => NoMatchMissed
  BY DEF Inv, SearchOK
<1> QED
  BY <1>1, InvHolds, PTL

(* Below the chosen root the links are a tree: each span but the root has  *)
(* one parent, not itself, and is listed there once and in file order.     *)
THEOREM TreeIsBelowRoot == Spec => []TreeBelowRoot
<1>1. Inv => TreeBelowRoot
  <2> SUFFICES ASSUME Inv, phase = "done", rootNode # NoNode PROVE TreeBelowRoot
    BY DEF TreeBelowRoot
  <2>1. /\ rootNode \in Known /\ parent[rootNode] = NoNode /\ Known \subseteq SpanIds
        /\ Linked = Known /\ TypesOK /\ FileOK
    BY LinkedIsKnown DEF Inv, SearchOK, LinksOK
  <2>2. ASSUME NEW n \in Below(rootNode), n # rootNode
        PROVE  /\ parentSpanId[n] \in Known /\ parent[n] = parentSpanId[n]
               /\ parent[n] \in Below(rootNode) /\ parent[n] # n
    <3>1. n \in Known /\ n \in SpanIds /\ rootNode \in Ancestors(n)
      BY <2>1 DEF Below
    <3>2. parentSpanId[n] \in Known /\ rootNode \in Ancestors(parentSpanId[n])
      BY <3>1, <2>1, <2>2, AncestorsUnfold
    <3>3. parent[n] = parentSpanId[n]
      BY <3>1, <3>2, <2>1, <2>2 DEF Inv, LinksOK, Referred
    <3>4. parent[n] # n
      <4> SUFFICES ASSUME parentSpanId[n] = n PROVE FALSE
        BY <3>3
      <4>1. Ancestors(n) \subseteq {n}
        <5>1. \A m \in {n} : parentSpanId[m] \in Known => parentSpanId[m] \in {n}
          OBVIOUS
        <5> QED
          BY <5>1, <3>1, AncestorsLeast
      <4> QED
        BY <4>1, <3>1, <2>2
    <3> QED
      BY <3>2, <3>3, <3>4 DEF Below
  <2>3. ASSUME NEW n \in Below(rootNode), NEW i \in DOMAIN children[n],
               NEW j \in DOMAIN children[n], i < j
        PROVE  Position(children[n][i]) < Position(children[n][j])
    <3>1. n \in SpanIds /\ DOMAIN children[n] = 1..Len(children[n])
      BY <2>1 DEF Below, TypesOK
    <3>2. PICK k \in 1..Len(nodeHT), l \in 1..Len(nodeHT) :
             k < l /\ nodeHT[k] = children[n][i] /\ nodeHT[l] = children[n][j]
      <4>1. i \in 1..Len(children[n]) /\ j \in 1..Len(children[n])
        BY <3>1
      <4> QED
        BY <4>1, <3>1, <2>3 DEF Inv, ChildrenInOrder
    <3>3. Position(nodeHT[k]) = k /\ Position(nodeHT[l]) = l
      BY <2>1, PositionIs
    <3> QED
      BY <3>2, <3>3
  <2>4. ASSUME NEW n \in Below(rootNode), NEW c \in Below(rootNode) \ {rootNode}
        PROVE  c \in ToSet(children[n]) <=> parent[c] = n
    <3>1. n \in SpanIds /\ c \in SpanIds /\ c \in Linked /\ n \in Known
      BY <2>1 DEF Below
    <3>2. c \in ToSet(children[n]) <=> Referred(c) /\ parentSpanId[c] = n
      BY <3>1 DEF Inv, LinksOK
    <3> QED
      BY <3>1, <3>2, <2>2 DEF Referred
  <2> QED
    BY <2>1, <2>2, <2>3, <2>4 DEF TreeBelowRoot
<1> QED
  BY <1>1, InvHolds, PTL

-----------------------------------------------------------------------------
(* The search ends, on reference cycles too: it never meets one, because   *)
(* every span it is still to visit hangs from a root, and it comes to no   *)
(* span twice, because none of them is above another.                      *)
VisitOK ==
    /\ spansRead \in 0..MaxSpans
    /\ IsInjective(potentialRoots)
    /\ phase = "search" =>
         /\ IsInjective(agenda) /\ IsInjective(candidates)
         /\ ToSet(agenda) \cap ToSet(candidates) = {}
         /\ \A n \in ToVisit : HangsFromRoot(n)
         /\ \A m, n \in ToVisit : m \in Ancestors(n) => m = n

(* The spans still to be visited and all that hangs from them.             *)
Pending == {n \in Known : Ancestors(n) \cap ToVisit # {}}

(* The passes that are left, and what is left of the one in progress.      *)
PassesLeft == IF phase = "parse" THEN 3 ELSE IF phase = "link" THEN 2
              ELSE IF phase = "search" THEN 1 ELSE 0
LeftOfPass == IF phase = "parse" THEN MaxSpans - spansRead
              ELSE IF phase = "link" THEN Len(nodeHT) - linked
              ELSE IF phase = "search" THEN Cardinality(Pending) + Len(candidates)
              ELSE 0

(* Sequences without repetition, made longer, shorter or put together.     *)
LEMMA NoRepetition ==
  ASSUME NEW S, NEW s \in Seq(S), IsInjective(s)
  PROVE  /\ \A x \in S : x \notin ToSet(s) => IsInjective(Append(s, x))
         /\ s # <<>> => IsInjective(Tail(s)) /\ Head(s) \notin ToSet(Tail(s))
         /\ \A t \in Seq(S) : IsInjective(t) /\ ToSet(t) \cap ToSet(s) = {}
                                 => IsInjective(t \o s)
<1>0. /\ Len(s) \in Nat /\ DOMAIN s = 1..Len(s) /\ ToSet(s) = {s[i] : i \in 1..Len(s)}
      /\ \A i, j \in 1..Len(s) : s[i] = s[j] => i = j
  BY DEF IsInjective, ToSet
<1>1. ASSUME NEW x \in S, x \notin ToSet(s) PROVE IsInjective(Append(s, x))
  <2> DEFINE t == Append(s, x)
             n == Len(s)
  <2>1. DOMAIN t = 1..(n + 1) /\ t[n + 1] = x /\ \A i \in 1..n : t[i] = s[i]
    OBVIOUS
  <2> HIDE DEF t
  <2>2. \A i \in 1..(n + 1) : i \in 1..n \/ i = n + 1
    BY <1>0
  <2>3. \A i \in 1..n : t[i] # x
    BY <2>1, <1>0, <1>1
  <2> HIDE DEF n
  <2>4. \A i, j \in 1..(n + 1) : t[i] = t[j] => i = j
    BY <2>1, <2>2, <2>3, <1>0 DEF n
  <2> QED
    BY <2>1, <2>4 DEF IsInjective, t
<1>2. ASSUME s # <<>> PROVE IsInjective(Tail(s)) /\ Head(s) \notin ToSet(Tail(s))
  <2> DEFINE t == Tail(s)
             n == Len(s) - 1
  <2>1. /\ n \in Nat /\ DOMAIN t = 1..n /\ Head(s) = s[1]
        /\ \A i \in 1..n : t[i] = s[i + 1] /\ i + 1 \in 1..Len(s)
    BY <1>0, <1>2
  <2> HIDE DEF t
  <2>2. \A i, j \in 1..n : t[i] = t[j] => i = j
    <3> SUFFICES ASSUME NEW i \in 1..n, NEW j \in 1..n, t[i] = t[j] PROVE i = j
      OBVIOUS
    <3>1. i + 1 = j + 1
      BY <1>0, <2>1
    <3> QED
      BY <3>1
  <2>3. \A i \in 1..n : t[i] # s[1]
    <3> SUFFICES ASSUME NEW i \in 1..n, t[i] = s[1] PROVE FALSE
      OBVIOUS
    <3>1. i + 1 = 1
      BY <1>0, <2>1
    <3> QED
      BY <3>1
  <2> QED
    BY <2>1, <2>2, <2>3 DEF IsInjective, ToSet, t
<1>3. ASSUME NEW t \in Seq(S), IsInjective(t), ToSet(t) \cap ToSet(s) = {}
      PROVE  IsInjective(t \o s)
  <2> DEFINE u == t \o s
             m == Len(t)
             n == Len(s)
  <2>1. /\ DOMAIN u = 1..(m + n) /\ m \in Nat /\ n \in Nat
        /\ \A i \in 1..(m + n) : u[i] = IF i <= m THEN t[i] ELSE s[i - m]
    BY ConcatProperties
  <2>2. ToSet(t) = {t[i] : i \in 1..m} /\ \A i, j \in 1..m : t[i] = t[j] => i = j
    BY <1>3 DEF ToSet, IsInjective
  <2> HIDE DEF u, m, n
  <2>3. \A i \in 1..(m + n) : IF i <= m THEN i \in 1..m ELSE i - m \in 1..n
    BY <2>1
  <2>4. \A i \in 1..m, j \in 1..n : t[i] # s[j]
    <3>1. /\ \A i \in 1..m : t[i] \in ToSet(t)
          /\ \A j \in 1..n : s[j] \in ToSet(s)
      BY <1>0, <2>2 DEF n
    <3> QED
      BY <3>1, <1>3
  <2>5. \A i, j \in 1..n : s[i] = s[j] => i = j
    BY <1>0 DEF n
  <2>6. ASSUME NEW i \in 1..(m + n), NEW j \in 1..(m + n), u[i] = u[j] PROVE i = j
    <3>1. CASE i <= m /\ j <= m
      BY <3>1, <2>1, <2>2, <2>3, <2>6
    <3>2. CASE i <= m /\ ~(j <= m)
      BY <3>2, <2>1, <2>3, <2>4, <2>6
    <3>3. CASE ~(i <= m) /\ j <= m
      BY <3>3, <2>1, <2>3, <2>4, <2>6
    <3>4. CASE ~(i <= m) /\ ~(j <= m)
      <4>1. i - m = j - m
        BY <3>4, <2>1, <2>3, <2>5, <2>6
      <4> QED
        BY <4>1, <2>1
    <3> QED
      BY <3>1, <3>2, <3>3, <3>4
  <2> QED
    BY <2>1, <2>6 DEF IsInjective, u
<1> QED
  BY <1>1, <1>2, <1>3

(* The ancestors of an ancestor are ancestors.                             *)
LEMMA AncestorsAbove ==
  ASSUME TypesOK, NEW n \in SpanIds, NEW m \in Ancestors(n)
  PROVE  m \in SpanIds /\ Ancestors(m) \subseteq Ancestors(n)
<1>1. m \in SpanIds /\ Ancestors(n) \subseteq SpanIds
  BY AncestorsClosed
<1>2. \A x \in Ancestors(n) : parentSpanId[x] \in Known => parentSpanId[x] \in Ancestors(n)
  BY AncestorsClosed
<1> QED
  BY <1>1, <1>2, AncestorsLeast

(* What hangs from a root is on no cycle of references: from a span on a   *)
(* cycle they lead around it, and no root is on one.                       *)
LEMMA NoCycle ==
  ASSUME TypesOK, LinksOK, NEW h \in SpanIds, h \in Known, HangsFromRoot(h),
         NEW c \in SpanIds, parentSpanId[c] = h
  PROVE  c \notin Ancestors(h)
<1> SUFFICES ASSUME c \in Ancestors(h) PROVE FALSE
  OBVIOUS
<1> DEFINE C == {m \in Ancestors(h) : h \in Ancestors(m)}
<1>1. Ancestors(c) = {c} \cup Ancestors(h)
  BY AncestorsUnfold
<1>2. h \in C /\ C \subseteq SpanIds
  BY AncestorsClosed
<1>3. ASSUME NEW m \in C, parentSpanId[m] \in Known PROVE parentSpanId[m] \in C
  <2> DEFINE p == parentSpanId[m]
  <2>1. m \in SpanIds /\ p \in Ancestors(h) /\ p \in SpanIds
    BY <1>2, <1>3, AncestorsClosed
  <2>2. Ancestors(m) = {m} \cup Ancestors(p)
    BY <1>3, <2>1, AncestorsUnfold
  <2>3. CASE m # h
    BY <2>1, <2>2, <2>3
  <2>4. CASE m = h
    <3>1. c = h \/ c \in Ancestors(p)
      BY <2>2, <2>4
    <3>2. CASE c = h
      BY <3>2, <2>1, <2>4, AncestorsClosed
    <3>3. CASE c \in Ancestors(p)
      <4>1. Ancestors(c) \subseteq Ancestors(p)
        <5> HIDE DEF p
        <5> QED
          BY <3>3, <2>1, AncestorsAbove
      <4>2. h \in Ancestors(c)
        BY <1>1, AncestorsClosed
      <4> QED
        BY <2>1, <4>1, <4>2
    <3> QED
      BY <3>1, <3>2, <3>3
  <2> QED
    BY <2>3, <2>4
<1>4. Ancestors(h) \subseteq C
  <2> HIDE DEF C
  <2> QED
    BY <1>2, <1>3, AncestorsLeast
<1>5. PICK r \in Ancestors(h) : r \in ToSet(potentialRoots)
  BY DEF HangsFromRoot
<1>6. r \in SpanIds /\ parentSpanId[r] \notin Known
  BY <1>5, AncestorsClosed DEF LinksOK
<1>7. Ancestors(r) = {r}
  BY <1>6, AncestorsUnfold
<1>8. h = r
  BY <1>4, <1>5, <1>7
<1>9. c = h
  BY <1>7, <1>8
<1> QED
  BY <1>6, <1>8, <1>9


(* A file has finitely many spans.                                         *)
LEMMA PendingFinite == Inv => IsFiniteSet(Pending)
<1> SUFFICES ASSUME Inv PROVE IsFiniteSet(Pending)
  OBVIOUS
<1> DEFINE n == Len(nodeHT)
<1>1. nodeHT \in Seq(SpanIds) /\ n \in Nat /\ Known = {nodeHT[i] : i \in 1..n}
  BY LinkedIsKnown DEF Inv, TypesOK
<1>2. IsFiniteSet(1..n)
  <2> HIDE DEF n
  <2>1. n \in Int /\ 1 \in Int
    BY <1>1
  <2> QED
    BY <2>1, FS_Interval
<1> DEFINE f == [i \in 1..n |-> nodeHT[i]]
<1>3. f \in Surjection(1..n, Known)
  BY <1>1 DEF Surjection
<1>4. IsFiniteSet(Known)
  <2> HIDE DEF f, n
  <2> QED
    BY <1>2, <1>3, FS_Surjection
<1> QED
  BY <1>4, FS_Subset DEF Pending


(* The children of a span are listed once.                                 *)
LEMMA ChildrenOnce ==
  ASSUME Inv, NEW m \in SpanIds
  PROVE  IsInjective(children[m])
<1>1. /\ children[m] \in Seq(SpanIds) /\ DOMAIN children[m] = 1..Len(children[m])
      /\ Len(children[m]) \in Nat
  BY DEF Inv, TypesOK
<1>2. ASSUME NEW i \in 1..Len(children[m]), NEW j \in 1..Len(children[m]), i < j
      PROVE  children[m][i] # children[m][j]
  <2>1. PICK k \in 1..Len(nodeHT), l \in 1..Len(nodeHT) :
           k < l /\ nodeHT[k] = children[m][i] /\ nodeHT[l] = children[m][j]
    BY <1>2 DEF Inv, ChildrenInOrder
  <2>2. k # l
    BY <2>1 DEF Inv, TypesOK
  <2> QED
    BY <2>1, <2>2 DEF Inv, FileOK
<1>3. \A i, j \in 1..Len(children[m]) : i = j \/ i < j \/ j < i
  OBVIOUS
<1> QED
  BY <1>1, <1>2, <1>3 DEF IsInjective

(* Candidates are tried one after the other, each once.                    *)
LEMMA CandidateVisits ==
  ASSUME Inv, VisitOK, NextCandidate
  PROVE  VisitOK' /\ ToVisit' = ToVisit /\ Len(candidates') = Len(candidates) - 1
<1>1. /\ UNCHANGED file /\ spansRead' = spansRead /\ potentialRoots' = potentialRoots
      /\ phase = "search" /\ agenda = <<>> /\ candidates # <<>>
      /\ agenda' = <<Head(candidates)>> /\ candidates' = Tail(candidates)
  BY DEF NextCandidate, file, links
<1>2. /\ candidates \in Seq(SpanIds) /\ IsInjective(candidates)
      /\ Len(Tail(candidates)) = Len(candidates) - 1
  BY <1>1 DEF Inv, TypesOK, VisitOK
<1>3. /\ ToSet(candidates) = {Head(candidates)} \cup ToSet(Tail(candidates))
      /\ ToSet(agenda') = {Head(candidates)} /\ ToSet(agenda) = {}
  <2>1. ToSet(candidates) = {Head(candidates)} \cup ToSet(Tail(candidates))
    BY <1>1, <1>2, Members
  <2>2. ToSet(<<Head(candidates)>>) = {Head(candidates)} /\ ToSet(<<>>) = {}
    BY DEF ToSet
  <2> QED
    BY <2>1, <2>2, <1>1
<1>4. /\ IsInjective(candidates') /\ Head(candidates) \notin ToSet(candidates')
      /\ IsInjective(agenda')
  <2>1. IsInjective(Tail(candidates)) /\ Head(candidates) \notin ToSet(Tail(candidates))
    BY <1>1, <1>2, NoRepetition
  <2>2. IsInjective(<<Head(candidates)>>)
    BY DEF IsInjective
  <2> QED
    BY <2>1, <2>2, <1>1
<1>5. ToVisit' = ToVisit
  BY <1>1, <1>3 DEF ToVisit
<1>6. \A n : Ancestors(n)' = Ancestors(n) /\ HangsFromRoot(n)' = HangsFromRoot(n)
  BY <1>1, FileStays DEF HangsFromRoot
<1>7. MaxSpans' = MaxSpans /\ ToSet(agenda') \cap ToSet(candidates') = {}
  BY <1>3, <1>4
<1> QED
  BY <1>1, <1>2, <1>4, <1>5, <1>6, <1>7 DEF VisitOK

(* The children of a visited span take its place: what is pending is less  *)
(* by that span.                                                           *)
LEMMA DescendVisits ==
  ASSUME Inv, VisitOK, Descend
  PROVE  /\ VisitOK' /\ candidates' = candidates
         /\ Head(agenda) \in Pending /\ Pending' \subseteq Pending \ {Head(agenda)}
<1> DEFINE h == Head(agenda)
           rest == Tail(agenda)
<1>1. /\ UNCHANGED file /\ spansRead' = spansRead /\ potentialRoots' = potentialRoots
      /\ phase = "search" /\ agenda # <<>> /\ candidates' = candidates
      /\ agenda' = children[h] \o rest
  BY DEF Descend, file, links
<1>2. /\ agenda \in Seq(SpanIds) /\ h \in SpanIds /\ rest \in Seq(SpanIds)
      /\ children[h] \in Seq(SpanIds) /\ candidates \in Seq(SpanIds)
      /\ TypesOK /\ LinksOK
  BY <1>1 DEF Inv, TypesOK
<1>3. /\ IsInjective(agenda) /\ IsInjective(candidates)
      /\ ToSet(agenda) \cap ToSet(candidates) = {}
      /\ \A n \in ToVisit : HangsFromRoot(n)
      /\ \A m, n \in ToVisit : m \in Ancestors(n) => m = n
  BY <1>1 DEF VisitOK
<1>4. /\ ToSet(agenda) = {h} \cup ToSet(rest) /\ h \notin ToSet(rest) /\ IsInjective(rest)
      /\ ToSet(rest) \subseteq SpanIds /\ ToSet(candidates) \subseteq SpanIds
  <2>1. ToSet(agenda) = {h} \cup ToSet(rest)
    BY <1>1, <1>2, Members
  <2>2. h \notin ToSet(rest) /\ IsInjective(rest)
    BY <1>1, <1>2, <1>3, NoRepetition
  <2>3. ToSet(rest) \subseteq SpanIds /\ ToSet(candidates) \subseteq SpanIds
    <3> HIDE DEF rest
    <3> QED
      BY <1>2, Members
  <2> QED
    BY <2>1, <2>2, <2>3
<1> HIDE DEF h, rest
<1> DEFINE Others == ToSet(rest) \cup ToSet(candidates)
<1>5. h \in ToVisit /\ h \notin Others /\ Others \subseteq ToVisit /\ ToVisit = {h} \cup Others
  BY <1>3, <1>4 DEF ToVisit
<1>6. h \in Known /\ Known \subseteq SpanIds /\ Linked = Known
  BY <1>1, <1>5, LinkedIsKnown DEF Inv, SearchOK, LinksOK
<1>7. \A c : c \in ToSet(children[h]) <=> c \in Known /\ parentSpanId[c] = h
  <2>1. ToSet(children[h]) \subseteq SpanIds
    BY <1>2, Members
  <2> QED
    BY <2>1, <1>2, <1>6 DEF LinksOK, Referred
<1>8. ASSUME NEW c \in ToSet(children[h])
      PROVE  /\ c \in SpanIds /\ Ancestors(c) = {c} \cup Ancestors(h)
             /\ c \notin Ancestors(h) /\ HangsFromRoot(c)
  <2>1. c \in SpanIds /\ parentSpanId[c] = h
    BY <1>6, <1>7
  <2>2. Ancestors(c) = {c} \cup Ancestors(h)
    BY <2>1, <1>2, <1>6, AncestorsUnfold
  <2>3. c \notin Ancestors(h)
    BY <2>1, <1>2, <1>3, <1>5, <1>6, NoCycle
  <2>4. HangsFromRoot(c)
    BY <2>2, <1>3, <1>5 DEF HangsFromRoot
  <2> QED
    BY <2>1, <2>2, <2>3, <2>4
<1>9. ASSUME NEW c \in ToSet(children[h]), NEW n \in SpanIds, c \in Ancestors(n)
      PROVE  h \in Ancestors(n)
  <2>1. Ancestors(c) \subseteq Ancestors(n)
    BY <1>2, <1>9, AncestorsAbove
  <2>2. h \in Ancestors(c)
    BY <1>2, <1>8, AncestorsClosed
  <2> QED
    BY <2>1, <2>2
<1>10. ToSet(children[h]) \cap Others = {}
  <2> SUFFICES ASSUME NEW c \in ToSet(children[h]), c \in Others PROVE FALSE
    OBVIOUS
  <2>1. c \in SpanIds /\ c \in Ancestors(c)
    BY <1>2, <1>8, AncestorsClosed
  <2>2. h \in Ancestors(c)
    BY <2>1, <1>9
  <2> QED
    BY <2>2, <1>3, <1>5
<1>11. ToVisit' = ToSet(children[h]) \cup Others
  <2>1. ToSet(agenda') = ToSet(children[h]) \cup ToSet(rest)
    <3>1. \A t \in Seq(SpanIds) : ToSet(t \o rest) = ToSet(t) \cup ToSet(rest)
      BY <1>2, Members
    <3> QED
      BY <3>1, <1>1, <1>2
  <2> QED
    BY <2>1, <1>1 DEF ToVisit
<1>12. IsInjective(agenda') /\ ToSet(agenda') \cap ToSet(candidates) = {}
  <2>1. ToSet(agenda') = ToSet(children[h]) \cup ToSet(rest)
    <3>1. \A t \in Seq(SpanIds) : ToSet(t \o rest) = ToSet(t) \cup ToSet(rest)
      BY <1>2, Members
    <3> QED
      BY <3>1, <1>1, <1>2
  <2>2. ToSet(agenda') \cap ToSet(candidates) = {}
    BY <2>1, <1>3, <1>4, <1>10
  <2>3. \A t \in Seq(SpanIds) : IsInjective(t) /\ ToSet(t) \cap ToSet(rest) = {}
                                   => IsInjective(t \o rest)
    BY <1>2, <1>4, NoRepetition
  <2>4. IsInjective(children[h])
    BY <1>2, ChildrenOnce
  <2> QED
    BY <2>2, <2>3, <2>4, <1>1, <1>2, <1>10
<1>13. ASSUME NEW m \in ToVisit', NEW n \in ToVisit', m \in Ancestors(n) PROVE m = n
  <2>0. m \in SpanIds /\ n \in SpanIds
    BY <1>4, <1>8, <1>11
  <2>1. CASE n \in ToSet(children[h]) /\ m # n
    <3>1. m \in Ancestors(h)
      BY <2>1, <1>8, <1>13
    <3>2. CASE m \in Others
      BY <3>1, <3>2, <1>3, <1>5
    <3>3. CASE m \in ToSet(children[h])
      BY <3>1, <3>3, <1>8
    <3> QED
      BY <3>2, <3>3, <1>11
  <2>2. CASE n \in Others /\ m \in ToSet(children[h])
    <3>1. h \in Ancestors(n)
      BY <2>0, <2>2, <1>9, <1>13
    <3> QED
      BY <3>1, <2>2, <1>3, <1>5
  <2>3. CASE n \in Others /\ m \in Others
    BY <2>3, <1>3, <1>5, <1>13
  <2> QED
    BY <2>1, <2>2, <2>3, <1>11
<1>14. Known' = Known /\ \A n : Ancestors(n)' = Ancestors(n) /\ HangsFromRoot(n)' = HangsFromRoot(n)
  BY <1>1, FileStays DEF HangsFromRoot
<1>15. \A n \in ToVisit' : HangsFromRoot(n)
  BY <1>3, <1>5, <1>8, <1>11
<1>16. VisitOK'
  <2> HIDE DEF Others
  <2>1. spansRead' \in 0..MaxSpans /\ IsInjective(potentialRoots')
    BY <1>1 DEF VisitOK
  <2> QED
    BY <2>1, <1>1, <1>3, <1>12, <1>13, <1>14, <1>15 DEF VisitOK
<1>17. h \in Pending
  BY <1>2, <1>5, <1>6, AncestorsClosed DEF Pending
<1>18. ASSUME NEW n \in Pending' PROVE n \in Pending /\ n # h
  <2>1. n \in Known /\ n \in SpanIds
    BY <1>6, <1>14, <1>18 DEF Pending
  <2>2. PICK a \in Ancestors(n) : a \in ToVisit'
    BY <1>14, <1>18 DEF Pending
  <2>3. CASE a \in ToSet(children[h])
    <3>1. h \in Ancestors(n)
      BY <2>1, <2>2, <2>3, <1>9
    <3> QED
      BY <3>1, <2>1, <2>2, <2>3, <1>5, <1>8 DEF Pending
  <2>4. CASE a \in Others
    BY <2>1, <2>2, <2>4, <1>3, <1>5 DEF Pending
  <2> QED
    BY <2>2, <2>3, <2>4, <1>11
<1>19. Pending' \subseteq Pending \ {h}
  BY <1>18
<1> QED
  BY <1>1, <1>16, <1>17, <1>19 DEF h

(* The other steps.                                                        *)
LEMMA VisitStep == Inv /\ VisitOK /\ [Next]_vars => VisitOK'
<1> SUFFICES ASSUME Inv, VisitOK, [Next]_vars PROVE VisitOK'
  OBVIOUS
<1>1. ASSUME NEW s \in SpanIds, NEW refs \in RefLists, NEW match \in BOOLEAN,
             ReadSpan(s, refs, match)
      PROVE  VisitOK'
  BY <1>1, MaxSpansAssumption DEF ReadSpan, links, search, VisitOK
<1>2. CASE EndOfSpans \/ ChooseTraceRoot \/ Find \/ GiveUp
  BY <1>2 DEF EndOfSpans, ChooseTraceRoot, Find, GiveUp, file, links, search, VisitOK
<1>3. CASE Link
  BY <1>3 DEF Link, file, search, VisitOK
<1>4. CASE AddPotentialRoot
  <2>1. /\ phase = "link" /\ phase' = "link" /\ potentialRoots' = Append(potentialRoots, me)
        /\ linked < Len(nodeHT) /\ linked' = linked + 1
        /\ spansRead' = spansRead /\ UNCHANGED file
    BY <1>4 DEF AddPotentialRoot, file
  <2>2. me \in SpanIds /\ me \notin Linked /\ potentialRoots \in Seq(SpanIds)
    BY <2>1, MeIsNew DEF Inv, TypesOK
  <2>3. me \notin ToSet(potentialRoots)
    BY <2>2 DEF Inv, LinksOK
  <2>4. IsInjective(potentialRoots')
    BY <2>1, <2>2, <2>3, NoRepetition DEF VisitOK
  <2> QED
    BY <2>1, <2>4 DEF VisitOK
<1>5. CASE StartSearch
  <2>1. /\ phase' = "search" /\ candidates' = potentialRoots /\ agenda' = <<>>
        /\ UNCHANGED file /\ spansRead' = spansRead /\ potentialRoots' = potentialRoots
    BY <1>5 DEF StartSearch, file, links, Inv, SearchOK
  <2>2. ToVisit' = ToSet(potentialRoots) /\ ToSet(agenda') = {} /\ IsInjective(agenda')
    BY <2>1 DEF ToVisit, ToSet, IsInjective
  <2>3. \A n : Ancestors(n)' = Ancestors(n) /\ HangsFromRoot(n)' = HangsFromRoot(n)
    BY <2>1, FileStays DEF HangsFromRoot
  <2>4. \A n \in ToSet(potentialRoots) : HangsFromRoot(n) /\ Ancestors(n) = {n}
    <3> SUFFICES ASSUME NEW n \in ToSet(potentialRoots)
                 PROVE  HangsFromRoot(n) /\ Ancestors(n) = {n}
      OBVIOUS
    <3>1. n \in SpanIds /\ parentSpanId[n] \notin Known
      BY LinkedIsKnown DEF Inv, LinksOK
    <3>2. Ancestors(n) = {n}
      BY <3>1, AncestorsUnfold DEF Inv
    <3> QED
      BY <3>2 DEF HangsFromRoot
  <2> QED
    BY <2>1, <2>2, <2>3, <2>4 DEF VisitOK
<1>6. CASE UNCHANGED vars
  <2>1. UNCHANGED <<file, spansRead, potentialRoots, phase, agenda, candidates>>
    BY <1>6 DEF vars, file
  <2>2. ToVisit' = ToVisit
        /\ \A n : Ancestors(n)' = Ancestors(n) /\ HangsFromRoot(n)' = HangsFromRoot(n)
    BY <2>1, FileStays DEF HangsFromRoot, ToVisit
  <2> QED
    BY <2>1, <2>2 DEF VisitOK
<1> QED
  BY <1>1, <1>2, <1>3, <1>4, <1>5, <1>6, CandidateVisits, DescendVisits DEF Next

(* Every step ends a pass or leaves less of it to do.                      *)
LEMMA LessToRead ==
  ASSUME Inv, VisitOK, Next
  PROVE  \/ PassesLeft' < PassesLeft
         \/ PassesLeft' = PassesLeft /\ LeftOfPass' < LeftOfPass
<1>0. /\ spansRead \in Nat /\ linked \in Nat /\ Len(nodeHT) \in Nat /\ MaxSpans \in Nat
      /\ Len(candidates) \in Nat
  BY MaxSpansAssumption DEF Inv, TypesOK, VisitOK
<1>1. ASSUME NEW s \in SpanIds, NEW refs \in RefLists, NEW match \in BOOLEAN,
             ReadSpan(s, refs, match)
      PROVE  PassesLeft' = PassesLeft /\ LeftOfPass' < LeftOfPass
  BY <1>0, <1>1 DEF ReadSpan, PassesLeft, LeftOfPass
<1>2. CASE EndOfSpans \/ ChooseTraceRoot \/ StartSearch \/ Find \/ GiveUp
  BY <1>2 DEF EndOfSpans, ChooseTraceRoot, StartSearch, Find, GiveUp, PassesLeft
<1>3. CASE Link \/ AddPotentialRoot
  BY <1>0, <1>3 DEF Link, AddPotentialRoot, file, PassesLeft, LeftOfPass
<1>4. IsFiniteSet(Pending)
  BY PendingFinite
<1>5. Cardinality(Pending) \in Nat
  BY <1>4, FS_CardinalityType
<1>6. CASE NextCandidate
  <2>1. /\ phase = "search" /\ phase' = "search" /\ UNCHANGED file /\ ToVisit' = ToVisit
        /\ Len(candidates') = Len(candidates) - 1
    BY <1>6, CandidateVisits DEF NextCandidate
  <2>2. Pending' = Pending
    BY <2>1, FileStays DEF Pending
  <2> QED
    BY <1>0, <1>5, <2>1, <2>2 DEF PassesLeft, LeftOfPass
<1>7. CASE Descend
  <2>1. /\ phase = "search" /\ phase' = "search" /\ candidates' = candidates
        /\ Head(agenda) \in Pending /\ Pending' \subseteq Pending \ {Head(agenda)}
    BY <1>7, DescendVisits DEF Descend
  <2>2. /\ IsFiniteSet(Pending \ {Head(agenda)})
        /\ Cardinality(Pending \ {Head(agenda)}) = Cardinality(Pending) - 1
    BY <1>4, <2>1, FS_RemoveElement
  <2>3. /\ IsFiniteSet(Pending') /\ Cardinality(Pending') <= Cardinality(Pending) - 1
    BY <2>1, <2>2, FS_Subset
  <2>4. Cardinality(Pending') \in Nat
    BY <2>3, FS_CardinalityType
  <2> QED
    BY <1>0, <1>5, <2>1, <2>3, <2>4 DEF PassesLeft, LeftOfPass
<1> QED
  BY <1>1, <1>2, <1>3, <1>6, <1>7 DEF Next

(* Reading, linking and searching end on any file: each step ends a pass   *)
(* or leaves less of it to do, and what is left is always a number. A span *)
(* the search has looked at is pending no more.                            *)
THEOREM SearchEndsOnCycles ==
  Spec => /\ [](LeftOfPass \in Nat)
          /\ [][\/ PassesLeft' < PassesLeft
                \/ PassesLeft' = PassesLeft /\ LeftOfPass' < LeftOfPass]_vars
<1>1. Init => VisitOK
  <2> SUFFICES ASSUME Init PROVE VisitOK
    OBVIOUS
  <2>1. IsInjective(potentialRoots)
    BY DEF Init, IsInjective
  <2> QED
    BY <2>1, MaxSpansAssumption DEF Init, VisitOK
<1>2. Inv /\ VisitOK => LeftOfPass \in Nat
  <2> SUFFICES ASSUME Inv, VisitOK PROVE LeftOfPass \in Nat
    OBVIOUS
  <2>1. Cardinality(Pending) \in Nat
    BY PendingFinite, FS_CardinalityType
  <2>2. /\ spansRead \in 0..MaxSpans /\ linked \in 0..Len(nodeHT) /\ Len(nodeHT) \in Nat
        /\ Len(candidates) \in Nat
    BY DEF Inv, TypesOK, VisitOK
  <2> QED
    BY <2>1, <2>2, MaxSpansAssumption DEF LeftOfPass
<1>3. Inv /\ VisitOK /\ [Next]_vars =>
        [\/ PassesLeft' < PassesLeft
         \/ PassesLeft' = PassesLeft /\ LeftOfPass' < LeftOfPass]_vars
  BY LessToRead
<1>4. Spec => [](Inv /\ VisitOK)
  BY <1>1, InitInv, NextInv, VisitStep, PTL DEF Spec
<1>5. Spec => [](LeftOfPass \in Nat)
  BY <1>2, <1>4, PTL
<1>6. Spec => [][\/ PassesLeft' < PassesLeft
                 \/ PassesLeft' = PassesLeft /\ LeftOfPass' < LeftOfPass]_vars
  BY <1>3, <1>4, PTL DEF Spec
<1> QED
  BY <1>5, <1>6
=============================================================================
