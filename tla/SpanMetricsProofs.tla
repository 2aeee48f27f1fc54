------------------------- MODULE SpanMetricsProofs -------------------------
(***************************************************************************)
(* First the critical path (module CriticalPath): the path found below a   *)
(* root is connected, repeats no span, goes backwards in time below each   *)
(* parent, never makes happensBefore divide by zero, leaves out nothing    *)
(* that would fit and overlaps by less than the allowance, for every       *)
(* fitted graph and every allowance.                                       *)
(*                                                                         *)
(* Then the whole pipeline (module SpanMetrics): for every trace, whatever *)
(* the walk cuts and drops and whatever path is found, the profiles share  *)
(* out the time of the root, agree with each other, and hold for each call *)
(* path what its spans spent themselves.                                   *)
(***************************************************************************)
EXTENDS SpanMetrics, FiniteSums, SequenceTheorems

Windows == INSTANCE SpanWindowsProofs WITH Times <- Starts \cup Durations

(* What the walk reads and never writes. Whether the children fit matters  *)
(* to the division only, and there only for spans on the path.             *)
GraphOK ==
    /\ \A n \in Nodes : end[n] = start[n] + dur[n]
    /\ \A n, c \in Nodes : c \in kids[n] <=> parent[c] = n
    /\ parent[Root] = NoNode
PathFits ==
    \A n \in Path : \A c \in kids[n] : start[n] <= start[c] /\ end[c] <= end[n]

(* What a call has not looked at is not on the path, and a span that is    *)
(* not on the path has not been called. Nothing is passed over before the  *)
(* first child is picked.                                                  *)
Untouched ==
    \A n \in Nodes :
        /\ todo[n] \subseteq kids[n]
        /\ lrc[n] = NoNode => todo[n] = kids[n]
        /\ \A c \in todo[n] : c \notin Path
        /\ n \notin Path => todo[n] = kids[n] /\ lrc[n] = NoNode

(* lrc is the child of the call on the path that starts and ends first.    *)
LrcEarliest ==
    \A n \in Nodes :
        /\ lrc[n] # NoNode => lrc[n] \in kids[n] /\ lrc[n] \in Path
        /\ \A x \in kids[n] \cap Path :
             /\ lrc[n] # NoNode
             /\ x # lrc[n] => start[lrc[n]] < start[x] /\ end[lrc[n]] < end[x]

StackOnPath == \A i \in 1..Len(stack) : stack[i] \in Path

(* The children a call puts on the path go backwards in time, in their     *)
(* starts and in their ends.                                               *)
SiblingsBackwards ==
    \A i, j \in 1..Len(cp) :
        Siblings(i, j) => start[cp[j]] < start[cp[i]] /\ end[cp[j]] < end[cp[i]]

Inv == /\ TypeOK /\ GraphOK /\ Untouched /\ LrcEarliest /\ StackOnPath
       /\ PathConnected /\ SiblingsBackwards

-----------------------------------------------------------------------------
(* The innermost call is the call on a span of the path.                   *)
LEMMA CurOnPath ==
  Inv /\ ~Finished => cur \in Nodes /\ cur \in Path /\ Len(stack) \in Nat \ {0}
  BY DEF Inv, TypeOK, Finished, StackOnPath, cur

(* A graph on which the recursion may begin.                               *)
GraphRead ==
    /\ start \in [Nodes -> Nat] /\ end \in [Nodes -> Nat] /\ dur \in [Nodes -> Nat]
    /\ parent \in [Nodes -> Nodes \cup {NoNode}] /\ kids \in [Nodes -> SUBSET Nodes]
    /\ GraphOK

(* The graph that is left after the cutting is one.                        *)
LEMMA LinkedIsRead == Linked => GraphRead
<1> SUFFICES ASSUME Linked PROVE GraphRead
  OBVIOUS
<1> USE NodesAssumption, TimesAssumption DEF Linked
<1>1. start \in [Nodes -> Nat] /\ dur \in [Nodes -> Nat]
  OBVIOUS
<1>2. end \in [Nodes -> Nat]
  BY <1>1
<1>3. parent \in [Nodes -> Nodes \cup {NoNode}] /\ kids \in [Nodes -> SUBSET Nodes]
  OBVIOUS
<1> QED
  BY <1>1, <1>2, <1>3 DEF GraphRead, GraphOK

(* The recursion begins with the invariant.                                *)
LEMMA WalkInv == GraphRead /\ Walk(Root) => Inv
<1> SUFFICES ASSUME GraphRead, Walk(Root) PROVE Inv
  OBVIOUS
<1> USE NodesAssumption DEF GraphRead, Walk
<1>3. /\ start \in [Nodes -> Nat] /\ end \in [Nodes -> Nat] /\ dur \in [Nodes -> Nat]
      /\ parent \in [Nodes -> Nodes \cup {NoNode}] /\ kids \in [Nodes -> SUBSET Nodes]
  OBVIOUS
<1>4. stack \in Seq(Nodes) /\ cp \in Seq(Nodes)
  OBVIOUS
<1>5. todo \in [Nodes -> SUBSET Nodes] /\ lrc \in [Nodes -> Nodes \cup {NoNode}]
  BY <1>3
<1>6. TypeOK
  BY <1>3, <1>4, <1>5 DEF TypeOK
<1>7. GraphOK
  OBVIOUS
<1>8. Path = {Root}
  BY DEF Path
<1>9. \A n \in Nodes : lrc[n] = NoNode /\ todo[n] = kids[n] /\ Root \notin kids[n]
  BY <1>3, <1>7 DEF GraphOK
<1>10. Untouched /\ LrcEarliest
  BY <1>3, <1>8, <1>9 DEF Untouched, LrcEarliest
<1>11. StackOnPath
  BY <1>8 DEF StackOnPath
<1>12. PathConnected /\ SiblingsBackwards
  BY DEF PathConnected, SiblingsBackwards, Siblings
<1> QED
  BY <1>6, <1>7, <1>10, <1>11, <1>12 DEF Inv

(* And so the invariant holds at first.                                    *)
LEMMA InitInv == Init => Inv
  BY LinkedIsRead, WalkInv DEF Init

(* happensBefore puts a child on the path only if it starts and ends       *)
(* before the one picked last.                                             *)
LEMMA HappensBeforeIsEarlier ==
  ASSUME Inv, NEW p \in Nodes, NEW b \in kids[p], NEW l \in kids[p], happensBefore(p, b, l)
  PROVE  start[b] < start[l] /\ end[b] < end[l]
<1>1. b \in Nodes /\ l \in Nodes
  BY DEF Inv, TypeOK
<1>2. /\ start[b] \in Nat /\ end[b] \in Nat /\ start[l] \in Nat /\ end[l] \in Nat
      /\ start[b] <= end[b] /\ start[l] <= end[l]
  BY <1>1 DEF Inv, TypeOK, GraphOK
<1>3. CASE end[b] < start[l]
  BY <1>2, <1>3
<1>4. CASE Staggered(b, l)
  BY <1>4 DEF Staggered
<1> QED
  BY <1>3, <1>4 DEF happensBefore

(* The path as a set, when a child is put on it.                           *)
LEMMA ExtendPath ==
  ASSUME cp \in Seq(Nodes), NEW c \in Nodes, Extend(c)
  PROVE  Path' = Path \cup {c} /\ UNCHANGED <<start, end, kids>>
<1>1. cp \in Seq(Nodes) /\ cp' = Append(cp, c)
  BY DEF Extend
<1>2. /\ Len(cp') = Len(cp) + 1 /\ Len(cp) \in Nat
      /\ \A i \in 1..Len(cp) : cp'[i] = cp[i]
      /\ cp'[Len(cp) + 1] = c
  BY <1>1
<1>3. \A i \in 1..(Len(cp) + 1) : i \in 1..Len(cp) \/ i = Len(cp) + 1
  BY <1>2
<1>4. Len(cp) + 1 \in 1..(Len(cp) + 1) /\ 1..Len(cp) \subseteq 1..(Len(cp) + 1)
  BY <1>2
<1>5. UNCHANGED <<start, end, kids>>
  BY DEF Extend, graph
<1> QED
  BY <1>2, <1>3, <1>4, <1>5 DEF Path

(* Putting a child on the path: the two ways to do so differ in what is    *)
(* known of the child picked before.                                       *)
LEMMA ExtendInv ==
  ASSUME Inv, NEW c \in Nodes, IsNext(c), Extend(c),
         lrc[cur] # NoNode => start[c] < start[lrc[cur]] /\ end[c] < end[lrc[cur]]
  PROVE  Inv'
<1>1. /\ cur \in Nodes /\ cur \in Path /\ Len(stack) \in Nat \ {0}
      /\ c \in todo[cur] /\ c \in kids[cur] /\ c \notin Path
  BY CurOnPath DEF IsNext, Inv, Untouched
<1>2. /\ TypeOK /\ GraphOK /\ Untouched /\ LrcEarliest /\ StackOnPath
      /\ PathConnected /\ SiblingsBackwards
  BY DEF Inv
<1>3. /\ todo' = [todo EXCEPT ![cur] = @ \ {c}]
      /\ lrc' = [lrc EXCEPT ![cur] = c]
      /\ stack' = Append(stack, c) /\ cp' = Append(cp, c)
      /\ start' = start /\ end' = end /\ dur' = dur /\ parent' = parent /\ kids' = kids
  BY DEF Extend, graph
<1>4. /\ todo'[cur] = todo[cur] \ {c} /\ lrc'[cur] = c
      /\ \A n \in Nodes \ {cur} : todo'[n] = todo[n] /\ lrc'[n] = lrc[n]
  BY <1>1, <1>2, <1>3 DEF TypeOK
<1>5. /\ stack' \in Seq(Nodes) /\ Len(stack') = Len(stack) + 1
      /\ \A i \in 1..Len(stack) : stack'[i] = stack[i]
      /\ stack'[Len(stack) + 1] = c
  BY <1>2, <1>3 DEF TypeOK
<1>6. /\ cp' \in Seq(Nodes) /\ Len(cp') = Len(cp) + 1 /\ Len(cp) \in Nat
      /\ \A i \in 1..Len(cp) : cp'[i] = cp[i]
      /\ cp'[Len(cp) + 1] = c
  BY <1>2, <1>3 DEF TypeOK
<1>7. TypeOK'
  <2>1. todo' \in [Nodes -> SUBSET Nodes] /\ lrc' \in [Nodes -> Nodes \cup {NoNode}]
    BY <1>1, <1>2, <1>3 DEF TypeOK
  <2> QED
    BY <2>1, <1>2, <1>3, <1>5, <1>6 DEF TypeOK
<1>8. GraphOK'
  BY <1>2, <1>3 DEF GraphOK
<1>9. Path' = Path \cup {c}
  BY <1>2, ExtendPath DEF TypeOK
<1>10. \A n \in Nodes \ {cur} : c \notin kids[n]
  BY <1>1, <1>2 DEF GraphOK
<1>11. Untouched'
  <2>1. c # NoNode
    BY NodesAssumption
  <2> QED
    BY <2>1, <1>1, <1>2, <1>3, <1>4, <1>9, <1>10 DEF Untouched
<1>12. LrcEarliest'
  <2> SUFFICES ASSUME NEW n \in Nodes
               PROVE  /\ lrc'[n] # NoNode => lrc'[n] \in kids[n] /\ lrc'[n] \in Path'
                      /\ \A x \in kids[n] \cap Path' :
                           /\ lrc'[n] # NoNode
                           /\ x # lrc'[n] => start[lrc'[n]] < start[x] /\ end[lrc'[n]] < end[x]
    BY <1>3 DEF LrcEarliest
  <2>1. CASE n # cur
    BY <2>1, <1>2, <1>4, <1>9, <1>10 DEF LrcEarliest
  <2>2. CASE n = cur
    <3>1. c # NoNode
      BY NodesAssumption
    <3>2. ASSUME NEW x \in kids[cur], x \in Path, x # c
          PROVE  start[c] < start[x] /\ end[c] < end[x]
      <4>1. /\ lrc[cur] # NoNode
            /\ x # lrc[cur] => start[lrc[cur]] < start[x] /\ end[lrc[cur]] < end[x]
        BY <3>2, <1>1, <1>2 DEF LrcEarliest
      <4>2. lrc[cur] \in Nodes /\ x \in Nodes
        BY <4>1, <3>2, <1>1, <1>2 DEF TypeOK
      <4>3. /\ start[c] \in Nat /\ start[x] \in Nat /\ start[lrc[cur]] \in Nat
            /\ end[c] \in Nat /\ end[x] \in Nat /\ end[lrc[cur]] \in Nat
        BY <4>2, <1>2 DEF TypeOK
      <4> QED
        BY <4>1, <4>3
    <3> QED
      BY <2>2, <3>1, <3>2, <1>1, <1>4, <1>9
  <2> QED
    BY <2>1, <2>2
<1>13. StackOnPath'
  <2>1. \A i \in 1..(Len(stack) + 1) : i \in 1..Len(stack) \/ i = Len(stack) + 1
    BY <1>1
  <2> QED
    BY <2>1, <1>2, <1>5, <1>9 DEF StackOnPath
<1>14. PathConnected'
  <2>1. Len(cp') > 0 /\ cp'[1] = Root
    BY <1>2, <1>6 DEF PathConnected
  <2>2. ASSUME NEW i \in 2..Len(cp')
        PROVE  \E j \in 1..(i - 1) : cp'[i] \in kids'[cp'[j]]
    <3>1. CASE i = Len(cp) + 1
      <4>1. PICK j \in 1..Len(cp) : cp[j] = cur
        BY <1>1 DEF Path
      <4> QED
        BY <3>1, <4>1, <1>1, <1>3, <1>6
    <3>2. CASE i # Len(cp) + 1
      <4>1. i \in 2..Len(cp)
        BY <3>2, <1>6
      <4>2. PICK j \in 1..(i - 1) : cp[i] \in kids[cp[j]]
        BY <4>1, <1>2 DEF PathConnected
      <4>3. cp'[i] = cp[i] /\ cp'[j] = cp[j]
        BY <4>1, <4>2, <1>6
      <4> QED
        BY <4>2, <4>3, <1>3
    <3> QED
      BY <3>1, <3>2
  <2>3. ASSUME NEW i \in 1..Len(cp'), NEW j \in 1..Len(cp'), cp'[i] = cp'[j]
        PROVE  i = j
    <3>1. (i \in 1..Len(cp) \/ i = Len(cp) + 1) /\ (j \in 1..Len(cp) \/ j = Len(cp) + 1)
      BY <1>6
    <3> QED
      BY <2>3, <3>1, <1>1, <1>2, <1>6 DEF PathConnected, Path
  <2> QED
    BY <2>1, <2>2, <2>3 DEF PathConnected
<1>15. SiblingsBackwards'
  <2> SUFFICES ASSUME NEW i \in 1..Len(cp'), NEW j \in 1..Len(cp'), i < j,
                      parent[cp'[i]] = parent[cp'[j]]
               PROVE  start[cp'[j]] < start[cp'[i]] /\ end[cp'[j]] < end[cp'[i]]
    BY <1>3 DEF SiblingsBackwards, Siblings
  <2>1. CASE j = Len(cp) + 1
    <3>0. i \in 1..Len(cp)
      BY <2>1, <1>6
    <3>1. i \in 1..Len(cp) /\ cp'[i] = cp[i] /\ cp[i] \in Nodes /\ cp[i] \in Path
      <4>1. cp[i] \in Nodes
        BY <3>0, <1>2 DEF TypeOK
      <4>2. cp[i] \in Path
        BY <3>0 DEF Path
      <4> QED
        BY <3>0, <4>1, <4>2, <1>6
    <3>2. cp'[j] = c /\ parent[c] = cur
      BY <2>1, <1>1, <1>2, <1>6 DEF GraphOK
    <3>3. cp[i] \in kids[cur] /\ cp[i] # c
      BY <3>1, <3>2, <1>1, <1>2 DEF GraphOK
    <3>4. lrc'[cur] = c /\ cp[i] \in Path'
      BY <3>1, <1>4, <1>9
    <3> QED
      BY <3>1, <3>2, <3>3, <3>4, <1>1, <1>3, <1>12 DEF LrcEarliest
  <2>2. CASE j # Len(cp) + 1
    <3>1. i \in 1..Len(cp) /\ j \in 1..Len(cp)
      BY <2>2, <1>6
    <3> QED
      BY <3>1, <1>2, <1>6 DEF SiblingsBackwards, Siblings
  <2> QED
    BY <2>1, <2>2
<1> QED
  BY <1>7, <1>8, <1>11, <1>12, <1>13, <1>14, <1>15 DEF Inv

(* Passing over a child changes neither the path nor what was picked.      *)
LEMMA SkipInv ==
  ASSUME Inv, NEW c \in Nodes, SkipOverlapping(c)
  PROVE  Inv'
<1>1. /\ TypeOK /\ GraphOK /\ Untouched /\ LrcEarliest /\ StackOnPath
      /\ PathConnected /\ SiblingsBackwards
  BY DEF Inv
<1>2. cur \in Nodes /\ cur \in Path
  BY CurOnPath DEF SkipOverlapping, IsNext
<1>3. /\ todo' = [todo EXCEPT ![cur] = @ \ {c}]
      /\ UNCHANGED <<start, end, dur, parent, kids, stack, lrc, cp>>
  BY DEF SkipOverlapping
<1>4. /\ todo'[cur] = todo[cur] \ {c}
      /\ \A n \in Nodes \ {cur} : todo'[n] = todo[n]
  BY <1>1, <1>2, <1>3 DEF TypeOK
<1>5. TypeOK'
  <2>1. todo' \in [Nodes -> SUBSET Nodes]
    BY <1>1, <1>2, <1>3 DEF TypeOK
  <2> QED
    BY <2>1, <1>1, <1>3 DEF TypeOK
<1>6. GraphOK' /\ LrcEarliest' /\ StackOnPath' /\ PathConnected' /\ SiblingsBackwards'
  BY <1>1, <1>3 DEF GraphOK, LrcEarliest, StackOnPath, PathConnected,
                    SiblingsBackwards, Siblings, Path
<1>7. Path' = Path
  BY <1>3 DEF Path
<1>8. Untouched'
  <2>1. lrc[cur] # NoNode
    BY DEF SkipOverlapping
  <2> QED
    BY <2>1, <1>1, <1>2, <1>3, <1>4, <1>7 DEF Untouched
<1> QED
  BY <1>5, <1>6, <1>8 DEF Inv

(* A sequence without its last element.                                    *)
LEMMA Front ==
  ASSUME NEW S, NEW s \in Seq(S), NEW m \in Nat, Len(s) = m + 1
  PROVE  LET t == SubSeq(s, 1, m) IN
         /\ t \in Seq(S) /\ Len(t) = m
         /\ \A i \in 1..Len(t) : i \in 1..Len(s) /\ t[i] = s[i]
<1> DEFINE t == SubSeq(s, 1, m)
<1>1. m \in Int /\ 1 \in Int /\ m - 1 + 1 = m /\ \A i \in 1..m : 1 + i - 1 = i /\ i \in 1..Len(s)
  OBVIOUS
<1>2. \A i \in 1..m : s[i] \in S
  BY <1>1
<1>3. /\ t \in Seq(S)
      /\ Len(t) = IF 1 <= m THEN m - 1 + 1 ELSE 0
      /\ \A i \in 1..(m - 1 + 1) : t[i] = s[1 + i - 1]
  BY <1>1, <1>2, SubSeqProperties
<1>4. 1 <= m \/ m = 0
  OBVIOUS
<1> HIDE DEF t
<1>5. Len(t) = m
  BY <1>1, <1>3, <1>4
<1> QED
  BY <1>1, <1>3, <1>5 DEF t

(* A return only shortens the stack.                                       *)
LEMMA ReturnInv ==
  ASSUME Inv, Return
  PROVE  Inv'
<1>1. /\ TypeOK /\ GraphOK /\ Untouched /\ LrcEarliest /\ StackOnPath
      /\ PathConnected /\ SiblingsBackwards
  BY DEF Inv
<1>2. /\ stack' = SubSeq(stack, 1, Len(stack) - 1)
      /\ UNCHANGED <<start, end, dur, parent, kids, todo, lrc, cp>>
  BY DEF Return
<1> DEFINE m == Len(stack) - 1
<1>3. m \in Nat /\ Len(stack) = m + 1 /\ stack \in Seq(Nodes)
  BY <1>1, CurOnPath DEF Return, TypeOK
<1>4. /\ stack' \in Seq(Nodes) /\ Len(stack') = m
      /\ \A i \in 1..Len(stack') : i \in 1..Len(stack) /\ stack'[i] = stack[i]
  <2>1. stack' = SubSeq(stack, 1, m)
    BY <1>2
  <2> HIDE DEF m
  <2> QED  BY <1>3, <2>1, Front
<1>8. TypeOK' /\ StackOnPath'
  <2>1. StackOnPath'
    BY <1>1, <1>2, <1>4 DEF StackOnPath, Path
  <2> QED
    BY <2>1, <1>1, <1>2, <1>4 DEF TypeOK
<1>9. GraphOK' /\ Untouched' /\ LrcEarliest' /\ PathConnected' /\ SiblingsBackwards'
  BY <1>1, <1>2 DEF GraphOK, Untouched, LrcEarliest, PathConnected,
                    SiblingsBackwards, Siblings, Path
<1> QED
  BY <1>8, <1>9 DEF Inv

(* Every step keeps the invariant.                                         *)
LEMMA NextInv == Inv /\ [Next]_vars => Inv'
<1> SUFFICES ASSUME Inv, [Next]_vars PROVE Inv'
  OBVIOUS
<1>1. ASSUME NEW c \in Nodes, TakeLatest(c) PROVE Inv'
  BY <1>1, ExtendInv DEF TakeLatest
<1>2. ASSUME NEW c \in Nodes, TakeEarlier(c) PROVE Inv'
  <2>1. IsNext(c) /\ lrc[cur] # NoNode /\ happensBefore(cur, c, lrc[cur]) /\ Extend(c)
    BY <1>2 DEF TakeEarlier
  <2>2. cur \in Nodes /\ c \in kids[cur] /\ lrc[cur] \in kids[cur]
    BY <2>1, CurOnPath DEF IsNext, Inv, Untouched, LrcEarliest
  <2>3. start[c] < start[lrc[cur]] /\ end[c] < end[lrc[cur]]
    BY <2>1, <2>2, HappensBeforeIsEarlier
  <2> QED
    BY <2>1, <2>3, ExtendInv
<1>3. ASSUME NEW c \in Nodes, SkipOverlapping(c) PROVE Inv'
  BY <1>3, SkipInv
<1>4. CASE Return
  BY <1>4, ReturnInv
<1>5. CASE UNCHANGED vars
  <2>1. Path' = Path
    BY <1>5 DEF vars, Path
  <2>2. TypeOK' /\ GraphOK'
    BY <1>5 DEF vars, Inv, TypeOK, GraphOK
  <2>3. Untouched' /\ LrcEarliest' /\ StackOnPath'
    BY <1>5, <2>1 DEF vars, Inv, Untouched, LrcEarliest, StackOnPath
  <2>4. PathConnected' /\ SiblingsBackwards'
    BY <1>5 DEF vars, Inv, PathConnected, SiblingsBackwards, Siblings
  <2> QED
    BY <2>2, <2>3, <2>4 DEF Inv
<1> QED
  BY <1>1, <1>2, <1>3, <1>4, <1>5 DEF Next

(* The invariant holds throughout every walk.                              *)
THEOREM InvHolds == Spec => []Inv
<1>1. Inv /\ [Next]_vars => Inv'
  BY NextInv
<1> QED
  BY InitInv, <1>1, PTL DEF Spec

-----------------------------------------------------------------------------
(* The path, the stack and the loop variables keep their types: no NoNode  *)
(* ever gets onto the path.                                                *)
THEOREM TypeCorrect == Spec => []TypeOK
<1>1. Inv => TypeOK
  BY DEF Inv
<1> QED
  BY InvHolds, <1>1, PTL

(* The path starts at the root, each span on it is a child of one already  *)
(* on it, and no span is on it twice.                                      *)
THEOREM PathIsConnected == Spec => []PathConnected
<1>1. Inv => PathConnected
  BY DEF Inv
<1> QED
  BY InvHolds, <1>1, PTL

(* Siblings on the path are strictly ordered backwards in time.            *)
THEOREM PathGoesBackwards == Spec => []SiblingsBackwards
<1>1. Inv => SiblingsBackwards
  BY DEF Inv
<1> QED
  BY InvHolds, <1>1, PTL

(* A span whose children fit and that has no duration has only children    *)
(* without one, at the same instant.                                       *)
LEMMA FittedDivision == Inv /\ PathFits => NoZeroDivision
<1> SUFFICES ASSUME Inv, PathFits, NEW c \in Nodes, IsNext(c), lrc[cur] # NoNode,
                    ~(end[c] < start[lrc[cur]]), Staggered(c, lrc[cur])
             PROVE  dur[cur] # 0
  BY DEF NoZeroDivision
<1>1. cur \in Nodes /\ cur \in Path /\ c \in kids[cur] /\ lrc[cur] \in kids[cur]
  BY CurOnPath DEF IsNext, Inv, Untouched, LrcEarliest
<1>2. lrc[cur] \in Nodes
  BY <1>1 DEF Inv, TypeOK
<1>3. start[cur] <= start[c] /\ end[lrc[cur]] <= end[cur] /\ start[c] < start[lrc[cur]]
  BY <1>1 DEF PathFits, Staggered
<1>4. start[lrc[cur]] <= end[lrc[cur]] /\ end[cur] = start[cur] + dur[cur]
  BY <1>1, <1>2 DEF Inv, GraphOK, TypeOK
<1>5. /\ start[cur] \in Nat /\ end[cur] \in Nat /\ start[c] \in Nat
      /\ start[lrc[cur]] \in Nat /\ end[lrc[cur]] \in Nat
  BY <1>1, <1>2 DEF Inv, TypeOK
<1> QED
  BY <1>3, <1>4, <1>5

(* Because the children fit, happensBefore never divides by zero.          *)
THEOREM NeverDividesByZero == Spec => []NoZeroDivision
<1>1. Init => Fitted
  BY DEF Init
<1>2. Fitted /\ [Next]_vars => Fitted'
  BY DEF Fitted, Next, vars, TakeLatest, TakeEarlier, SkipOverlapping, Return, Extend, graph
<1>3. Inv /\ Fitted => PathFits
  BY DEF Inv, TypeOK, Fitted, PathFits, Path
<1> QED
  BY <1>1, <1>2, <1>3, InvHolds, FittedDivision, PTL DEF Spec

-----------------------------------------------------------------------------
(* Taking the first of the sorted children: it ends last.                  *)
LEMMA TakeLatestPicks ==
  ASSUME Inv, NEW c \in Nodes, TakeLatest(c)
  PROVE  Backward!Pick(cur, c) /\ cur \in Path /\ c \in kids[cur]
<1>1. IsNext(c) /\ lrc[cur] = NoNode /\ Extend(c) /\ cur \in Nodes /\ cur \in Path
  BY CurOnPath DEF TakeLatest, IsNext
<1>2. /\ todo[cur] = kids[cur] /\ c \in kids[cur] /\ c \notin Path
      /\ kids[cur] \cap Path = {}
  BY <1>1 DEF Inv, Untouched, LrcEarliest, IsNext
<1>3. \A d \in kids[cur] : end[d] <= end[c]
  <2> SUFFICES ASSUME NEW d \in kids[cur] PROVE end[d] <= end[c]
    OBVIOUS
  <2>1. d \in Nodes /\ end[d] \in Nat /\ end[c] \in Nat
    BY <1>1 DEF Inv, TypeOK
  <2>2. d = c \/ ComesFirst(c, d)
    BY <1>1, <1>2 DEF IsNext
  <2> QED
    BY <2>1, <2>2 DEF ComesFirst
<1>4. Path' = Path \cup {c} /\ UNCHANGED <<start, end, kids>>
  BY <1>1, ExtendPath DEF Inv, TypeOK
<1> QED
  BY <1>1, <1>2, <1>3, <1>4 DEF Backward!Pick, Backward!EndsLast, Backward!graph

(* Taking an earlier child: it precedes all that are picked.               *)
LEMMA TakeEarlierPicks ==
  ASSUME Inv, NEW c \in Nodes, TakeEarlier(c)
  PROVE  Backward!Pick(cur, c) /\ cur \in Path /\ c \in kids[cur]
<1>1. /\ IsNext(c) /\ lrc[cur] # NoNode /\ Extend(c) /\ cur \in Nodes /\ cur \in Path
      /\ happensBefore(cur, c, lrc[cur])
  BY CurOnPath DEF TakeEarlier, IsNext
<1>2. /\ c \in kids[cur] /\ c \notin Path
      /\ lrc[cur] \in kids[cur] /\ lrc[cur] \in Path
  BY <1>1 DEF Inv, Untouched, LrcEarliest, IsNext
<1>3. start[c] < start[lrc[cur]] /\ end[c] < end[lrc[cur]]
  BY <1>1, <1>2, HappensBeforeIsEarlier
<1>4. \A d \in kids[cur] \cap Path : start[c] < start[d] /\ end[c] < end[d]
  <2> SUFFICES ASSUME NEW d \in kids[cur] \cap Path
               PROVE  start[c] < start[d] /\ end[c] < end[d]
    OBVIOUS
  <2>1. d = lrc[cur] \/ (start[lrc[cur]] < start[d] /\ end[lrc[cur]] < end[d])
    BY <1>1 DEF Inv, LrcEarliest
  <2>2. /\ d \in Nodes /\ lrc[cur] \in Nodes
    BY <1>1, <1>2 DEF Inv, TypeOK
  <2>3. /\ start[c] \in Nat /\ start[d] \in Nat /\ start[lrc[cur]] \in Nat
        /\ end[c] \in Nat /\ end[d] \in Nat /\ end[lrc[cur]] \in Nat
    BY <2>2 DEF Inv, TypeOK
  <2> QED
    BY <1>3, <2>1, <2>3
<1>5. Path' = Path \cup {c} /\ UNCHANGED <<start, end, kids>>
  BY <1>1, ExtendPath DEF Inv, TypeOK
<1>6. kids[cur] \cap Path # {}
  BY <1>2
<1> QED
  BY <1>1, <1>2, <1>4, <1>5, <1>6 DEF Backward!Pick, Backward!Earlier, Backward!graph

(* A step of the recursion picks a span that may be picked, or nothing.    *)
LEMMA StepPicks == Inv /\ [Next]_vars => [Backward!Next]_(Backward!vars)
<1> SUFFICES ASSUME Inv, [Next]_vars PROVE [Backward!Next]_(Backward!vars)
  OBVIOUS
<1>1. ASSUME NEW c \in Nodes, TakeLatest(c) PROVE Backward!Next
  BY <1>1, TakeLatestPicks DEF Backward!Next
<1>2. ASSUME NEW c \in Nodes, TakeEarlier(c) PROVE Backward!Next
  BY <1>2, TakeEarlierPicks DEF Backward!Next
<1>3. CASE UNCHANGED <<start, end, kids, cp>>
  BY <1>3 DEF Backward!vars, Path
<1>4. ASSUME NEW c \in Nodes, SkipOverlapping(c) PROVE UNCHANGED <<start, end, kids, cp>>
  BY <1>4 DEF SkipOverlapping
<1>5. ASSUME Return PROVE UNCHANGED <<start, end, kids, cp>>
  BY <1>5 DEF Return
<1>6. ASSUME UNCHANGED vars PROVE UNCHANGED <<start, end, kids, cp>>
  BY <1>6 DEF vars
<1> QED
  BY <1>1, <1>2, <1>3, <1>4, <1>5, <1>6 DEF Next

(* The recursion implements BackwardPath: every child it puts on the path  *)
(* is one that may be picked, and its other steps pick nothing.            *)
THEOREM ImplementsBackwardPath == Spec => PicksBackwards
<1>1. Init => Backward!Init
  BY DEF Init, Walk, Path, Backward!Init
<1> QED
  BY <1>1, StepPicks, InvHolds, PTL DEF Spec, PicksBackwards, Backward!Spec

-----------------------------------------------------------------------------
(* How the children that were put on the path lie to each other and to     *)
(* those that were not: any two overlap by less than the allowance, no     *)
(* three overlap, and nothing that would fit is left out. The code         *)
(* compares a child only with the one it picked last.                      *)

(* Overlaps, said of the spans of the path instead of their positions.     *)
SmallOverlaps ==
    \A x, y \in Path :
        parent[x] = parent[y] /\ start[y] < start[x]
            => (end[y] - start[x]) * Allowance < dur[parent[x]]

NoThird ==
    \A x, y, z \in Path :
        parent[x] = parent[y] /\ parent[y] = parent[z] /\ start[z] < start[y] /\ start[y] < start[x]
            => end[z] < start[x]

(* Nothing a call has not looked at ends after what it picked last.        *)
LaterEndEarlier ==
    \A n \in Nodes : lrc[n] # NoNode => \A d \in todo[n] : end[d] <= end[lrc[n]]

(* A span of the path whose call is not on the stack is done.              *)
RestOnStack ==
    \A n \in Path : todo[n] # {} => \E i \in 1..Len(stack) : stack[i] = n

Covers(l, c) == l \in Path /\ start[l] <= end[c] /\ end[c] <= end[l]

(* What a call has looked at is on the path or was passed over for a       *)
(* sibling that is.                                                        *)
NothingMissed ==
    \A n \in Path : \A c \in kids[n] \ todo[n] : c \in Path \/ \E l \in kids[n] : Covers(l, c)

OverlapInv ==
    Inv /\ SmallOverlaps /\ NoThird /\ LaterEndEarlier /\ RestOnStack /\ NothingMissed

-----------------------------------------------------------------------------
(* The two facts about products the comparison of overlaps needs.          *)
LEMMA Products ==
  ASSUME NEW a \in Int, NEW b \in Int, NEW k \in Nat \ {0}, a <= b
  PROVE  a * k <= b * k /\ (b < 0 => b * k < 0)
  OBVIOUS

(* Three events of siblings in a window are more than the two that         *)
(* happensBefore allows.                                                   *)
LEMMA ThreeEvents ==
  ASSUME NEW S, IsFiniteSet(S), NEW l \in S, NEW x \in S, NEW c \in S, x # l, NEW from, NEW to,
         from <= start[l], start[l] <= to, from <= start[x], start[x] <= to,
         from <= end[c], end[c] <= to
  PROVE  numSyncEventsInWindowInclusive(S, from, to) # 2
<1> DEFINE In(t) == from <= t /\ t <= to
           A == {d \in S : In(start[d])}
           B == {d \in S : In(end[d])}
<1>1. A \in SUBSET S /\ B \in SUBSET S /\ {l, x} \in SUBSET A /\ {c} \in SUBSET B
  OBVIOUS
<1>2. IsFiniteSet(A) /\ IsFiniteSet(B)
  <2> HIDE DEF A, B
  <2> QED  BY <1>1, FS_Subset
<1>3. Cardinality(A) \in Nat /\ Cardinality(B) \in Nat
  <2> HIDE DEF A, B
  <2> QED  BY <1>2, FS_CardinalityType
<1>4. Cardinality({l, x}) = 2 /\ Cardinality({c}) = 1
  <2>1. Cardinality({l}) = 1 /\ IsFiniteSet({l}) /\ Cardinality({c}) = 1
    BY FS_Singleton
  <2>2. {l, x} = {l} \cup {x}
    OBVIOUS
  <2>3. Cardinality({l} \cup {x}) = Cardinality({l}) + 1
    <3>1. x \notin {l}
      OBVIOUS
    <3>2. Cardinality({l} \cup {x}) = IF x \in {l} THEN Cardinality({l}) ELSE Cardinality({l}) + 1
      <4> HIDE DEF A, B
      <4> QED  BY <2>1, FS_AddElement, Zenon
    <3> QED  BY <3>1, <3>2
  <2> QED  BY <2>1, <2>2, <2>3
<1>5. Cardinality({l, x}) <= Cardinality(A) /\ Cardinality({c}) <= Cardinality(B)
  <2> HIDE DEF A, B
  <2> QED  BY <1>1, <1>2, FS_Subset
<1>6. numSyncEventsInWindowInclusive(S, from, to) = Cardinality(A) + Cardinality(B)
  BY DEF numSyncEventsInWindowInclusive
<1> QED
  <2> HIDE DEF A, B
  <2> QED  BY <1>3, <1>4, <1>5, <1>6

-----------------------------------------------------------------------------
(* The child a call takes, and the ones it has taken.                      *)
LEMMA NextChild ==
  ASSUME Inv, NEW c \in Nodes, IsNext(c)
  PROVE  /\ cur \in Nodes /\ cur \in Path
         /\ c \in todo[cur] /\ c \in kids[cur] /\ c \notin Path
         /\ \A d \in todo[cur] : end[d] <= end[c]
         /\ lrc[cur] # NoNode => lrc[cur] \in kids[cur] /\ lrc[cur] \in Path
<1>1. /\ cur \in Nodes /\ cur \in Path
      /\ c \in todo[cur] /\ c \in kids[cur] /\ c \notin Path
  BY CurOnPath DEF IsNext, Inv, Untouched
<1>2. ASSUME NEW d \in todo[cur] PROVE end[d] <= end[c]
  <2>1. d \in Nodes /\ end[d] \in Nat /\ end[c] \in Nat
    BY <1>1, <1>2 DEF Inv, TypeOK
  <2>2. d = c \/ ComesFirst(c, d)
    BY <1>2 DEF IsNext
  <2> QED  BY <2>1, <2>2 DEF ComesFirst
<1> QED
  BY <1>1, <1>2 DEF Inv, LrcEarliest

(* A child that happensBefore accepts overlaps every child picked before   *)
(* by less than the allowance, and none but the last at all.               *)
LEMMA Accepted ==
  ASSUME Inv, NEW c \in Nodes, TakeEarlier(c), NEW x \in kids[cur], x \in Path
  PROVE  /\ start[c] < start[x]
         /\ (end[c] - start[x]) * Allowance < dur[cur]
         /\ x # lrc[cur] => end[c] < start[x]
<1> DEFINE l == lrc[cur]
<1>1. /\ l # NoNode /\ happensBefore(cur, c, l) /\ cur \in Nodes
      /\ c \in kids[cur] /\ l \in kids[cur]
  BY NextChild DEF TakeEarlier
<1>2. x \in Nodes /\ l \in Nodes
  BY <1>1 DEF Inv, TypeOK
<1>3. /\ start[x] \in Nat /\ start[l] \in Nat /\ start[c] \in Nat /\ end[c] \in Nat
      /\ end[l] \in Nat /\ dur[cur] \in Nat
  BY <1>1, <1>2 DEF Inv, TypeOK
<1>4. x # l => start[l] < start[x]
  BY <1>1, <1>2 DEF Inv, LrcEarliest
<1>4a. start[c] < start[x]
  <2>1. start[c] < start[l]
    BY <1>1, HappensBeforeIsEarlier
  <2> QED  BY <2>1, <1>3, <1>4
<1>5. (end[c] - start[x]) * Allowance <= (end[c] - start[l]) * Allowance
  <2>1. end[c] - start[x] \in Int /\ end[c] - start[l] \in Int /\ end[c] - start[x] <= end[c] - start[l]
    BY <1>3, <1>4
  <2> QED  BY <2>1, Products, AllowanceAssumption
<1>6. (end[c] - start[x]) * Allowance \in Int /\ (end[c] - start[l]) * Allowance \in Int
  BY <1>3, AllowanceAssumption
<1> HIDE DEF l
<1>7. CASE end[c] < start[l]
  <2>1. end[c] - start[l] \in Int /\ end[c] - start[l] < 0
    BY <1>3, <1>7
  <2>2. (end[c] - start[l]) * Allowance < 0
    BY <2>1, Products, AllowanceAssumption
  <2> QED  BY <2>2, <1>3, <1>4, <1>4a, <1>5, <1>6, <1>7 DEF l
<1>8. CASE ~(end[c] < start[l])
  <2>1. /\ Staggered(c, l) /\ SmallOverlap(cur, c, l)
        /\ numSyncEventsInWindowInclusive(kids[cur], start[l], end[c]) = 2
    BY <1>1, <1>8 DEF happensBefore, l
  <2>2. (end[c] - start[l]) * Allowance < dur[cur]
    BY <2>1 DEF SmallOverlap
  <2>3. ASSUME x # l, ~(end[c] < start[x]) PROVE FALSE
    <3>1. IsFiniteSet(kids[cur])
      <4>1. kids[cur] \in SUBSET Nodes
        BY <1>1 DEF Inv, TypeOK
      <4> QED  BY <4>1, FiniteAssumption, FS_Subset
    <3>2. /\ start[l] <= start[l] /\ start[l] <= end[c] /\ start[l] <= start[x]
          /\ start[x] <= end[c] /\ end[c] <= end[c]
      BY <2>3, <1>3, <1>4, <1>8
    <3> QED  BY <2>1, <2>3, <3>1, <3>2, <1>1, ThreeEvents DEF l
  <2> QED  BY <2>2, <2>3, <1>3, <1>4a, <1>5, <1>6 DEF l
<1> QED  BY <1>7, <1>8

(* Putting a child on the path, given how it lies to its siblings there.   *)
LEMMA ExtendOverlaps ==
  ASSUME OverlapInv, Inv', NEW c \in Nodes, IsNext(c), Extend(c),
         \A x \in kids[cur] \cap Path :
            /\ start[c] < start[x]
            /\ (end[c] - start[x]) * Allowance < dur[cur]
            /\ x # lrc[cur] => end[c] < start[x]
  PROVE  OverlapInv'
<1>1. /\ cur \in Nodes /\ cur \in Path /\ c \in kids[cur] /\ c \notin Path /\ c \in todo[cur]
      /\ \A d \in todo[cur] : end[d] <= end[c]
  BY NextChild DEF OverlapInv
<1>2. /\ todo' = [todo EXCEPT ![cur] = @ \ {c}]
      /\ lrc' = [lrc EXCEPT ![cur] = c]
      /\ stack' = Append(stack, c)
      /\ start' = start /\ end' = end /\ dur' = dur /\ parent' = parent /\ kids' = kids
  BY DEF Extend, graph
<1>3. TypeOK /\ GraphOK /\ Untouched /\ LrcEarliest /\ StackOnPath
  BY DEF OverlapInv, Inv
<1>4. /\ todo'[cur] = todo[cur] \ {c} /\ lrc'[cur] = c
      /\ \A n \in Nodes \ {cur} : todo'[n] = todo[n] /\ lrc'[n] = lrc[n]
  BY <1>1, <1>2, <1>3 DEF TypeOK
<1>5. Path' = Path \cup {c} /\ Path \subseteq Nodes
  <2>1. Path' = Path \cup {c}
    BY <1>3, ExtendPath DEF TypeOK
  <2>2. Path \subseteq Nodes
    BY <1>3 DEF TypeOK, Path
  <2> QED  BY <2>1, <2>2
<1>6. parent[c] = cur /\ \A x \in Path : parent[x] = cur => x \in kids[cur]
  BY <1>1, <1>3, <1>5 DEF GraphOK
<1>7. \A x \in Path : /\ start[x] \in Nat /\ start[c] \in Nat
                      /\ parent[x] = cur => ~(start[x] < start[c])
  BY <1>3, <1>5, <1>6 DEF TypeOK
<1>8. ~(start[c] < start[c])
  BY <1>3 DEF TypeOK
<1>9. SmallOverlaps'
  <2> SUFFICES ASSUME NEW x \in Path', NEW y \in Path', parent[x] = parent[y], start[y] < start[x]
               PROVE  (end[y] - start[x]) * Allowance < dur[parent[x]]
    BY <1>2 DEF SmallOverlaps
  <2>1. CASE x = c
    BY <2>1, <1>5, <1>6, <1>7, <1>8
  <2>2. CASE x # c /\ y = c
    <3>1. x \in kids[cur] \cap Path /\ parent[x] = cur
      BY <2>2, <1>5, <1>6
    <3> QED  BY <2>2, <3>1
  <2>3. CASE x # c /\ y # c
    BY <2>3, <1>5 DEF OverlapInv, SmallOverlaps
  <2> QED  BY <2>1, <2>2, <2>3
<1>10. NoThird'
  <2> SUFFICES ASSUME NEW x \in Path', NEW y \in Path', NEW z \in Path', parent[x] = parent[y],
                      parent[y] = parent[z], start[z] < start[y], start[y] < start[x]
               PROVE  end[z] < start[x]
    BY <1>2 DEF NoThird
  <2>1. x # c /\ y # c
    BY <1>5, <1>6, <1>7, <1>8
  <2>2. CASE z = c
    <3>1. x \in kids[cur] \cap Path /\ y \in kids[cur] \cap Path
      BY <2>1, <2>2, <1>5, <1>6
    <3>2. x # lrc[cur]
      <4>0. x \in Nodes /\ y \in Nodes
        BY <3>1, <1>5
      <4>1. y # NoNode /\ start[x] \in Nat /\ start[y] \in Nat
        BY <4>0, <1>3, NodesAssumption DEF TypeOK
      <4>2. x # y
        BY <4>1
      <4>3. x = lrc[cur] => start[x] < start[y]
        BY <4>2, <3>1, <1>1, <1>3 DEF LrcEarliest
      <4> QED  BY <4>1, <4>3
    <3> QED  BY <2>2, <3>1, <3>2
  <2>3. CASE z # c
    BY <2>1, <2>3, <1>5 DEF OverlapInv, NoThird
  <2> QED  BY <2>2, <2>3
<1>11. LaterEndEarlier'
  BY <1>1, <1>2, <1>4 DEF OverlapInv, LaterEndEarlier
<1>12. RestOnStack'
  <2>1. /\ Len(stack') = Len(stack) + 1 /\ Len(stack) \in Nat
        /\ \A i \in 1..Len(stack) : stack'[i] = stack[i]
        /\ stack'[Len(stack) + 1] = c
    BY <1>2, <1>3 DEF TypeOK
  <2>2. ASSUME NEW n \in Path', todo'[n] # {} PROVE \E i \in 1..Len(stack') : stack'[i] = n
    <3>1. CASE n = c
      BY <3>1, <2>1
    <3>2. CASE n # c
      <4>1. n \in Path /\ todo[n] # {}
        BY <2>2, <3>2, <1>4, <1>5
      <4>2. PICK i \in 1..Len(stack) : stack[i] = n
        BY <4>1 DEF OverlapInv, RestOnStack
      <4> QED  BY <4>2, <2>1
    <3> QED  BY <3>1, <3>2
  <2> QED  BY <2>2 DEF RestOnStack
<1>13. NothingMissed'
  <2> SUFFICES ASSUME NEW n \in Path', NEW d \in kids[n] \ todo'[n]
               PROVE  d \in Path' \/ \E l \in kids[n] : Covers(l, d)'
    BY <1>2 DEF NothingMissed
  <2>1. CASE d = c
    BY <2>1, <1>5
  <2>2. CASE d # c /\ n = c
    <3>1. todo[c] = kids[c] /\ todo'[c] = kids[c]
      BY <1>1, <1>3, <1>4 DEF Untouched
    <3> QED  BY <2>2, <3>1
  <2>3. CASE d # c /\ n # c
    <3>1. n \in Path /\ d \in kids[n] \ todo[n]
      BY <2>3, <1>4, <1>5
    <3>2. d \in Path \/ \E l \in kids[n] : Covers(l, d)
      BY <3>1 DEF OverlapInv, NothingMissed
    <3> QED  BY <3>2, <1>2, <1>5 DEF Covers
  <2> QED  BY <2>1, <2>2, <2>3
<1> QED
  BY <1>9, <1>10, <1>11, <1>12, <1>13 DEF OverlapInv

(* A child that is passed over ends in the window of the one picked last.  *)
LEMMA SkipOverlaps ==
  ASSUME OverlapInv, Inv', NEW c \in Nodes, SkipOverlapping(c)
  PROVE  OverlapInv'
<1> DEFINE l == lrc[cur]
<1>1. /\ cur \in Nodes /\ cur \in Path /\ c \in kids[cur] /\ c \in todo[cur]
      /\ l # NoNode /\ l \in kids[cur] /\ l \in Path
      /\ ~happensBefore(cur, c, l)
  BY NextChild DEF OverlapInv, SkipOverlapping
<1>2. /\ todo' = [todo EXCEPT ![cur] = @ \ {c}]
      /\ UNCHANGED <<start, end, dur, parent, kids, stack, lrc, cp>>
  BY DEF SkipOverlapping
<1>3. TypeOK
  BY DEF OverlapInv, Inv
<1>4. /\ todo'[cur] = todo[cur] \ {c}
      /\ \A n \in Nodes \ {cur} : todo'[n] = todo[n]
  BY <1>1, <1>2, <1>3 DEF TypeOK
<1>5. Path' = Path /\ Path \subseteq Nodes
  BY <1>2, <1>3 DEF Path, TypeOK
<1>6. SmallOverlaps' /\ NoThird'
  BY <1>2, <1>5 DEF OverlapInv, SmallOverlaps, NoThird
<1>7. LaterEndEarlier'
  BY <1>1, <1>2, <1>4 DEF OverlapInv, LaterEndEarlier
<1>8. RestOnStack'
  BY <1>1, <1>2, <1>4, <1>5 DEF OverlapInv, RestOnStack
<1>9. Covers(l, c)
  <2>1. end[c] <= end[l]
    BY <1>1 DEF OverlapInv, LaterEndEarlier
  <2>2. start[l] \in Nat /\ end[c] \in Nat
    BY <1>1, <1>3 DEF TypeOK
  <2>3. ~(end[c] < start[l])
    BY <1>1 DEF happensBefore
  <2> QED  BY <1>1, <2>1, <2>2, <2>3 DEF Covers
<1>10. NothingMissed'
  <2> SUFFICES ASSUME NEW n \in Path, NEW d \in kids[n] \ todo'[n]
               PROVE  d \in Path \/ \E k \in kids[n] : Covers(k, d)
    BY <1>2, <1>5 DEF NothingMissed, Covers
  <2>1. CASE d = c /\ n = cur
    BY <2>1, <1>1, <1>9
  <2>2. CASE d # c \/ n # cur
    BY <2>2, <1>4, <1>5 DEF OverlapInv, NothingMissed
  <2> QED  BY <2>1, <2>2
<1> QED
  BY <1>6, <1>7, <1>8, <1>10 DEF OverlapInv

(* A call returns when it has looked at all of its children.               *)
LEMMA ReturnOverlaps ==
  ASSUME OverlapInv, Inv', Return
  PROVE  OverlapInv'
<1>1. /\ stack' = SubSeq(stack, 1, Len(stack) - 1) /\ todo[cur] = {}
      /\ UNCHANGED <<start, end, dur, parent, kids, todo, lrc, cp>>
  BY DEF Return
<1> DEFINE m == Len(stack) - 1
<1>2. m \in Nat /\ Len(stack) = m + 1 /\ stack \in Seq(Nodes)
  BY CurOnPath DEF OverlapInv, Inv, TypeOK, Return
<1>3. Len(stack') = m /\ \A i \in 1..m : stack'[i] = stack[i]
  <2>1. stack' = SubSeq(stack, 1, m)
    BY <1>1
  <2> HIDE DEF m
  <2> QED  BY <1>2, <2>1, Front
<1>4. Path' = Path
  BY <1>1 DEF Path
<1>5. RestOnStack'
  <2> SUFFICES ASSUME NEW n \in Path, todo[n] # {} PROVE \E i \in 1..Len(stack') : stack'[i] = n
    BY <1>1, <1>4 DEF RestOnStack
  <2>1. PICK i \in 1..Len(stack) : stack[i] = n
    BY DEF OverlapInv, RestOnStack
  <2>2. i # Len(stack)
    BY <2>1, <1>1 DEF cur
  <2>3. i \in 1..m
    <3> HIDE DEF m
    <3> QED  BY <2>2, <1>2
  <2> QED  BY <2>1, <2>3, <1>3
<1> QED
  BY <1>1, <1>4, <1>5
     DEF OverlapInv, SmallOverlaps, NoThird, LaterEndEarlier, NothingMissed, Covers

-----------------------------------------------------------------------------
(* The walk starts with nothing but the root on the path.                  *)
LEMMA WalkOverlaps == GraphRead /\ Walk(Root) => OverlapInv
<1> SUFFICES ASSUME GraphRead, Walk(Root) PROVE OverlapInv
  OBVIOUS
<1>1. Inv
  BY WalkInv
<1>2. Path = {Root} /\ stack = <<Root>> /\ todo = kids /\ lrc = [n \in Nodes |-> NoNode]
  BY DEF Walk, Path
<1>3. start[Root] \in Nat /\ Root \in Nodes
  BY <1>1, NodesAssumption DEF Inv, TypeOK
<1>4. SmallOverlaps /\ NoThird
  BY <1>2, <1>3 DEF SmallOverlaps, NoThird
<1>5. LaterEndEarlier /\ RestOnStack /\ NothingMissed
  BY <1>2, <1>3 DEF LaterEndEarlier, RestOnStack, NothingMissed
<1> QED  BY <1>1, <1>4, <1>5 DEF OverlapInv

(* Every step keeps the overlaps small and misses nothing.                 *)
LEMMA NextOverlaps == OverlapInv /\ [Next]_vars => OverlapInv'
<1> SUFFICES ASSUME OverlapInv, [Next]_vars PROVE OverlapInv'
  OBVIOUS
<1>0. Inv /\ Inv'
  BY NextInv DEF OverlapInv
<1>1. ASSUME NEW c \in Nodes, TakeLatest(c) PROVE OverlapInv'
  <2>1. IsNext(c) /\ Extend(c) /\ lrc[cur] = NoNode /\ cur \in Nodes
    BY <1>0, <1>1, NextChild DEF TakeLatest
  <2>2. kids[cur] \cap Path = {}
    BY <1>0, <2>1 DEF Inv, LrcEarliest
  <2> QED  BY <1>0, <2>1, <2>2, ExtendOverlaps
<1>2. ASSUME NEW c \in Nodes, TakeEarlier(c) PROVE OverlapInv'
  <2>1. IsNext(c) /\ Extend(c)
    BY <1>2 DEF TakeEarlier
  <2>2. ASSUME NEW x \in kids[cur] \cap Path
        PROVE  /\ start[c] < start[x]
               /\ (end[c] - start[x]) * Allowance < dur[cur]
               /\ x # lrc[cur] => end[c] < start[x]
    BY <1>0, <1>2, <2>2, Accepted
  <2> QED  BY <1>0, <2>1, <2>2, ExtendOverlaps
<1>3. ASSUME NEW c \in Nodes, SkipOverlapping(c) PROVE OverlapInv'
  BY <1>0, <1>3, SkipOverlaps
<1>4. CASE Return
  BY <1>0, <1>4, ReturnOverlaps
<1>5. CASE UNCHANGED vars
  <2>1. Path' = Path
    BY <1>5 DEF vars, Path
  <2> QED  BY <1>0, <1>5, <2>1
           DEF OverlapInv, vars, SmallOverlaps, NoThird, LaterEndEarlier, RestOnStack,
               NothingMissed, Covers
<1> QED
  BY <1>1, <1>2, <1>3, <1>4, <1>5 DEF Next

(* The invariant holds throughout every walk.                              *)
THEOREM OverlapInvHolds == Spec => []OverlapInv
<1>1. Init => OverlapInv
  BY LinkedIsRead, WalkOverlaps DEF Init
<1> QED
  BY <1>1, NextOverlaps, PTL DEF Spec

(* Siblings on the path, by their positions.                               *)
LEMMA SiblingsOnPath ==
  ASSUME Inv, NEW i \in 1..Len(cp), NEW j \in 1..Len(cp), Siblings(i, j)
  PROVE  /\ cp[i] \in Path /\ cp[j] \in Path
         /\ parent[cp[i]] = parent[cp[j]] /\ start[cp[j]] < start[cp[i]]
<1>1. cp[i] \in Path /\ cp[j] \in Path
  BY DEF Path
<1> QED  BY <1>1 DEF Inv, SiblingsBackwards, Siblings

(* Overlaps of any two siblings, said of their positions on the path.      *)
LEMMA BoundedInPlace == OverlapInv => OverlapBounded
<1> SUFFICES ASSUME OverlapInv, NEW i \in 1..Len(cp), NEW j \in 1..Len(cp), Siblings(i, j)
             PROVE  (end[cp[j]] - start[cp[i]]) * Allowance < dur[parent[cp[i]]]
  BY DEF OverlapBounded
<1> QED  BY SiblingsOnPath DEF OverlapInv, SmallOverlaps

(* Any two siblings on the path overlap by less than the allowance, though *)
(* each is compared with the one picked before it only.                    *)
THEOREM OverlapsBounded == Spec => []OverlapBounded
  BY OverlapInvHolds, BoundedInPlace, PTL

(* Overlaps of three siblings, said of their positions on the path.        *)
LEMMA NoThirdInPlace == OverlapInv => NoTripleOverlap
<1> SUFFICES ASSUME OverlapInv, NEW i \in 1..Len(cp), NEW j \in 1..Len(cp),
                    NEW k \in 1..Len(cp), Siblings(i, j), Siblings(j, k)
             PROVE  end[cp[k]] < start[cp[i]]
  BY DEF NoTripleOverlap
<1> QED  BY SiblingsOnPath DEF OverlapInv, NoThird

(* No instant of a span is charged to three of its children.               *)
THEOREM NoThreeOverlap == Spec => []NoTripleOverlap
  BY OverlapInvHolds, NoThirdInPlace, PTL

(* When the walk is over, every call has looked at all children.           *)
LEMMA NothingMissedAtEnd == OverlapInv => NoGapMissed
<1> SUFFICES ASSUME OverlapInv, Finished, NEW n \in Nodes, n \in Path, NEW c \in kids[n]
             PROVE  c \in Path \/ \E l \in kids[n] :
                        l \in Path /\ start[l] <= end[c] /\ end[c] <= end[l]
  BY DEF NoGapMissed
<1>1. todo[n] = {}
  BY DEF Finished, OverlapInv, RestOnStack
<1> QED  BY <1>1 DEF OverlapInv, NothingMissed, Covers

(* When the walk is over, a child of a span on the path is on the path too *)
(* or overlaps a sibling there that ends no earlier.                       *)
THEOREM NothingFitsIsMissed == Spec => []NoGapMissed
  BY OverlapInvHolds, NothingMissedAtEnd, PTL

-----------------------------------------------------------------------------
(* What is left of the recursion: each child no call has looked at will be *)
(* passed over, or called and returned from; each call in progress will    *)
(* return.                                                                 *)
Waiting == {c \in Nodes : \E n \in Nodes : c \in todo[n]}
WorkLeft == 2 * Cardinality(Waiting) + Len(stack)

(* There is something to do as long as a call is in progress: its loop has *)
(* ended, or one child comes first in the sorted order.                    *)
CanGoOn == ~Finished => todo[cur] = {} \/ \E c \in Nodes : IsNext(c)

(* What is left is a number.                                               *)
LEMMA WorkIsNumber ==
  ASSUME Inv
  PROVE  IsFiniteSet(Waiting) /\ Cardinality(Waiting) \in Nat /\ Len(stack) \in Nat
<1>1. IsFiniteSet(Waiting)
  BY FiniteAssumption, FS_Subset DEF Waiting
<1> QED
  BY <1>1, FS_CardinalityType DEF Inv, TypeOK

(* Looking at a child takes it out of every loop, since it is the child of *)
(* one span only.                                                          *)
LEMMA OneLessWaiting ==
  ASSUME Inv, NEW c \in Nodes, IsNext(c), todo' = [todo EXCEPT ![cur] = @ \ {c}]
  PROVE  /\ Cardinality(Waiting) \in Nat \ {0}
         /\ Cardinality(Waiting') = Cardinality(Waiting) - 1
<1>1. cur \in Nodes /\ c \in todo[cur] /\ todo \in [Nodes -> SUBSET Nodes]
  BY CurOnPath DEF IsNext, Inv, TypeOK
<1>2. \A n \in Nodes \ {cur} : c \notin todo[n]
  BY <1>1 DEF Inv, Untouched, GraphOK
<1>3. c \in Waiting
  BY <1>1 DEF Waiting
<1>4. Waiting' = Waiting \ {c}
  BY <1>1, <1>2 DEF Waiting
<1>5. Cardinality(Waiting) # 0
  BY <1>3, WorkIsNumber, FS_EmptySet
<1> QED
  BY <1>3, <1>4, <1>5, WorkIsNumber, FS_RemoveElement

(* The sorted order has a first child wherever there is one: ends and then *)
(* positions order any set of spans.                                       *)
LEMMA GoesOn == Inv => CanGoOn
<1> SUFFICES ASSUME Inv, ~Finished, todo[cur] # {} PROVE \E c \in Nodes : IsNext(c)
  BY DEF CanGoOn
<1> DEFINE R == {p \in Nodes \X Nodes : ComesFirst(p[1], p[2])}
           S == todo[cur]
<1>1. S \in SUBSET Nodes /\ S # {} /\ IsFiniteSet(S)
  BY CurOnPath, FiniteAssumption, FS_Subset DEF Inv, TypeOK
<1>2. \A x \in Nodes : x \in Nat /\ end[x] \in Nat
  BY NodesAssumption DEF Inv, TypeOK
<1>3. \A x, y \in S : <<x, y>> \in R <=> ComesFirst(x, y)
  BY <1>1
<1>4. /\ \A x, y \in S : x # y => ComesFirst(x, y) \/ ComesFirst(y, x)
      /\ \A x, y, z \in S : ComesFirst(x, y) /\ ComesFirst(y, z) => ComesFirst(x, z)
  BY <1>1, <1>2 DEF ComesFirst
<1>5. PICK c \in S : \A d \in S \ {c} : <<c, d>> \in R
  <2>1. /\ \A x, y \in S : x # y => <<x, y>> \in R \/ <<y, x>> \in R
        /\ \A x, y, z \in S : <<x, y>> \in R /\ <<y, z>> \in R => <<x, z>> \in R
    <3> HIDE DEF S, R
    <3> QED
      BY <1>3, <1>4
  <2> HIDE DEF S, R
  <2> QED
    BY <1>1, <2>1, FirstOfSet
<1>6. \A d \in S \ {c} : ComesFirst(c, d)
  BY <1>3, <1>5
<1> QED
  BY <1>1, <1>6 DEF IsNext

(* Every step of the recursion leaves less to do.                          *)
LEMMA LessLeft == Inv /\ Next => WorkLeft' < WorkLeft
<1> SUFFICES ASSUME Inv, Next PROVE WorkLeft' < WorkLeft
  OBVIOUS
<1>0. Cardinality(Waiting) \in Nat /\ Len(stack) \in Nat /\ stack \in Seq(Nodes)
  BY WorkIsNumber DEF Inv, TypeOK
<1>1. ASSUME NEW c \in Nodes, TakeLatest(c) \/ TakeEarlier(c) PROVE WorkLeft' < WorkLeft
  <2>1. /\ IsNext(c) /\ stack' = Append(stack, c)
        /\ todo' = [todo EXCEPT ![cur] = @ \ {c}]
    BY <1>1 DEF TakeLatest, TakeEarlier, Extend
  <2>2. Len(stack') = Len(stack) + 1
    BY <1>0, <2>1
  <2>3. /\ Cardinality(Waiting) \in Nat \ {0}
        /\ Cardinality(Waiting') = Cardinality(Waiting) - 1
    BY <2>1, OneLessWaiting
  <2> QED
    BY <1>0, <2>2, <2>3 DEF WorkLeft
<1>2. ASSUME NEW c \in Nodes, SkipOverlapping(c) PROVE WorkLeft' < WorkLeft
  <2>1. IsNext(c) /\ stack' = stack /\ todo' = [todo EXCEPT ![cur] = @ \ {c}]
    BY <1>2 DEF SkipOverlapping
  <2>2. /\ Cardinality(Waiting) \in Nat \ {0}
        /\ Cardinality(Waiting') = Cardinality(Waiting) - 1
    BY <2>1, OneLessWaiting
  <2> QED
    BY <1>0, <2>1, <2>2 DEF WorkLeft
<1>3. CASE Return
  <2> DEFINE m == Len(stack) - 1
  <2>1. stack # <<>> /\ stack' = SubSeq(stack, 1, m) /\ todo' = todo
    BY <1>3 DEF Return, Finished
  <2>2. m \in Nat /\ Len(stack) = m + 1
    BY <1>0, <2>1
  <2>3. Len(stack') = m
    <3> HIDE DEF m
    <3> QED
      BY <1>0, <2>1, <2>2, Front
  <2>4. Waiting' = Waiting
    BY <2>1 DEF Waiting
  <2> QED
    BY <1>0, <2>2, <2>3, <2>4 DEF WorkLeft
<1> QED
  BY <1>1, <1>2, <1>3 DEF Next

(* Every step of the recursion leaves less to do, so that no search goes   *)
(* on for ever; and as long as a call is in progress there is a step to    *)
(* take, so that none stops early.                                         *)
THEOREM SearchRunsOut ==
  Spec => [](WorkLeft \in Nat /\ CanGoOn) /\ [][WorkLeft' < WorkLeft]_vars
<1>1. Inv => WorkLeft \in Nat
  BY WorkIsNumber DEF WorkLeft
<1>2. Inv /\ [Next]_vars => [WorkLeft' < WorkLeft]_vars
  BY LessLeft
<1> QED
  BY InvHolds, <1>1, <1>2, GoesOn, PTL DEF Spec

-----------------------------------------------------------------------------
(* A dictionary of times.                                                  *)
DictOK(d) == IsFiniteSet(DOMAIN d) /\ \A k \in DOMAIN d : d[k] \in Int

(* The sum of the properties is that of the community modules.             *)
LEMMA SumIs ==
  ASSUME NEW f, NEW S
  PROVE  Sum(f, S) = SumFunctionOnSet(f, S)
BY DEF Sum, MapThenSumSet, SumFunctionOnSet, FoldFunctionOnSet

Added(d, key, v, e) ==
    /\ DictOK(e) /\ DOMAIN e = DOMAIN d \cup {key}
    /\ e[key] = (IF key \in DOMAIN d THEN d[key] ELSE 0) + v
    /\ \A k \in DOMAIN d \ {key} : e[k] = d[k]

(* Adding to an entry that may not be there yet.                           *)
LEMMA Accumulated ==
  ASSUME NEW d, DictOK(d), NEW key, NEW v \in Int
  PROVE  Added(d, key, v, accumulateInDict(d, key, v))
<1> DEFINE e == accumulateInDict(d, key, v)
<1>1. DOMAIN e = DOMAIN d \cup {key} /\ \A k \in DOMAIN d \ {key} : e[k] = d[k]
  BY DEF accumulateInDict, Put
<1>2. e[key] = IF key \in DOMAIN d THEN d[key] + v ELSE v
  BY DEF accumulateInDict, Put
<1> HIDE DEF e
<1>3. e[key] = (IF key \in DOMAIN d THEN d[key] ELSE 0) + v /\ e[key] \in Int
  BY <1>2 DEF DictOK
<1>4. IsFiniteSet(DOMAIN e)
  BY <1>1, FS_AddElement DEF DictOK
<1>5. \A k \in DOMAIN e : e[k] \in Int
  BY <1>1, <1>3 DEF DictOK
<1> QED
  BY <1>1, <1>3, <1>4, <1>5 DEF DictOK, Added, e

(* It adds the value to every sum in which the key takes part.             *)
LEMMA AccumulatedSum ==
  ASSUME NEW d, DictOK(d), NEW key, NEW v \in Int, NEW e, Added(d, key, v, e), NEW T
  PROVE  SumFunctionOnSet(e, DOMAIN e \cap T) =
             SumFunctionOnSet(d, DOMAIN d \cap T) + (IF key \in T THEN v ELSE 0)
<1> DEFINE D == DOMAIN d \cap T
           R == D \ {key}
<1>1. /\ DictOK(e) /\ DOMAIN e = DOMAIN d \cup {key}
      /\ e[key] = (IF key \in DOMAIN d THEN d[key] ELSE 0) + v
      /\ \A k \in DOMAIN d \ {key} : e[k] = d[k]
  BY DEF Added
<1>2. IsFiniteSet(D) /\ IsFiniteSet(R) /\ \A k \in D : d[k] \in Int
  BY FS_Subset DEF DictOK
<1>3. SumFunctionOnSet(e, R) = SumFunctionOnSet(d, R)
  <2>1. \A k \in R : e[k] = d[k]
    BY <1>1
  <2> HIDE DEF R
  <2> QED
    BY <1>2, <2>1, SumSame
<1>4. SumFunctionOnSet(d, R) \in Int
  <2>1. \A k \in R : d[k] \in Int
    BY <1>2
  <2> HIDE DEF R
  <2> QED
    BY <1>2, <2>1, SumInt
<1> DEFINE t == DOMAIN e \cap T
<1>5. CASE key \notin T
  <2>1. t = R /\ D = R
    BY <1>1, <1>5
  <2> HIDE DEF t, D, R
  <2>2. SumFunctionOnSet(e, t) = SumFunctionOnSet(d, D) + 0
    BY <2>1, <1>3, <1>4
  <2> QED
    BY <2>2, <1>5 DEF D, t
<1>6. CASE key \in T
  <2>1. t = R \cup {key} /\ key \notin R
    BY <1>1, <1>6
  <2>2. SumFunctionOnSet(e, t) = SumFunctionOnSet(e, R) + e[key]
    <3>1. \A k \in R \cup {key} : e[k] \in Int
      BY <1>1 DEF DictOK
    <3> HIDE DEF R, t
    <3> QED
      BY <3>1, <2>1, <1>2, SumAdd
  <2>3. SumFunctionOnSet(e, t) = SumFunctionOnSet(d, D) + v
    <3>1. CASE key \in DOMAIN d
      <4>1. SumFunctionOnSet(d, D) = d[key] + SumFunctionOnSet(d, R)
        <5>1. key \in D
          BY <3>1, <1>6
        <5>2. R = D \ {key}
          OBVIOUS
        <5> HIDE DEF D, R
        <5> QED
          BY <5>1, <5>2, <1>2, SumRemove
      <4>2. d[key] \in Int /\ e[key] = d[key] + v
        BY <3>1, <1>1 DEF DictOK
      <4> HIDE DEF D, R, t
      <4> QED
        BY <4>1, <4>2, <2>2, <1>3, <1>4
    <3>2. CASE key \notin DOMAIN d
      <4>1. D = R /\ e[key] = v
        BY <3>2, <1>1
      <4> HIDE DEF D, R, t
      <4> QED
        BY <4>1, <2>2, <1>3, <1>4
    <3> QED
      BY <3>1, <3>2
  <2> HIDE DEF t, D
  <2> QED
    BY <2>3, <1>6 DEF D, t
<1> QED
  BY <1>5, <1>6

-----------------------------------------------------------------------------
(* Every span of the graph has a call path: whatever set of spans one      *)
(* looks at, one of them has its parent outside.                           *)
Hanging ==
    /\ parent \in [Nodes -> Nodes \cup {NoNode}] /\ parent[Root] = NoNode
    /\ \A B \in SUBSET Nodes : B # {} => \E m \in B : parent[m] \notin B
    /\ op \in [Nodes -> Ops]

Climbs(f, D) ==
    f = [m \in D |-> IF parent[m] = NoNode THEN <<op[m]>> ELSE Append(f[parent[m]], op[m])]

(* Climbing ends, so that there is a function of the call paths.           *)
LEMMA ClimbExists == Hanging => \E f : Climbs(f, Nodes)
<1> SUFFICES ASSUME Hanging PROVE \E f : Climbs(f, Nodes)
  OBVIOUS
<1> DEFINE Known(D) == /\ \A m \in D : parent[m] \in D \cup {NoNode}
                       /\ \E f : Climbs(f, D)
           F == {U \in SUBSET Nodes : Known(Nodes \ U)}
<1>1. Nodes \in F
  <2>1. Nodes \ Nodes = {}
    OBVIOUS
  <2> DEFINE f == [m \in {} |-> IF parent[m] = NoNode THEN <<op[m]>> ELSE <<op[m]>>]
  <2>2. Climbs(f, {})
    BY DEF Climbs
  <2>3. Known({})
    BY <2>2
  <2> QED
    BY <2>1, <2>3
<1>2. PICK T \in F : \A U \in F : U \subseteq T => U = T
  <2>1. F \subseteq SUBSET Nodes /\ F # {}
    BY <1>1
  <2> HIDE DEF F
  <2> QED
    BY <2>1, FiniteAssumption, SmallestSubset
<1>3. CASE T = {}
  <2>1. Nodes \ T = Nodes
    BY <1>3
  <2> QED
    BY <2>1, <1>2
<1>4. CASE T # {}
  <2> DEFINE D == Nodes \ T
  <2>1. PICK m \in T : parent[m] \notin T
    BY <1>4, <1>2 DEF Hanging
  <2>2. parent[m] \in D \cup {NoNode} /\ m \in Nodes /\ m \notin D
    BY <2>1, <1>2 DEF Hanging
  <2>3. (\A x \in D : parent[x] \in D \cup {NoNode}) /\ \E f : Climbs(f, D)
    BY <1>2
  <2>4. PICK f : Climbs(f, D)
    BY <2>3
  <2> DEFINE new == IF parent[m] = NoNode THEN <<op[m]>> ELSE Append(f[parent[m]], op[m])
             E == D \cup {m}
             g == [x \in E |-> IF x = m THEN new ELSE f[x]]
  <2>5. NoNode \notin Nodes
    BY NodesAssumption
  <2> HIDE DEF D
  <2>6. ASSUME NEW x \in E
        PROVE  g[x] = IF parent[x] = NoNode THEN <<op[x]>> ELSE Append(g[parent[x]], op[x])
    <3>1. CASE x = m
      <4>1. parent[m] # NoNode => parent[m] \in D /\ parent[m] # m
        BY <2>2
      <4>2. parent[m] # NoNode => g[parent[m]] = f[parent[m]]
        BY <4>1
      <4>3. g[x] = new
        BY <3>1
      <4> HIDE DEF g
      <4> QED
        BY <4>2, <4>3, <3>1
    <3>2. CASE x # m
      <4>1. x \in D
        BY <3>2
      <4>2. g[x] = f[x]
        BY <3>2
      <4>3. parent[x] # NoNode => g[parent[x]] = f[parent[x]]
        BY <4>1, <2>2, <2>3
      <4>4. f[x] = IF parent[x] = NoNode THEN <<op[x]>> ELSE Append(f[parent[x]], op[x])
        BY <4>1, <2>4 DEF Climbs
      <4> HIDE DEF g
      <4> QED
        BY <4>2, <4>3, <4>4
    <3> QED
      BY <3>1, <3>2
  <2>7. Climbs(g, E)
    <3>1. g = [x \in E |-> g[x]]
      OBVIOUS
    <3> HIDE DEF g, E
    <3> QED
      BY <3>1, <2>6 DEF Climbs
  <2>8. \A x \in E : parent[x] \in E \cup {NoNode}
    BY <2>2, <2>3
  <2>9. E = Nodes \ (T \ {m})
    BY <2>2, <2>1, <1>2 DEF D
  <2>10. T \ {m} \in F
    BY <2>7, <2>8, <2>9
  <2> QED
    BY <2>10, <2>1, <1>2
<1> QED
  BY <1>3, <1>4

(* The call path of a span is that of its parent and its own operation.    *)
LEMMA CallPathIs ==
  ASSUME Hanging, NEW n \in Nodes
  PROVE  /\ getCallPath(n) = IF parent[n] = NoNode THEN <<op[n]>>
                             ELSE Append(getCallPath(parent[n]), op[n])
         /\ LastOf(getCallPath(n)) = op[n]
<1> DEFINE path == CHOOSE f : Climbs(f, Nodes)
<1>1. \A m : getCallPath(m) = path[m]
  BY DEF getCallPath, Climbs
<1>2. Climbs(path, Nodes)
  BY ClimbExists
<1> HIDE DEF path
<1>3. \A m \in Nodes : path[m] = IF parent[m] = NoNode THEN <<op[m]>>
                                 ELSE Append(path[parent[m]], op[m])
  BY <1>2 DEF Climbs
<1>4. \A m \in Nodes : path[m] \in Seq(Ops)
  <2> DEFINE B == {m \in Nodes : path[m] \notin Seq(Ops)}
  <2> SUFFICES ASSUME B # {} PROVE FALSE
    OBVIOUS
  <2>1. PICK m \in B : parent[m] \notin B
    BY DEF Hanging
  <2>2. m \in Nodes /\ op[m] \in Ops /\ (parent[m] # NoNode => path[parent[m]] \in Seq(Ops))
    BY <2>1 DEF Hanging
  <2>3. path[m] \in Seq(Ops)
    <3>1. CASE parent[m] = NoNode
      <4>1. path[m] = <<op[m]>>
        BY <3>1, <2>2, <1>3
      <4> QED
        BY <4>1, <2>2
    <3>2. CASE parent[m] # NoNode
      <4>1. path[m] = Append(path[parent[m]], op[m])
        BY <3>2, <2>2, <1>3
      <4> QED
        BY <4>1, <3>2, <2>2
    <3> QED
      BY <3>1, <3>2
  <2> QED
    BY <2>1, <2>3
<1>5. LastOf(path[n]) = op[n]
  <2>1. CASE parent[n] = NoNode
    <3>1. path[n] = <<op[n]>>
      BY <2>1, <1>3
    <3> QED
      BY <3>1 DEF LastOf
  <2>2. CASE parent[n] # NoNode
    <3>1. path[parent[n]] \in Seq(Ops) /\ op[n] \in Ops
      BY <2>2, <1>4 DEF Hanging
    <3>2. path[n] = Append(path[parent[n]], op[n])
      BY <2>2, <1>3
    <3> QED
      BY <3>1, <3>2 DEF LastOf
  <2> QED
    BY <2>1, <2>2
<1> QED
  BY <1>1, <1>3, <1>5

-----------------------------------------------------------------------------
(* The links of the graph while spans are cut and on the path. Deleting    *)
(* children clears the parent of what is in removeList only: it may be     *)
(* that of the call in progress, or none any more.                         *)
LinksOK ==
    /\ Hanging
    /\ start \in [Nodes -> Int] /\ end \in [Nodes -> Int] /\ dur \in [Nodes -> Int]
    /\ kids \in [Nodes -> SUBSET Nodes] /\ todo \in [Nodes -> SUBSET Nodes]
    /\ removeList \in [Nodes -> SUBSET Nodes]
    /\ stack \in Seq(Nodes)
    /\ \A n \in Nodes : \A c \in kids[n] : parent[c] = n
    /\ phase = "cut" =>
         \A n \in Nodes : \A c \in todo[n] \cup removeList[n] : parent[c] \in {n, NoNode}

(* Below the root of a tree every span has a call path, and the links say  *)
(* so from both ends.                                                      *)
LEMMA InitLinks == ProcessInit => LinksOK
<1> SUFFICES ASSUME ProcessInit PROVE LinksOK
  OBVIOUS
<1>1. /\ Tree /\ start \in [Nodes -> Starts] /\ dur \in [Nodes -> Durations]
      /\ \A n \in Nodes : parent[n] = NoNode <=> n = Root
      /\ end = [n \in Nodes |-> start[n] + dur[n]]
      /\ kids = [n \in Nodes |-> {c \in Nodes : parent[c] = n}]
      /\ stack = <<Root>> /\ todo = kids /\ removeList = [n \in Nodes |-> {}]
      /\ op \in [Nodes -> Ops]
  BY DEF ProcessInit, SW!Init
<1>2. Hanging
  <2>1. parent \in [Nodes -> Nodes \cup {NoNode}] /\ parent[Root] = NoNode
    BY <1>1, NodesAssumption DEF Tree
  <2>2. ASSUME NEW B \in SUBSET Nodes, B # {}, \A m \in B : parent[m] \in B PROVE FALSE
    <3> DEFINE C == Nodes \ B
    <3>1. Root \in C
      BY <2>1, <2>2, NodesAssumption
    <3>2. \A n \in Nodes : parent[n] \in C => n \in C
      BY <2>2
    <3>3. C = Nodes
      BY <3>1, <3>2, <1>1 DEF Tree
    <3> QED
      BY <3>3, <2>2
  <2> QED
    BY <2>1, <2>2, <1>1 DEF Hanging
<1>3. start \in [Nodes -> Int] /\ end \in [Nodes -> Int] /\ dur \in [Nodes -> Int]
  BY <1>1, TimesAssumption
<1>4. stack \in Seq(Nodes)
  BY <1>1, NodesAssumption
<1>5. /\ kids \in [Nodes -> SUBSET Nodes] /\ todo \in [Nodes -> SUBSET Nodes]
      /\ removeList \in [Nodes -> SUBSET Nodes]
      /\ \A n \in Nodes : \A c \in kids[n] : parent[c] = n
      /\ \A n \in Nodes : \A c \in todo[n] \cup removeList[n] : parent[c] \in {n, NoNode}
  BY <1>1
<1> QED
  BY <1>2, <1>3, <1>4, <1>5 DEF LinksOK

(* Cutting a span moves its window, drops it from a loop, or clears links  *)
(* to what was marked.                                                     *)
LEMMA CutLinks ==
  ASSUME LinksOK, phase = "cut", SW!Next, op' = op, phase' = "cut"
  PROVE  LinksOK'
<1> DEFINE n == SW!cur
<1>0. stack # <<>> /\ n \in Nodes /\ Len(stack) \in Nat /\ Len(stack) > 0
  <2>1. stack # <<>>
    BY DEF SW!Next, SW!KeepChild, SW!TrimFront, SW!TrimBack, SW!MarkDropped, SW!Return,
           SW!IsNext, SW!Finished
  <2>2. stack \in Seq(Nodes)
    BY DEF LinksOK
  <2> QED
    BY <2>1, <2>2 DEF SW!cur
<1>1. ASSUME NEW c \in Nodes, SW!KeepChild(c) \/ SW!TrimFront(c) \/ SW!TrimBack(c)
      PROVE  LinksOK'
  <2>1. /\ todo' = [todo EXCEPT ![n] = @ \ {c}] /\ stack' = Append(stack, c)
        /\ UNCHANGED <<parent, kids, removeList>>
    BY <1>1 DEF SW!KeepChild, SW!TrimFront, SW!TrimBack, SW!Descend
  <2>2. (start \in [Nodes -> Int] /\ end \in [Nodes -> Int] /\ dur \in [Nodes -> Int])'
    <3>1. CASE SW!KeepChild(c)
      BY <3>1 DEF LinksOK, SW!KeepChild
    <3>2. CASE SW!TrimFront(c)
      <4>1. /\ start' = [start EXCEPT ![c] = start[n]] /\ end' = end
            /\ dur' = [dur EXCEPT ![c] = @ - (start[n] - start[c])]
        BY <3>2 DEF SW!TrimFront
      <4> HIDE DEF n
      <4> QED
        BY <4>1, <1>0 DEF LinksOK
    <3>3. CASE SW!TrimBack(c)
      <4>1. /\ start' = start /\ end' = [end EXCEPT ![c] = @ - (end[c] - end[n])]
            /\ dur' = [dur EXCEPT ![c] = @ - (end[c] - end[n])]
        BY <3>3 DEF SW!TrimBack
      <4> HIDE DEF n
      <4> QED
        BY <4>1, <1>0 DEF LinksOK
    <3> QED
      BY <3>1, <3>2, <3>3, <1>1
  <2> HIDE DEF n
  <2>3. Hanging'
    BY <2>1 DEF LinksOK, Hanging
  <2>4. todo' \in [Nodes -> SUBSET Nodes] /\ \A m \in Nodes : todo'[m] \subseteq todo[m]
    BY <2>1, <1>0 DEF LinksOK
  <2>5. stack' \in Seq(Nodes)
    BY <2>1 DEF LinksOK
  <2> QED
    BY <2>1, <2>2, <2>3, <2>4, <2>5 DEF LinksOK
<1>2. ASSUME NEW c \in Nodes, SW!MarkDropped(c) PROVE LinksOK'
  <2>1. /\ todo' = [todo EXCEPT ![n] = @ \ {c}] /\ c \in todo[n]
        /\ removeList' = [removeList EXCEPT ![n] = @ \cup {c}]
        /\ UNCHANGED <<parent, kids, stack, start, end, dur>>
    BY <1>2 DEF SW!MarkDropped, SW!IsNext
  <2> HIDE DEF n
  <2>2. Hanging'
    BY <2>1 DEF LinksOK, Hanging
  <2>3. todo' \in [Nodes -> SUBSET Nodes] /\ removeList' \in [Nodes -> SUBSET Nodes]
    BY <2>1, <1>0 DEF LinksOK
  <2>4. \A m \in Nodes : todo'[m] \cup removeList'[m] \subseteq todo[m] \cup removeList[m]
    BY <2>1, <1>0 DEF LinksOK
  <2> QED
    BY <2>1, <2>2, <2>3, <2>4 DEF LinksOK
<1>3. CASE SW!Return
  <2>1. /\ parent' = [m \in Nodes |-> IF m \in removeList[n] THEN NoNode ELSE parent[m]]
        /\ kids' = [kids EXCEPT ![n] = @ \ removeList[n]]
        /\ stack' = SubSeq(stack, 1, Len(stack) - 1)
        /\ UNCHANGED <<todo, removeList, start, end, dur>>
    BY <1>3 DEF SW!Return
  <2> HIDE DEF n
  <2>2. parent' \in [Nodes -> Nodes \cup {NoNode}] /\ \A m \in Nodes : parent'[m] \in {parent[m], NoNode}
    BY <2>1 DEF LinksOK, Hanging
  <2>3. Hanging'
    <3>1. ASSUME NEW B \in SUBSET Nodes, B # {} PROVE \E m \in B : parent'[m] \notin B
      <4>1. PICK m \in B : parent[m] \notin B
        BY <3>1 DEF LinksOK, Hanging
      <4> QED
        BY <4>1, <2>2, NodesAssumption
    <3>2. parent'[Root] = NoNode
      BY <2>2, NodesAssumption DEF LinksOK, Hanging
    <3> QED
      BY <3>1, <3>2, <2>2 DEF LinksOK, Hanging
  <2>4. kids' \in [Nodes -> SUBSET Nodes]
    BY <2>1, <1>0 DEF LinksOK
  <2>5. ASSUME NEW m \in Nodes, NEW c \in kids'[m] PROVE parent'[c] = m
    <3>1. c \in kids[m] /\ parent[c] = m /\ c \in Nodes
      BY <2>1, <2>4, <2>5, <1>0 DEF LinksOK
    <3>2. c \notin removeList[n]
      <4>1. CASE m = n
        BY <4>1, <2>1, <2>5, <1>0 DEF LinksOK
      <4>2. CASE m # n
        <5>1. \A d \in removeList[n] : parent[d] \in {n, NoNode}
          BY <1>0 DEF LinksOK
        <5>2. parent[c] \notin {n, NoNode}
          BY <4>2, <3>1, NodesAssumption
        <5> QED
          BY <5>1, <5>2
      <4> QED
        BY <4>1, <4>2
    <3> QED
      BY <3>1, <3>2, <2>1
  <2>6. stack' \in Seq(Nodes)
    BY <2>1, <1>0 DEF LinksOK
  <2>7. \A m \in Nodes : \A c \in todo'[m] \cup removeList'[m] : parent'[c] \in {m, NoNode}
    <3>1. \A m \in Nodes : todo[m] \cup removeList[m] \subseteq Nodes
      BY DEF LinksOK
    <3> QED
      BY <3>1, <2>1, <2>2 DEF LinksOK
  <2> QED
    BY <2>1, <2>3, <2>4, <2>5, <2>6, <2>7 DEF LinksOK
<1> QED
  BY <1>1, <1>2, <1>3 DEF SW!Next

(* The path: it begins at the root, has no span twice, and with a span its *)
(* parent; what the loops have not looked at is not on it.                 *)
PathOK ==
    phase # "cut" =>
        /\ cp \in Seq(Nodes) /\ Len(cp) >= 1 /\ cp[1] = Root
        /\ \A k \in 2..Len(cp) : cp[k] \in kids[parent[cp[k]]] /\ parent[cp[k]] \in Path
        /\ \A j, k \in 1..Len(cp) : cp[j] = cp[k] => j = k
        /\ phase = "path" =>
             /\ \A j \in 1..Len(stack) : stack[j] \in Path
             /\ \A n \in Nodes : todo[n] \subseteq kids[n] /\ todo[n] \cap Path = {}

(* The search begins with the root alone on the path.                      *)
LEMMA StartPathOK == LinksOK /\ StartPath => PathOK'
<1> SUFFICES ASSUME LinksOK, StartPath PROVE PathOK'
  OBVIOUS
<1>1. cp' = <<Root>> /\ stack' = <<Root>> /\ todo' = kids /\ kids' = kids /\ parent' = parent
  BY DEF StartPath, graph
<1>2. cp' \in Seq(Nodes) /\ Len(cp') = 1 /\ cp'[1] = Root /\ Len(stack') = 1 /\ stack'[1] = Root
  BY <1>1, NodesAssumption
<1>3. Path' = {Root}
  BY <1>2 DEF Path
<1>4. \A n \in Nodes : Root \notin kids[n]
  BY NodesAssumption DEF LinksOK, Hanging
<1> QED
  BY <1>1, <1>2, <1>3, <1>4 DEF PathOK

(* A step of the search appends a child of a span on the path that was not *)
(* looked at before, or changes nothing on it.                             *)
LEMMA FindPathOK ==
  ASSUME LinksOK, PathOK, phase = "path", phase' = "path", Next, UNCHANGED <<op, removeList>>
  PROVE  LinksOK' /\ PathOK'
<1>0. /\ stack \in Seq(Nodes) /\ Len(stack) \in Nat /\ cp \in Seq(Nodes) /\ Len(cp) \in Nat
      /\ Len(cp) >= 1 /\ todo \in [Nodes -> SUBSET Nodes]
  BY DEF LinksOK, PathOK
<1>1. ASSUME NEW c \in Nodes, IsNext(c), Extend(c) PROVE LinksOK' /\ PathOK'
  <2>1. stack # <<>> /\ c \in todo[cur]
    BY <1>1 DEF IsNext, Finished
  <2> DEFINE n == cur
  <2>2. n \in Nodes /\ n \in Path
    <3>1. Len(stack) \in 1..Len(stack)
      BY <1>0, <2>1
    <3> QED
      BY <3>1, <1>0 DEF cur, PathOK
  <2>3. c \in kids[n] /\ parent[c] = n /\ c \notin Path
    BY <2>1, <2>2 DEF PathOK, LinksOK
  <2>4. /\ todo' = [todo EXCEPT ![n] = @ \ {c}] /\ stack' = Append(stack, c)
        /\ cp' = Append(cp, c) /\ UNCHANGED <<start, end, dur, parent, kids>>
    BY <1>1 DEF Extend, graph
  <2> HIDE DEF n
  <2>5. /\ cp' \in Seq(Nodes) /\ Len(cp') = Len(cp) + 1 /\ cp'[Len(cp) + 1] = c
        /\ \A k \in 1..Len(cp) : cp'[k] = cp[k]
        /\ stack' \in Seq(Nodes) /\ Len(stack') = Len(stack) + 1 /\ stack'[Len(stack) + 1] = c
        /\ \A k \in 1..Len(stack) : stack'[k] = stack[k]
    BY <2>4, <1>0
  <2>6. Path' = Path \cup {c}
    BY <1>0, <1>1, ExtendPath
  <2>7. LinksOK'
    <3>1. Hanging'
      BY <2>4 DEF LinksOK, Hanging
    <3>2. todo' \in [Nodes -> SUBSET Nodes]
      BY <2>4, <2>2, <1>0
    <3> QED
      BY <3>1, <3>2, <2>4, <2>5 DEF LinksOK
  <2>8. \A k \in 2..Len(cp') : cp'[k] \in kids[parent[cp'[k]]] /\ parent[cp'[k]] \in Path'
    <3> SUFFICES ASSUME NEW k \in 2..Len(cp')
                 PROVE  cp'[k] \in kids[parent[cp'[k]]] /\ parent[cp'[k]] \in Path'
      OBVIOUS
    <3>1. CASE k = Len(cp) + 1
      BY <3>1, <2>2, <2>3, <2>5, <2>6
    <3>2. CASE k # Len(cp) + 1
      <4>1. k \in 2..Len(cp) /\ cp'[k] = cp[k]
        BY <3>2, <2>5, <1>0
      <4> QED
        BY <4>1, <2>6 DEF PathOK
    <3> QED
      BY <3>1, <3>2
  <2>9. \A j, k \in 1..Len(cp') : cp'[j] = cp'[k] => j = k
    <3>1. \A k \in 1..Len(cp) : cp[k] # c
      BY <2>3 DEF Path
    <3>2. \A k \in 1..Len(cp') : k = Len(cp) + 1 \/ k \in 1..Len(cp)
      BY <2>5, <1>0
    <3>3. \A j, k \in 1..Len(cp) : cp[j] = cp[k] => j = k
      BY DEF PathOK
    <3> QED
      BY <3>1, <3>2, <3>3, <2>5
  <2>10. \A j \in 1..Len(stack') : stack'[j] \in Path'
    <3>1. \A j \in 1..Len(stack') : j = Len(stack) + 1 \/ j \in 1..Len(stack)
      BY <2>5, <1>0
    <3> QED
      BY <3>1, <2>5, <2>6 DEF PathOK
  <2>11. \A m \in Nodes : todo'[m] \subseteq kids[m] /\ todo'[m] \cap Path' = {}
    <3> SUFFICES ASSUME NEW m \in Nodes
                 PROVE  todo'[m] \subseteq kids[m] /\ todo'[m] \cap Path' = {}
      OBVIOUS
    <3>1. todo[m] \subseteq kids[m] /\ todo[m] \cap Path = {}
      BY DEF PathOK
    <3>2. CASE m = n
      BY <3>1, <3>2, <2>4, <2>6, <1>0
    <3>3. CASE m # n
      <4>1. c \notin kids[m]
        BY <3>3, <2>3 DEF LinksOK
      <4> QED
        BY <4>1, <3>1, <3>3, <2>4, <2>6, <1>0
    <3> QED
      BY <3>2, <3>3
  <2>12. Len(cp') >= 1 /\ cp'[1] = Root
    <3>1. 1 \in 1..Len(cp)
      BY <1>0
    <3> QED
      BY <3>1, <2>5, <1>0 DEF PathOK
  <2> QED
    BY <2>4, <2>5, <2>7, <2>8, <2>9, <2>10, <2>11, <2>12 DEF PathOK
<1>2. ASSUME NEW c \in Nodes, SkipOverlapping(c) PROVE LinksOK' /\ PathOK'
  <2>1. /\ todo' = [todo EXCEPT ![cur] = @ \ {c}]
        /\ UNCHANGED <<start, end, dur, parent, kids, stack, cp>>
    BY <1>2 DEF SkipOverlapping
  <2>2. todo' \in [Nodes -> SUBSET Nodes] /\ \A m \in Nodes : todo'[m] \subseteq todo[m]
    BY <2>1, <1>0
  <2>3. Hanging' /\ Path' = Path
    <3>1. Hanging'
      BY <2>1 DEF LinksOK, Hanging
    <3>2. Path' = Path
      BY <2>1 DEF Path
    <3> QED
      BY <3>1, <3>2
  <2>4. LinksOK'
    BY <2>1, <2>2, <2>3 DEF LinksOK
  <2> QED
    BY <2>1, <2>2, <2>3, <2>4 DEF PathOK
<1>3. CASE Return
  <2>1. /\ stack # <<>> /\ stack' = SubSeq(stack, 1, Len(stack) - 1)
        /\ UNCHANGED <<start, end, dur, parent, kids, todo, cp>>
    BY <1>3 DEF Return, Finished
  <2>2. /\ stack' \in Seq(Nodes) /\ Len(stack') = Len(stack) - 1
        /\ \A j \in 1..Len(stack') : stack'[j] = stack[j] /\ j \in 1..Len(stack)
    <3> DEFINE m == Len(stack) - 1
               w == SubSeq(stack, 1, m)
    <3>1. Len(stack) > 0
      BY <2>1, <1>0
    <3>2. m \in Nat /\ m < Len(stack) /\ m = Len(stack) - 1
      BY <3>1, <1>0
    <3>3. stack' = w
      BY <2>1
    <3> HIDE DEF m
    <3>4. w \in Seq(Nodes) /\ Len(w) = m /\ \A j \in 1..m : w[j] = stack[j]
      BY <3>2, <1>0
    <3>5. \A j \in 1..m : j \in 1..Len(stack)
      BY <3>2, <1>0
    <3> QED
      BY <3>2, <3>3, <3>4, <3>5
  <2>3. Hanging' /\ Path' = Path
    <3>1. Hanging'
      BY <2>1 DEF LinksOK, Hanging
    <3>2. Path' = Path
      BY <2>1 DEF Path
    <3> QED
      BY <3>1, <3>2
  <2>4. LinksOK'
    BY <2>1, <2>2, <2>3 DEF LinksOK
  <2> QED
    BY <2>1, <2>2, <2>3, <2>4 DEF PathOK
<1> QED
  BY <1>1, <1>2, <1>3 DEF Next, TakeLatest, TakeEarlier

-----------------------------------------------------------------------------
Spent(d, T) == SumFunctionOnSet(d, DOMAIN d \cap T)

Charged(d, key, pkey, n, e) ==
    /\ DictOK(e)
    /\ DOMAIN e = DOMAIN d \cup {key} \cup (IF n = Root THEN {} ELSE {pkey})

(* Adding a span to an exclusive profile adds its duration wherever its    *)
(* key takes part, and takes it from wherever its parent's key does.       *)
LEMMA ExclusiveStep ==
  ASSUME NEW d, DictOK(d), NEW key, NEW pkey, NEW n \in Nodes, dur[n] \in Int,
         NEW e, e = Exclusive(d, key, pkey, n), NEW T
  PROVE  /\ Charged(d, key, pkey, n, e)
         /\ Spent(e, T) = Spent(d, T) + (IF key \in T THEN dur[n] ELSE 0)
                            - (IF n # Root /\ pkey \in T THEN dur[n] ELSE 0)
<1> DEFINE v == dur[n]
           m == accumulateInDict(d, key, v)
           x == accumulateInDict(m, pkey, -v)
<1>1. v \in Int /\ -v \in Int
  OBVIOUS
<1>2. Added(d, key, v, m)
  <2> HIDE DEF v
  <2> QED
    BY <1>1, Accumulated
<1>3. Spent(m, T) = Spent(d, T) + (IF key \in T THEN v ELSE 0)
  <2> HIDE DEF m, v
  <2> QED
    BY <1>1, <1>2, AccumulatedSum DEF Spent
<1>4. DictOK(m) /\ DOMAIN m = DOMAIN d \cup {key}
  BY <1>2 DEF Added
<1>5. Spent(d, T) \in Int /\ Spent(m, T) \in Int
  <2>1. ASSUME NEW f, DictOK(f) PROVE Spent(f, T) \in Int
    <3>1. IsFiniteSet(DOMAIN f \cap T) /\ \A k \in DOMAIN f \cap T : f[k] \in Int
      BY <2>1, FS_Subset DEF DictOK
    <3> QED
      BY <3>1, SumInt DEF Spent
  <2> HIDE DEF m
  <2> QED
    BY <2>1, <1>4
<1>6. CASE n = Root
  <2>1. e = m
    BY <1>6 DEF Exclusive
  <2> HIDE DEF m
  <2> QED
    BY <2>1, <1>3, <1>4, <1>5, <1>6 DEF Charged
<1>7. CASE n # Root
  <2>1. e = x
    BY <1>7 DEF Exclusive
  <2>2. Added(m, pkey, -v, x)
    <3> HIDE DEF m, v
    <3> QED
      BY <1>1, <1>4, Accumulated
  <2>3. Spent(x, T) = Spent(m, T) + (IF pkey \in T THEN -v ELSE 0)
    <3> HIDE DEF m, v, x
    <3> QED
      BY <1>1, <1>4, <2>2, AccumulatedSum DEF Spent
  <2>4. DictOK(x) /\ DOMAIN x = DOMAIN d \cup {key} \cup {pkey}
    BY <2>2, <1>4 DEF Added
  <2>5. Charged(d, key, pkey, n, e)
    BY <2>1, <2>4, <1>7 DEF Charged
  <2> HIDE DEF m, x
  <2>6. Spent(e, T) = Spent(d, T) + (IF key \in T THEN dur[n] ELSE 0)
                            - (IF n # Root /\ pkey \in T THEN dur[n] ELSE 0)
    BY <2>1, <2>3, <1>1, <1>3, <1>5, <1>7
  <2> QED
    BY <2>5, <2>6
<1> QED
  BY <1>6, <1>7

(* The sum over one key is its entry.                                      *)
LEMMA SpentOne ==
  ASSUME NEW d, DictOK(d), NEW p
  PROVE  Spent(d, {p}) = IF p \in DOMAIN d THEN d[p] ELSE 0
<1>1. CASE p \notin DOMAIN d
  <2>1. DOMAIN d \cap {p} = {}
    BY <1>1
  <2>2. SumFunctionOnSet(d, {}) = 0
    BY SumEmpty
  <2>3. Spent(d, {p}) = SumFunctionOnSet(d, {})
    BY <2>1 DEF Spent
  <2> QED
    BY <2>3, <2>2, <1>1
<1>2. CASE p \in DOMAIN d
  <2>1. DOMAIN d \cap {p} = {p} /\ {p} \ {p} = {} /\ d[p] \in Int
    BY <1>2 DEF DictOK
  <2>2. SumFunctionOnSet(d, {p}) = d[p] + SumFunctionOnSet(d, {p} \ {p})
    <3> DEFINE S == {p}
    <3>1. IsFiniteSet(S) /\ p \in S /\ \A y \in S : d[y] \in Int
      BY <2>1, FS_Singleton
    <3> HIDE DEF S
    <3>2. SumFunctionOnSet(d, S) = d[p] + SumFunctionOnSet(d, S \ {p})
      BY <3>1, SumRemove
    <3> QED
      BY <3>2 DEF S
  <2>3. SumFunctionOnSet(d, {}) = 0
    BY SumEmpty
  <2>4. Spent(d, {p}) = SumFunctionOnSet(d, {p})
    BY <2>1 DEF Spent
  <2>5. SumFunctionOnSet(d, {p}) = d[p]
    <3>1. SumFunctionOnSet(d, {p} \ {p}) = 0
      BY <2>1, <2>3
    <3> QED
      BY <3>1, <2>1, <2>2
  <2> QED
    BY <2>4, <2>5, <1>2
<1> QED
  BY <1>1, <1>2

-----------------------------------------------------------------------------
(* The spans whose iteration of the loop is over.                          *)
Counted == {cp[k] : k \in (left + 1)..Len(cp)}
Ending(d, o) == {p \in DOMAIN d : LastOf(p) = o}
Here(p) == {n \in Counted : getCallPath(n) = p}
Below(p) == {n \in Counted \ {Root} : getCallPath(parent[n]) = p}

Totals(d) == Spent(d, DOMAIN d) = IF Root \in Counted THEN dur[Root] ELSE 0

Agree(f, by) ==
    /\ DOMAIN f \subseteq Ops
    /\ \A o \in Ops : Spent(f, {o}) = Spent(by, Ending(by, o))

PathTimes(p) ==
    /\ Spent(callpathTimeInclusive, {p}) = SumFunctionOnSet(dur, Here(p))
    /\ Spent(callpathTimeExclusive, {p}) =
           SumFunctionOnSet(dur, Here(p)) - SumFunctionOnSet(dur, Below(p))

(* What the loop has added, in the middle of it: a parent's entry is that  *)
(* of the spans of its path so far without those just below, negative      *)
(* while it has only been taken from.                                      *)
TimesInv ==
    /\ DictOK(opTimeExclusive) /\ DictOK(opTimeInclusive)
    /\ DictOK(callpathTimeExclusive) /\ DictOK(callpathTimeInclusive)
    /\ Totals(opTimeExclusive) /\ Totals(callpathTimeExclusive)
    /\ Agree(opTimeExclusive, callpathTimeExclusive)
    /\ Agree(opTimeInclusive, callpathTimeInclusive)
    /\ \A p \in CallPaths : PathTimes(p)
    /\ \A n \in Counted : getCallPath(n) \in DOMAIN callpathTimeExclusive
                                              \cap DOMAIN callpathTimeInclusive

MetricsInv ==
    /\ phase \in {"cut", "path", "spans", "done"}
    /\ phase \in {"cut", "path"} =>
         /\ opTimeExclusive = NoKeys /\ opTimeInclusive = NoKeys
         /\ callpathTimeExclusive = NoKeys /\ callpathTimeInclusive = NoKeys
    /\ phase \in {"spans", "done"} => left \in Nat /\ left <= Len(cp) /\ TimesInv
    /\ phase = "done" => left = 0 /\ totalTime = dur[Root]

(* The span of an iteration, its parent and their operations.              *)
LEMMA SpanAdded ==
  ASSUME LinksOK, PathOK, MetricsInv, AddSpan
  PROVE  /\ cp[left] \in Nodes /\ dur[cp[left]] \in Int /\ cp[left] \in Path
         /\ cp[left] # Root => /\ parent[cp[left]] \in Nodes /\ parent[cp[left]] \in Path
                               /\ parent[cp[left]] # NoNode
         /\ cp[left] \notin Counted /\ Counted' = Counted \cup {cp[left]}
         /\ Counted \subseteq Nodes /\ Counted \subseteq Path
         /\ IsFiniteSet(Counted)
<1> DEFINE n == cp[left]
<1>0. /\ phase = "spans" /\ left > 0 /\ left' = left - 1 /\ cp' = cp
      /\ left \in Nat /\ left <= Len(cp) /\ cp \in Seq(Nodes) /\ Len(cp) \in Nat
      /\ cp[1] = Root
      /\ \A j, k \in 1..Len(cp) : cp[j] = cp[k] => j = k
      /\ \A k \in 2..Len(cp) : cp[k] \in kids[parent[cp[k]]] /\ parent[cp[k]] \in Path
  BY DEF AddSpan, pathVars, MetricsInv, PathOK
<1>1. left \in 1..Len(cp)
  BY <1>0
<1>2. n \in Nodes /\ n \in Path
  BY <1>0, <1>1 DEF Path
<1>3. dur[n] \in Int
  BY <1>2 DEF LinksOK
<1>4. Path \subseteq Nodes
  BY <1>0 DEF Path
<1>5. ASSUME n # Root PROVE parent[n] \in Nodes /\ parent[n] \in Path /\ parent[n] # NoNode
  <2>1. left \in 2..Len(cp)
    BY <1>0, <1>1, <1>5
  <2>2. parent[n] \in Path
    BY <2>1, <1>0
  <2> QED
    BY <2>2, <1>4, NodesAssumption
<1>6. n \notin Counted
  <2>1. \A k \in (left + 1)..Len(cp) : k \in 1..Len(cp) /\ k # left
    BY <1>0
  <2> QED
    BY <2>1, <1>0, <1>1 DEF Counted
<1>7. Counted' = Counted \cup {n}
  <2>1. (left' + 1)..Len(cp') = ((left + 1)..Len(cp)) \cup {left}
    BY <1>0
  <2>2. {cp'[k] : k \in ((left + 1)..Len(cp)) \cup {left}}
           = {cp[k] : k \in (left + 1)..Len(cp)} \cup {n}
    BY <1>0
  <2> QED
    BY <2>1, <2>2 DEF Counted
<1>8. Counted \subseteq Path
  <2>1. (left + 1)..Len(cp) \subseteq 1..Len(cp)
    BY <1>0
  <2> QED
    BY <2>1 DEF Counted, Path
<1>9. IsFiniteSet(Counted)
  BY <1>4, <1>8, FS_Subset, FiniteAssumption
<1> QED
  BY <1>2, <1>3, <1>4, <1>5, <1>6, <1>7, <1>8, <1>9

(* The operation of a span and of its parent are the last ones of their    *)
(* call paths, so that both profiles add to and take from the same sums.   *)
LEMMA AgreeExclusive ==
  ASSUME NEW f, DictOK(f), NEW by, DictOK(by), Agree(f, by),
         NEW n \in Nodes, dur[n] \in Int, NEW key, NEW pkey, NEW path, NEW up,
         key \in Ops, n # Root => pkey \in Ops,
         LastOf(path) = key, n # Root => LastOf(up) = pkey,
         NEW g, g = Exclusive(f, key, pkey, n), NEW e, e = Exclusive(by, path, up, n)
  PROVE  Agree(g, e)
<1>1. DictOK(g) /\ DOMAIN g \subseteq Ops
  <2>1. Charged(f, key, pkey, n, g)
    BY ExclusiveStep
  <2> QED
    BY <2>1 DEF Charged, Agree
<1>2. ASSUME NEW o \in Ops PROVE Spent(g, {o}) = Spent(e, Ending(e, o))
  <2> DEFINE T == Ending(e, o)
             O == {o}
  <2>1. Charged(by, path, up, n, e)
    BY ExclusiveStep
  <2>2. DOMAIN by \cap T = Ending(by, o) /\ DOMAIN e \cap T = T
    BY <2>1 DEF Charged, Ending
  <2>3. path \in T <=> key = o
    BY <2>1 DEF Charged, Ending
  <2>4. n # Root => (up \in T <=> pkey = o)
    BY <2>1 DEF Charged, Ending
  <2>5. key \in O <=> key = o
    OBVIOUS
  <2>6. pkey \in O <=> pkey = o
    OBVIOUS
  <2> HIDE DEF T, O
  <2>7. Spent(e, T) = Spent(by, T) + (IF path \in T THEN dur[n] ELSE 0)
                            - (IF n # Root /\ up \in T THEN dur[n] ELSE 0)
    BY ExclusiveStep
  <2>8. Spent(g, O) = Spent(f, O) + (IF key \in O THEN dur[n] ELSE 0)
                            - (IF n # Root /\ pkey \in O THEN dur[n] ELSE 0)
    BY ExclusiveStep
  <2>9. Spent(f, O) = Spent(by, Ending(by, o))
    BY DEF Agree, O
  <2>10. Spent(by, T) = Spent(by, Ending(by, o))
    <3>1. DOMAIN by \cap Ending(by, o) = DOMAIN by \cap T
      BY <2>2 DEF Ending
    <3> QED
      BY <3>1 DEF Spent
  <2>11. Spent(g, O) = Spent(e, T)
    <3>1. (IF key \in O THEN dur[n] ELSE 0) = (IF path \in T THEN dur[n] ELSE 0)
      BY <2>3, <2>5
    <3>2. (IF n # Root /\ pkey \in O THEN dur[n] ELSE 0)
             = (IF n # Root /\ up \in T THEN dur[n] ELSE 0)
      BY <2>4, <2>6
    <3> QED
      BY <3>1, <3>2, <2>7, <2>8, <2>9, <2>10
  <2> QED
    BY <2>11 DEF O, T
<1> QED
  BY <1>1, <1>2 DEF Agree

(* The inclusive profiles agree as the exclusive ones do, with nothing     *)
(* taken from the parent.                                                  *)
LEMMA AgreeInclusive ==
  ASSUME NEW f, DictOK(f), NEW by, DictOK(by), Agree(f, by),
         NEW v \in Int, NEW key, NEW path, key \in Ops, LastOf(path) = key,
         NEW g, g = accumulateInDict(f, key, v), NEW e, e = accumulateInDict(by, path, v)
  PROVE  Agree(g, e)
<1>1. Added(f, key, v, g) /\ Added(by, path, v, e)
  BY Accumulated
<1>2. ASSUME NEW o \in Ops PROVE Spent(g, {o}) = Spent(e, Ending(e, o))
  <2> DEFINE T == Ending(e, o)
             O == {o}
  <2>1. DOMAIN by \cap T = Ending(by, o) /\ DOMAIN e \cap T = T
    BY <1>1 DEF Added, Ending
  <2>2. path \in T <=> key \in O
    BY <1>1 DEF Added, Ending
  <2> HIDE DEF T, O
  <2>3. Spent(e, T) = Spent(by, T) + (IF path \in T THEN v ELSE 0)
    BY <1>1, AccumulatedSum DEF Spent
  <2>4. Spent(g, O) = Spent(f, O) + (IF key \in O THEN v ELSE 0)
    BY <1>1, AccumulatedSum DEF Spent
  <2>5. Spent(f, O) = Spent(by, Ending(by, o))
    BY DEF Agree, O
  <2>6. Spent(by, T) = Spent(by, Ending(by, o))
    <3>1. DOMAIN by \cap Ending(by, o) = DOMAIN by \cap T
      BY <2>1 DEF Ending
    <3> QED
      BY <3>1 DEF Spent
  <2>7. Spent(g, O) = Spent(e, T)
    <3>1. (IF key \in O THEN v ELSE 0) = (IF path \in T THEN v ELSE 0)
      BY <2>2
    <3> QED
      BY <3>1, <2>3, <2>4, <2>5, <2>6
  <2> QED
    BY <2>7 DEF O, T
<1>3. DOMAIN g \subseteq Ops
  BY <1>1 DEF Added, Agree
<1> QED
  BY <1>2, <1>3 DEF Agree

(* What is added to a total is taken from it again, but for the root.      *)
LEMMA TotalExclusive ==
  ASSUME NEW d, DictOK(d), NEW n \in Nodes, dur[n] \in Int, NEW key, NEW pkey,
         NEW e, e = Exclusive(d, key, pkey, n)
  PROVE  Spent(e, DOMAIN e) = Spent(d, DOMAIN d) + (IF n = Root THEN dur[n] ELSE 0)
<1> DEFINE T == DOMAIN e
<1>1. Charged(d, key, pkey, n, e)
  BY ExclusiveStep
<1>2. key \in T /\ (n # Root => pkey \in T) /\ DOMAIN d \cap T = DOMAIN d \cap DOMAIN d
  BY <1>1 DEF Charged
<1> HIDE DEF T
<1>3. Spent(e, T) = Spent(d, T) + (IF key \in T THEN dur[n] ELSE 0)
                            - (IF n # Root /\ pkey \in T THEN dur[n] ELSE 0)
  BY ExclusiveStep
<1>4. Spent(d, T) = Spent(d, DOMAIN d)
  BY <1>2 DEF Spent
<1>5. Spent(d, DOMAIN d) \in Int
  <2> DEFINE D == DOMAIN d \cap DOMAIN d
  <2>1. IsFiniteSet(D) /\ \A k \in D : d[k] \in Int
    BY DEF DictOK
  <2> HIDE DEF D
  <2>2. SumFunctionOnSet(d, D) \in Int
    BY <2>1, SumInt
  <2> QED
    BY <2>2 DEF Spent, D
<1>6. Spent(e, T) = Spent(d, DOMAIN d) + (IF n = Root THEN dur[n] ELSE 0)
  <2>1. (IF key \in T THEN dur[n] ELSE 0) = dur[n]
    BY <1>2
  <2>2. CASE n = Root
    <3>1. (IF n # Root /\ pkey \in T THEN dur[n] ELSE 0) = 0
      BY <2>2
    <3> QED
      BY <3>1, <2>1, <2>2, <1>3, <1>4, <1>5
  <2>3. CASE n # Root
    <3>1. (IF n # Root /\ pkey \in T THEN dur[n] ELSE 0) = dur[n]
      BY <2>3, <1>2
    <3> QED
      BY <3>1, <2>1, <2>3, <1>3, <1>4, <1>5
  <2> QED
    BY <2>2, <2>3
<1> QED
  BY <1>6 DEF T

(* One more weight in a sum.                                               *)
LEMMA OneMore ==
  ASSUME NEW S, IsFiniteSet(S), NEW n, n \notin S, NEW w, \A x \in S \cup {n} : w[x] \in Int,
         NEW b \in BOOLEAN, NEW T, T = IF b THEN S \cup {n} ELSE S
  PROVE  /\ SumFunctionOnSet(w, S) \in Int
         /\ SumFunctionOnSet(w, T) = SumFunctionOnSet(w, S) + (IF b THEN w[n] ELSE 0)
<1>1. SumFunctionOnSet(w, S) \in Int
  BY SumInt
<1>2. CASE b
  BY <1>2, SumAdd
<1>3. CASE ~b
  BY <1>1, <1>3
<1> QED
  BY <1>1, <1>2, <1>3

(* An iteration of the loop, from the end of the path to its beginning.    *)
LEMMA AddSpanTimes ==
  ASSUME LinksOK, PathOK, MetricsInv, AddSpan
  PROVE  TimesInv'
<1> DEFINE n == cp[left]
           path == getCallPath(n)
           up == IF n = Root THEN path ELSE getCallPath(parent[n])
           upOp == IF n = Root THEN op[n] ELSE op[parent[n]]
           opE == opTimeExclusive'
           opI == opTimeInclusive'
           cpE == callpathTimeExclusive'
           cpI == callpathTimeInclusive'
<1>1. /\ n \in Nodes /\ dur[n] \in Int /\ n \in Path
      /\ n # Root => parent[n] \in Nodes /\ parent[n] \in Path /\ parent[n] # NoNode
      /\ n \notin Counted /\ Counted' = Counted \cup {n}
      /\ Counted \subseteq Nodes /\ IsFiniteSet(Counted)
  BY SpanAdded
<1>2. /\ opE = Exclusive(opTimeExclusive, op[n], upOp, n)
      /\ opI = accumulateInDict(opTimeInclusive, op[n], dur[n])
      /\ cpE = Exclusive(callpathTimeExclusive, path, up, n)
      /\ cpI = accumulateInDict(callpathTimeInclusive, path, dur[n])
      /\ op' = op /\ parent' = parent /\ dur' = dur /\ cp' = cp
  BY DEF AddSpan, pathVars, graph
<1>3. TimesInv /\ Hanging
  BY DEF AddSpan, MetricsInv, LinksOK
<1>4. /\ DictOK(opTimeExclusive) /\ DictOK(opTimeInclusive)
      /\ DictOK(callpathTimeExclusive) /\ DictOK(callpathTimeInclusive)
  BY <1>3 DEF TimesInv
<1>5. /\ LastOf(path) = op[n] /\ op[n] \in Ops
      /\ n # Root => LastOf(up) = upOp /\ upOp \in Ops
  <2>1. \A m \in Nodes : LastOf(getCallPath(m)) = op[m] /\ op[m] \in Ops
    BY <1>3, CallPathIs DEF Hanging
  <2> QED
    BY <2>1, <1>1
<1>6. \A m : getCallPath(m)' = getCallPath(m)
  BY <1>2 DEF getCallPath
<1>7. CallPaths' = CallPaths
  <2>1. Path' = Path
    BY <1>2 DEF Path
  <2> QED
    BY <2>1, <1>6 DEF CallPaths
<1> DEFINE v == dur[n]
           key == op[n]
<1> HIDE DEF n, path, up, upOp, opE, opI, cpE, cpI, v, key
<1>8. /\ Charged(opTimeExclusive, key, upOp, n, opE)
      /\ Charged(callpathTimeExclusive, path, up, n, cpE)
  BY <1>1, <1>2, <1>4, ExclusiveStep DEF key
<1>9. v \in Int /\ Added(opTimeInclusive, key, v, opI) /\ Added(callpathTimeInclusive, path, v, cpI)
  BY <1>1, <1>2, <1>4, Accumulated DEF v, key
<1>10. /\ DictOK(opE) /\ DictOK(opI) /\ DictOK(cpE) /\ DictOK(cpI)
  BY <1>8, <1>9 DEF Charged, Added
<1>11. Agree(opE, cpE)
  BY <1>1, <1>2, <1>3, <1>4, <1>5, AgreeExclusive DEF TimesInv, key
<1>12. Agree(opI, cpI)
  BY <1>1, <1>2, <1>3, <1>4, <1>5, AgreeInclusive DEF TimesInv, key
<1>13. /\ Spent(opE, DOMAIN opE) = (IF Root \in Counted' THEN dur[Root] ELSE 0)
       /\ Spent(cpE, DOMAIN cpE) = (IF Root \in Counted' THEN dur[Root] ELSE 0)
  <2>1. /\ Spent(opE, DOMAIN opE)
              = Spent(opTimeExclusive, DOMAIN opTimeExclusive) + (IF n = Root THEN dur[n] ELSE 0)
        /\ Spent(cpE, DOMAIN cpE)
              = Spent(callpathTimeExclusive, DOMAIN callpathTimeExclusive)
                    + (IF n = Root THEN dur[n] ELSE 0)
    BY <1>1, <1>2, <1>4, TotalExclusive DEF key
  <2>2. /\ Spent(opTimeExclusive, DOMAIN opTimeExclusive)
              = (IF Root \in Counted THEN dur[Root] ELSE 0)
        /\ Spent(callpathTimeExclusive, DOMAIN callpathTimeExclusive)
              = (IF Root \in Counted THEN dur[Root] ELSE 0)
    BY <1>3 DEF TimesInv, Totals
  <2>3. dur[Root] \in Int
    BY NodesAssumption DEF LinksOK
  <2> QED
    BY <2>1, <2>2, <2>3, <1>1
<1>14. ASSUME NEW p \in CallPaths PROVE PathTimes(p)'
  <2> DEFINE b == path = p
             c == n # Root /\ up = p
  <2>1. PathTimes(p)
    BY <1>3, <1>14 DEF TimesInv
  <2>2. Here(p)' = IF b THEN Here(p) \cup {n} ELSE Here(p)
    BY <1>1, <1>6 DEF Here, path
  <2>3. Below(p)' = IF c THEN Below(p) \cup {n} ELSE Below(p)
    <3>1. n # Root => up = getCallPath(parent[n])
      BY DEF up
    <3>2. \A m : getCallPath(parent[m])' = getCallPath(parent[m])
      BY <1>2, <1>6
    <3>3. Below(p)' = {m \in (Counted \cup {n}) \ {Root} : getCallPath(parent[m]) = p}
      BY <1>1, <3>2 DEF Below
    <3> QED
      BY <3>1, <3>3 DEF Below
  <2>4. /\ Here(p) \subseteq Counted /\ Below(p) \subseteq Counted
        /\ IsFiniteSet(Here(p)) /\ IsFiniteSet(Below(p))
        /\ n \notin Here(p) /\ n \notin Below(p)
    <3>1. Here(p) \subseteq Counted /\ Below(p) \subseteq Counted
      BY DEF Here, Below
    <3> QED
      BY <3>1, <1>1, FS_Subset
  <2>5. \A x \in Counted \cup {n} : dur[x] \in Int
    BY <1>1 DEF LinksOK
  <2> DEFINE H == Here(p)
             B == Below(p)
             HH == Here(p)'
             BB == Below(p)'
  <2>6. b \in BOOLEAN /\ c \in BOOLEAN
    OBVIOUS
  <2>8. Spent(cpI, {p}) = Spent(callpathTimeInclusive, {p}) + (IF b THEN v ELSE 0)
    <3> DEFINE P == {p}
    <3>1. path \in P <=> b
      OBVIOUS
    <3> HIDE DEF P, b
    <3>2. Spent(cpI, P) = Spent(callpathTimeInclusive, P) + (IF path \in P THEN v ELSE 0)
      BY <1>4, <1>9, AccumulatedSum DEF Spent
    <3>3. Spent(cpI, P) = Spent(callpathTimeInclusive, P) + (IF b THEN v ELSE 0)
      BY <3>1, <3>2
    <3> QED
      BY <3>3 DEF P
  <2>9. Spent(cpE, {p}) = Spent(callpathTimeExclusive, {p}) + (IF b THEN v ELSE 0)
                                - (IF c THEN v ELSE 0)
    <3> DEFINE P == {p}
    <3>1. (path \in P <=> b) /\ ((n # Root /\ up \in P) <=> c)
      OBVIOUS
    <3> HIDE DEF P, b, c
    <3>2. Spent(cpE, P) = Spent(callpathTimeExclusive, P) + (IF path \in P THEN dur[n] ELSE 0)
                                - (IF n # Root /\ up \in P THEN dur[n] ELSE 0)
      BY <1>1, <1>2, <1>4, ExclusiveStep
    <3>3. Spent(cpE, P) = Spent(callpathTimeExclusive, P) + (IF b THEN v ELSE 0)
                                - (IF c THEN v ELSE 0)
      BY <3>1, <3>2 DEF v
    <3> QED
      BY <3>3 DEF P
  <2>10. /\ SumFunctionOnSet(dur, H) \in Int
         /\ SumFunctionOnSet(dur, HH) = SumFunctionOnSet(dur, H) + (IF b THEN v ELSE 0)
    <3>1. /\ IsFiniteSet(H) /\ n \notin H /\ \A x \in H \cup {n} : dur[x] \in Int
          /\ HH = IF b THEN H \cup {n} ELSE H
      BY <2>2, <2>4, <2>5
    <3> HIDE DEF H, HH, b
    <3> QED
      BY <3>1, <2>6, OneMore DEF v
  <2>11. /\ SumFunctionOnSet(dur, B) \in Int
         /\ SumFunctionOnSet(dur, BB) = SumFunctionOnSet(dur, B) + (IF c THEN v ELSE 0)
    <3>1. /\ IsFiniteSet(B) /\ n \notin B /\ \A x \in B \cup {n} : dur[x] \in Int
          /\ BB = IF c THEN B \cup {n} ELSE B
      BY <2>3, <2>4, <2>5
    <3> HIDE DEF B, BB, c
    <3> QED
      BY <3>1, <2>6, OneMore DEF v
  <2>12. /\ Spent(callpathTimeInclusive, {p}) = SumFunctionOnSet(dur, H)
         /\ Spent(callpathTimeExclusive, {p}) = SumFunctionOnSet(dur, H) - SumFunctionOnSet(dur, B)
    BY <2>1 DEF PathTimes
  <2> HIDE DEF b, c, H, B, HH, BB
  <2>13. /\ Spent(cpI, {p}) = SumFunctionOnSet(dur, HH)
         /\ Spent(cpE, {p}) = SumFunctionOnSet(dur, HH) - SumFunctionOnSet(dur, BB)
    <3>1. (IF b THEN v ELSE 0) \in Int /\ (IF c THEN v ELSE 0) \in Int
      BY <1>9
    <3> QED
      BY <3>1, <2>8, <2>9, <2>10, <2>11, <2>12
  <2> QED
    BY <2>13, <1>2 DEF PathTimes, Spent, HH, BB, cpI, cpE
<1>15. \A m \in Counted' : getCallPath(m)' \in DOMAIN cpE \cap DOMAIN cpI
  <2>1. path \in DOMAIN cpE \cap DOMAIN cpI
    BY <1>8, <1>9 DEF Charged, Added
  <2>2. DOMAIN callpathTimeExclusive \subseteq DOMAIN cpE
        /\ DOMAIN callpathTimeInclusive \subseteq DOMAIN cpI
    BY <1>8, <1>9 DEF Charged, Added
  <2>3. \A m \in Counted : getCallPath(m) \in DOMAIN callpathTimeExclusive
                                                 \cap DOMAIN callpathTimeInclusive
    BY <1>3 DEF TimesInv
  <2> QED
    BY <2>1, <2>2, <2>3, <1>1, <1>6 DEF path
<1>16. Totals(opTimeExclusive)' /\ Totals(callpathTimeExclusive)'
  BY <1>13, <1>2 DEF Totals, Spent, opE, cpE
<1>17. Agree(opTimeExclusive, callpathTimeExclusive)' /\ Agree(opTimeInclusive, callpathTimeInclusive)'
  BY <1>11, <1>12 DEF Agree, Spent, Ending, LastOf, opE, cpE, opI, cpI
<1>18. /\ DictOK(opTimeExclusive)' /\ DictOK(opTimeInclusive)'
       /\ DictOK(callpathTimeExclusive)' /\ DictOK(callpathTimeInclusive)'
  BY <1>10 DEF DictOK, opE, opI, cpE, cpI
<1> QED
  BY <1>7, <1>14, <1>15, <1>16, <1>17, <1>18 DEF TimesInv, cpE, cpI

(* What TimesInv speaks about stays.                                       *)
LEMMA TimesStay ==
  TimesInv /\ UNCHANGED <<graph, cp, op, left, flat, byPath>> => TimesInv'
<1> SUFFICES ASSUME TimesInv, UNCHANGED <<graph, cp, op, left, flat, byPath>> PROVE TimesInv'
  OBVIOUS
<1>1. /\ parent' = parent /\ dur' = dur /\ cp' = cp /\ op' = op /\ left' = left
      /\ opTimeExclusive' = opTimeExclusive /\ opTimeInclusive' = opTimeInclusive
      /\ callpathTimeExclusive' = callpathTimeExclusive
      /\ callpathTimeInclusive' = callpathTimeInclusive
  BY DEF graph, flat, byPath
<1>2. \A m : getCallPath(m)' = getCallPath(m)
  BY <1>1 DEF getCallPath
<1>3. Counted' = Counted /\ Path' = Path
  BY <1>1 DEF Counted, Path
<1>4. CallPaths' = CallPaths
  BY <1>2, <1>3 DEF CallPaths
<1>5. \A p \in CallPaths : Here(p)' = Here(p) /\ Below(p)' = Below(p)
  <2> SUFFICES ASSUME NEW p \in CallPaths PROVE Here(p)' = Here(p) /\ Below(p)' = Below(p)
    OBVIOUS
  <2>1. Here(p)' = Here(p)
    BY <1>2, <1>3 DEF Here
  <2>2. Below(p)' = {m \in Counted \ {Root} : getCallPath(parent[m]) = p}
    <3>1. \A m : getCallPath(parent[m])' = getCallPath(parent[m])
      BY <1>1, <1>2
    <3> QED
      BY <3>1, <1>3 DEF Below
  <2> QED
    BY <2>1, <2>2 DEF Below
<1>6. \A p \in CallPaths : PathTimes(p)'
  BY <1>1, <1>5 DEF TimesInv, PathTimes, Spent
<1>7. Totals(opTimeExclusive)' /\ Totals(callpathTimeExclusive)'
  BY <1>1, <1>3 DEF TimesInv, Totals, Spent
<1>8. /\ Agree(opTimeExclusive, callpathTimeExclusive)'
      /\ Agree(opTimeInclusive, callpathTimeInclusive)'
  BY <1>1 DEF TimesInv, Agree, Spent, Ending, LastOf
<1>9. /\ DictOK(opTimeExclusive)' /\ DictOK(opTimeInclusive)'
      /\ DictOK(callpathTimeExclusive)' /\ DictOK(callpathTimeInclusive)'
  BY <1>1 DEF TimesInv, DictOK
<1>10. \A m \in Counted' : getCallPath(m)' \in DOMAIN callpathTimeExclusive'
                                                 \cap DOMAIN callpathTimeInclusive'
  BY <1>1, <1>2, <1>3 DEF TimesInv
<1> QED
  BY <1>4, <1>6, <1>7, <1>8, <1>9, <1>10 DEF TimesInv

(* The loop begins with empty profiles.                                    *)
LEMMA TimesBegin ==
  ASSUME opTimeExclusive' = NoKeys, opTimeInclusive' = NoKeys,
         callpathTimeExclusive' = NoKeys, callpathTimeInclusive' = NoKeys, Counted' = {}
  PROVE  TimesInv'
<1>1. DOMAIN NoKeys = {}
  BY DEF NoKeys
<1>2. \A T : Spent(NoKeys, T) = 0
  <2> SUFFICES ASSUME NEW T PROVE Spent(NoKeys, T) = 0
    OBVIOUS
  <2>1. DOMAIN NoKeys \cap T = {}
    BY <1>1
  <2>2. SumFunctionOnSet(NoKeys, {}) = 0
    BY SumEmpty
  <2> QED
    BY <2>1, <2>2 DEF Spent
<1>3. DictOK(NoKeys)
  BY <1>1, FS_EmptySet DEF DictOK
<1>4. \A p : Here(p)' = {} /\ Below(p)' = {}
  BY DEF Here, Below
<1>5. SumFunctionOnSet(dur', {}) = 0
  BY SumEmpty
<1>6. \A p \in CallPaths' : PathTimes(p)'
  BY <1>2, <1>4, <1>5 DEF PathTimes, Spent
<1>7. Totals(opTimeExclusive)' /\ Totals(callpathTimeExclusive)'
  BY <1>2 DEF Totals, Spent
<1>8. /\ Agree(opTimeExclusive, callpathTimeExclusive)'
      /\ Agree(opTimeInclusive, callpathTimeInclusive)'
  BY <1>1, <1>2 DEF Agree, Spent, Ending
<1>9. /\ DictOK(opTimeExclusive)' /\ DictOK(opTimeInclusive)'
      /\ DictOK(callpathTimeExclusive)' /\ DictOK(callpathTimeInclusive)'
  BY <1>3 DEF DictOK
<1> QED
  BY <1>6, <1>7, <1>8, <1>9 DEF TimesInv

-----------------------------------------------------------------------------
ProfileInv == LinksOK /\ PathOK /\ MetricsInv

(* Before anything is cut the profiles are empty and the links in order.   *)
LEMMA ProfileStart == ProcessInit => ProfileInv
<1> SUFFICES ASSUME ProcessInit PROVE ProfileInv
  OBVIOUS
<1>1. LinksOK
  BY InitLinks
<1>2. PathOK /\ MetricsInv
  BY DEF ProcessInit, PathOK, MetricsInv
<1> QED
  BY <1>1, <1>2 DEF ProfileInv

(* Past the search nothing moves in the graph or on the path.              *)
LEMMA GraphStays ==
  ASSUME LinksOK, PathOK, phase # "cut", phase' # "cut", phase # "path" => phase' # "path",
         UNCHANGED <<pathVars, op>>
  PROVE  LinksOK' /\ PathOK'
<1>1. /\ UNCHANGED <<start, end, dur, parent, kids, stack, todo, cp, op, removeList>>
  BY DEF pathVars, graph, cutVars
<1>2. Hanging'
  BY <1>1 DEF LinksOK, Hanging
<1>3. LinksOK'
  BY <1>1, <1>2 DEF LinksOK
<1>4. Path' = Path
  BY <1>1 DEF Path
<1>5. PathOK'
  BY <1>1, <1>4 DEF PathOK
<1> QED
  BY <1>3, <1>5

(* Every step of the pipeline keeps the links, the path and the profiles.  *)
LEMMA ProfileStep == ProfileInv /\ [ProcessNext]_processVars => ProfileInv'
<1> SUFFICES ASSUME ProfileInv, [ProcessNext]_processVars PROVE ProfileInv'
  OBVIOUS
<1>0. LinksOK /\ PathOK /\ MetricsInv
  BY DEF ProfileInv
<1>1. CASE CutSpans
  <2>1. /\ phase = "cut" /\ phase' = "cut" /\ SW!Next
        /\ UNCHANGED <<op, left, flat, byPath, totalTime>>
    BY <1>1 DEF CutSpans, metrics, stats
  <2>2. LinksOK'
    BY <2>1, <1>0, CutLinks
  <2>3. PathOK'
    BY <2>1 DEF PathOK
  <2>4. MetricsInv'
    BY <2>1, <1>0 DEF MetricsInv, flat, byPath
  <2> QED
    BY <2>2, <2>3, <2>4 DEF ProfileInv
<1>2. CASE StartPath
  <2>1. /\ phase = "cut" /\ phase' = "path" /\ stack' = <<Root>> /\ todo' = kids
        /\ UNCHANGED <<start, end, dur, parent, kids, removeList, op, flat, byPath>>
    BY <1>2 DEF StartPath, metrics, graph, cutVars
  <2>2. PathOK'
    BY <1>0, <1>2, StartPathOK
  <2>3. LinksOK'
    <3>1. Hanging'
      BY <2>1, <1>0 DEF LinksOK, Hanging
    <3>2. stack' \in Seq(Nodes)
      BY <2>1, NodesAssumption
    <3> QED
      BY <2>1, <3>1, <3>2, <1>0 DEF LinksOK
  <2>4. MetricsInv'
    BY <2>1, <1>0 DEF MetricsInv, flat, byPath
  <2> QED
    BY <2>2, <2>3, <2>4 DEF ProfileInv
<1>3. CASE FindPath
  <2>1. /\ phase = "path" /\ phase' = "path" /\ Next /\ UNCHANGED <<op, removeList>>
        /\ UNCHANGED <<flat, byPath>>
    BY <1>3 DEF FindPath, metrics, cutVars
  <2>2. LinksOK' /\ PathOK'
    BY <2>1, <1>0, FindPathOK
  <2>3. MetricsInv'
    BY <2>1, <1>0 DEF MetricsInv, flat, byPath
  <2> QED
    BY <2>2, <2>3 DEF ProfileInv
<1>4. CASE StartMetrics
  <2>1. /\ phase = "path" /\ phase' = "spans" /\ left' = Len(cp) /\ cp' = cp
        /\ UNCHANGED <<pathVars, op>> /\ UNCHANGED <<flat, byPath>>
    BY <1>4 DEF StartMetrics, pathVars
  <2>2. LinksOK' /\ PathOK'
    BY <2>1, <1>0, GraphStays
  <2>3. cp \in Seq(Nodes) /\ Len(cp) \in Nat
    BY <2>1, <1>0 DEF PathOK
  <2>4. Counted' = {}
    <3>1. (left' + 1)..Len(cp') = {}
      BY <2>1, <2>3
    <3> QED
      BY <3>1 DEF Counted
  <2>5. /\ opTimeExclusive' = NoKeys /\ opTimeInclusive' = NoKeys
        /\ callpathTimeExclusive' = NoKeys /\ callpathTimeInclusive' = NoKeys
    BY <2>1, <1>0 DEF MetricsInv, flat, byPath
  <2>7. TimesInv'
    BY <2>4, <2>5, TimesBegin
  <2> QED
    BY <2>1, <2>2, <2>3, <2>7 DEF ProfileInv, MetricsInv
<1>5. CASE AddSpan
  <2>1. /\ phase = "spans" /\ phase' = "spans" /\ left > 0 /\ left' = left - 1 /\ cp' = cp
        /\ UNCHANGED <<pathVars, op>>
    BY <1>5 DEF AddSpan, pathVars
  <2>2. LinksOK' /\ PathOK'
    BY <2>1, <1>0, GraphStays
  <2>3. TimesInv'
    BY <1>0, <1>5, AddSpanTimes
  <2>4. left \in Nat /\ left <= Len(cp) /\ Len(cp) \in Nat
    BY <2>1, <1>0 DEF MetricsInv, PathOK
  <2> QED
    BY <2>1, <2>2, <2>3, <2>4 DEF ProfileInv, MetricsInv
<1>6. CASE Finish
  <2>1. /\ phase = "spans" /\ phase' = "done" /\ left = 0 /\ left' = left /\ cp' = cp
        /\ totalTime' = dur[Root] /\ dur' = dur
        /\ UNCHANGED <<pathVars, op>> /\ UNCHANGED <<graph, cp, op, left, flat, byPath>>
    BY <1>6 DEF Finish, pathVars, graph
  <2>2. LinksOK' /\ PathOK'
    BY <2>1, <1>0, GraphStays
  <2>3. TimesInv /\ left \in Nat /\ left <= Len(cp)
    BY <2>1, <1>0 DEF MetricsInv
  <2>4. TimesInv'
    BY <2>1, <2>3, TimesStay
  <2> QED
    BY <2>1, <2>2, <2>3, <2>4 DEF ProfileInv, MetricsInv
<1>7. CASE UNCHANGED processVars
  <2>1. /\ UNCHANGED <<pathVars, op, phase, left, totalTime>>
        /\ UNCHANGED <<graph, cp, op, left, flat, byPath>>
    BY <1>7 DEF processVars, metrics, pathVars, stats
  <2>2. LinksOK' /\ PathOK'
    <3>1. UNCHANGED <<start, end, dur, parent, kids, stack, todo, cp, op, removeList, phase>>
      BY <2>1 DEF pathVars, graph, cutVars
    <3>2. Hanging'
      BY <3>1, <1>0 DEF LinksOK, Hanging
    <3>3. Path' = Path
      BY <3>1 DEF Path
    <3>4. LinksOK'
      BY <3>1, <3>2, <1>0 DEF LinksOK
    <3>5. PathOK'
      BY <3>1, <3>3, <1>0 DEF PathOK
    <3> QED
      BY <3>4, <3>5
  <2>3. TimesInv => TimesInv'
    BY <2>1, TimesStay
  <2>4. MetricsInv'
    BY <2>1, <2>3, <1>0 DEF MetricsInv, flat, byPath, graph
  <2> QED
    BY <2>2, <2>4 DEF ProfileInv
<1> QED
  BY <1>1, <1>2, <1>3, <1>4, <1>5, <1>6, <1>7 DEF ProcessNext

(* At the end every span of the path has been counted.                     *)
LEMMA AllCounted ==
  ASSUME ProfileInv, Done
  PROVE  /\ Counted = Path /\ Root \in Path /\ Path \subseteq Nodes /\ IsFiniteSet(Path)
         /\ TimesInv /\ totalTime = dur[Root]
<1>1. /\ left = 0 /\ totalTime = dur[Root] /\ TimesInv
      /\ cp \in Seq(Nodes) /\ Len(cp) \in Nat /\ Len(cp) >= 1 /\ cp[1] = Root
  BY DEF ProfileInv, Done, MetricsInv, PathOK
<1>2. Counted = Path
  <2>1. (left + 1)..Len(cp) = 1..Len(cp)
    BY <1>1
  <2> QED
    BY <2>1 DEF Counted, Path
<1>3. Root \in Path
  <2>1. 1 \in 1..Len(cp)
    BY <1>1
  <2> QED
    BY <2>1, <1>1 DEF Path
<1>4. Path \subseteq Nodes
  BY <1>1 DEF Path
<1> QED
  BY <1>1, <1>2, <1>3, <1>4, FS_Subset, FiniteAssumption

(* The two exclusive profiles each add up to the duration of the root      *)
(* (getMetrics and the totalTime of process): nothing a span was charged   *)
(* for is lost, and nothing is taken from a parent that has not been       *)
(* charged.                                                                *)
THEOREM EachProfileConservesTime == ProcessSpec => []TimeConserved
<1>1. ProfileInv => TimeConserved
  <2> SUFFICES ASSUME ProfileInv, Done
               PROVE  /\ Sum(opTimeExclusive, DOMAIN opTimeExclusive) = totalTime
                      /\ Sum(callpathTimeExclusive, DOMAIN callpathTimeExclusive) = totalTime
    BY DEF TimeConserved
  <2>1. Counted = Path /\ Root \in Path /\ TimesInv /\ totalTime = dur[Root]
    BY AllCounted
  <2>2. /\ Spent(opTimeExclusive, DOMAIN opTimeExclusive) = totalTime
        /\ Spent(callpathTimeExclusive, DOMAIN callpathTimeExclusive) = totalTime
    BY <2>1 DEF TimesInv, Totals
  <2>3. ASSUME NEW d PROVE Spent(d, DOMAIN d) = Sum(d, DOMAIN d)
    <3>1. DOMAIN d \cap DOMAIN d = DOMAIN d
      OBVIOUS
    <3> QED
      BY <3>1, SumIs DEF Spent
  <2> QED
    BY <2>2, <2>3
<1> QED
  BY <1>1, ProfileStart, ProfileStep, PTL DEF ProcessSpec

(* After any number of spans, the profile by operation is the profile by   *)
(* call path summed up by the last operation of the paths, although the    *)
(* two are kept separately and each takes a span from an entry of its own  *)
(* for the parent.                                                         *)
THEOREM TheProfilesAgree == ProcessSpec => []ProfilesAgree
<1>1. ASSUME NEW f, DictOK(f), NEW by, Agree(f, by), NEW o \in DOMAIN f
      PROVE  f[o] = Sum(by, {p \in DOMAIN by : LastOf(p) = o})
  <2> DEFINE E == {p \in DOMAIN by : LastOf(p) = o}
  <2>1. o \in Ops
    BY <1>1 DEF Agree
  <2>2. f[o] = Spent(f, {o})
    BY <1>1, SpentOne
  <2>3. Spent(f, {o}) = Spent(by, E)
    BY <1>1, <2>1 DEF Agree, Ending
  <2>4. DOMAIN by \cap E = E
    OBVIOUS
  <2> HIDE DEF E
  <2>5. Spent(by, E) = Sum(by, E)
    BY <2>4, SumIs DEF Spent
  <2> QED
    BY <2>2, <2>3, <2>5 DEF E
<1>2. ProfileInv => ProfilesAgree
  <2> SUFFICES ASSUME ProfileInv PROVE ProfilesAgree
    OBVIOUS
  <2>1. CASE phase \in {"cut", "path"}
    <3>1. opTimeExclusive = NoKeys /\ opTimeInclusive = NoKeys /\ DOMAIN NoKeys = {}
      BY <2>1 DEF ProfileInv, MetricsInv, NoKeys
    <3> QED
      BY <3>1 DEF ProfilesAgree
  <2>2. CASE phase \in {"spans", "done"}
    <3>1. TimesInv
      BY <2>2 DEF ProfileInv, MetricsInv
    <3>2. /\ DictOK(opTimeExclusive) /\ Agree(opTimeExclusive, callpathTimeExclusive)
          /\ DictOK(opTimeInclusive) /\ Agree(opTimeInclusive, callpathTimeInclusive)
      BY <3>1 DEF TimesInv
    <3>3. \A o \in DOMAIN opTimeExclusive :
            opTimeExclusive[o] =
              Sum(callpathTimeExclusive, {p \in DOMAIN callpathTimeExclusive : LastOf(p) = o})
      BY <3>2, <1>1
    <3>4. \A o \in DOMAIN opTimeInclusive :
            opTimeInclusive[o] =
              Sum(callpathTimeInclusive, {p \in DOMAIN callpathTimeInclusive : LastOf(p) = o})
      BY <3>2, <1>1
    <3> QED
      BY <3>3, <3>4 DEF ProfilesAgree
  <2> QED
    BY <2>1, <2>2 DEF ProfileInv, MetricsInv
<1> QED
  BY <1>2, ProfileStart, ProfileStep, PTL DEF ProcessSpec

(* The children on the path of the spans of a call path are the spans      *)
(* whose parent's call path it is.                                         *)
LEMMA ChildrenBelow ==
  ASSUME ProfileInv, Done, NEW p
  PROVE  /\ At(p) = Here(p) /\ At(p) \subseteq Path
         /\ UNION {Chosen(n) : n \in At(p)} = Below(p)
         /\ \A x, y \in At(p) : x # y => Chosen(x) \cap Chosen(y) = {}
<1>1. Counted = Path /\ Root \in Path /\ Path \subseteq Nodes
  BY AllCounted
<1>2. LinksOK /\ PathOK /\ phase = "done"
  BY DEF ProfileInv, Done
<1>3. At(p) = Here(p) /\ At(p) \subseteq Path
  BY <1>1 DEF At, Here
<1>4. \A n \in Nodes : \A c \in kids[n] : parent[c] = n /\ c # Root
  <2>1. \A n \in Nodes : \A c \in kids[n] : parent[c] = n
    BY <1>2 DEF LinksOK
  <2>2. parent[Root] = NoNode
    BY <1>2 DEF LinksOK, Hanging
  <2> QED
    BY <2>1, <2>2, NodesAssumption
<1>5. \A c \in Path \ {Root} : c \in kids[parent[c]] /\ parent[c] \in Path
  <2> SUFFICES ASSUME NEW c \in Path \ {Root}
               PROVE  c \in kids[parent[c]] /\ parent[c] \in Path
    OBVIOUS
  <2>1. PICK k \in 1..Len(cp) : c = cp[k]
    BY DEF Path
  <2>2. cp[1] = Root /\ Len(cp) \in Nat
    BY <1>2 DEF PathOK
  <2>3. k \in 2..Len(cp)
    BY <2>1, <2>2
  <2> QED
    BY <2>1, <2>3, <1>2 DEF PathOK
<1> QED
  BY <1>1, <1>3, <1>4, <1>5 DEF Chosen, At, Below

(* Every call path of the critical path ends with the times its spans did  *)
(* not spend in their children on the path, and with their durations: what *)
(* getMetrics reaches by adding every span to its own entry and taking it  *)
(* from its parent's, which may come first.                                *)
THEOREM TimesOfCallPaths == ProcessSpec => []CallPathTimes
<1>1. ProfileInv => CallPathTimes
  <2> SUFFICES ASSUME ProfileInv, Done, NEW p \in CallPaths
               PROVE  /\ callpathTimeExclusive[p] = Sum(selfTime, At(p))
                      /\ callpathTimeInclusive[p] = Sum(dur, At(p))
    BY DEF CallPathTimes
  <2>1. /\ Counted = Path /\ Path \subseteq Nodes /\ IsFiniteSet(Path) /\ TimesInv
    BY AllCounted
  <2>2. p \in DOMAIN callpathTimeExclusive /\ p \in DOMAIN callpathTimeInclusive
    BY <2>1 DEF CallPaths, TimesInv
  <2>3. /\ callpathTimeExclusive[p] = Spent(callpathTimeExclusive, {p})
        /\ callpathTimeInclusive[p] = Spent(callpathTimeInclusive, {p})
    BY <2>1, <2>2, SpentOne DEF TimesInv
  <2>4. /\ Spent(callpathTimeInclusive, {p}) = SumFunctionOnSet(dur, Here(p))
        /\ Spent(callpathTimeExclusive, {p}) =
               SumFunctionOnSet(dur, Here(p)) - SumFunctionOnSet(dur, Below(p))
    BY <2>1 DEF TimesInv, PathTimes
  <2> DEFINE S == At(p)
             K == [n \in Nodes |-> Chosen(n)]
  <2>5. S = Here(p) /\ S \subseteq Path /\ UNION {K[n] : n \in S} = Below(p) /\ Apart(K, S)
    <3>1. /\ At(p) = Here(p) /\ At(p) \subseteq Path
          /\ UNION {Chosen(n) : n \in At(p)} = Below(p)
          /\ \A x, y \in At(p) : x # y => Chosen(x) \cap Chosen(y) = {}
      BY ChildrenBelow
    <3>2. \A n \in S : K[n] = Chosen(n)
      BY <3>1, <2>1
    <3> HIDE DEF K
    <3> QED
      BY <3>1, <3>2 DEF Apart
  <2>6. \A n \in S : K[n] \subseteq Path /\ K[n] = Chosen(n)
    BY <2>1, <2>5 DEF Chosen
  <2>7. \A x \in Path : dur[x] \in Int
    BY <2>1 DEF ProfileInv, LinksOK
  <2>8. \A x \in S : selfTime[x] = dur[x] - SumFunctionOnSet(dur, K[x])
    BY <2>1, <2>5, <2>6, SumIs DEF selfTime
  <2> HIDE DEF K, S
  <2>9. SumFunctionOnSet(selfTime, S) =
           SumFunctionOnSet(dur, S) - SumFunctionOnSet(dur, UNION {K[n] : n \in S})
    BY <2>1, <2>5, <2>6, <2>7, <2>8, SumOfRests
  <2> QED
    BY <2>3, <2>4, <2>5, <2>9, SumIs DEF S
<1> QED
  BY <1>1, ProfileStart, ProfileStep, PTL DEF ProcessSpec

-----------------------------------------------------------------------------
(* While spans are cut the walk keeps the invariant of SpanWindows; what   *)
(* it leaves is a graph in which every span that was walked has walked     *)
(* children that lie in its window, and the path has only walked spans.    *)
FitInv ==
    /\ phase \in {"cut", "path", "spans", "done"}
    /\ Root \in called
    /\ phase = "cut" => Windows!Inv /\ lrc = [n \in Nodes |-> NoNode]
    /\ phase # "cut" =>
         /\ start \in [Nodes -> Nat] /\ end \in [Nodes -> Nat] /\ dur \in [Nodes -> Nat]
         /\ \A n \in Nodes : end[n] = start[n] + dur[n]
         /\ kids \in [Nodes -> SUBSET Nodes]
         /\ \A m, n \in Nodes : \A c \in kids[m] \cap kids[n] : m = n
         /\ called \subseteq Nodes /\ Path \subseteq called
         /\ \A n \in called : \A c \in kids[n] :
              c \in called /\ start[n] <= start[c] /\ end[c] <= end[n]

(* What a span has given away to its children on the path is at most the   *)
(* time between the start of the one picked last and its own end, but for  *)
(* less than the allowance for each that was picked before.                *)
GivenAway(n) == SumFunctionOnSet(dur, Chosen(n)) - end[n] + start[lrc[n]]
OverlapsAllowed(n, k) ==
    /\ GivenAway(n) * Allowance <= (k - 1) * dur[n]
    /\ k > 1 => GivenAway(n) * Allowance < (k - 1) * dur[n]

ShareInv ==
    phase # "cut" =>
        /\ lrc \in [Nodes -> Nodes \cup {NoNode}]
        /\ \A n \in Nodes : IF lrc[n] = NoNode THEN Chosen(n) = {}
                            ELSE /\ lrc[n] \in Chosen(n)
                                 /\ OverlapsAllowed(n, Cardinality(Chosen(n)))

(* The assumptions of SpanWindows, for the times of this module.           *)
LEMMA CutsAsAssumed == Windows!NodesAssumption /\ Windows!TimesAssumption
<1>1. Windows!TimesAssumption
  BY TimesAssumption DEF Windows!TimesAssumption
<1>2. Windows!NodesAssumption
  BY FiniteAssumption, NodesAssumption
     DEF Windows!NodesAssumption, Windows!IsFiniteSet, IsFiniteSet
<1> QED
  BY <1>1, <1>2

(* The cutting begins as SpanWindows does.                                 *)
LEMMA FitStart == ProcessInit => FitInv /\ ShareInv
<1> SUFFICES ASSUME ProcessInit PROVE FitInv /\ ShareInv
  OBVIOUS
<1>1. Windows!Init => Windows!Inv
  BY CutsAsAssumed, Windows!InitInv
<1>2. Windows!Init /\ Root \in called
  BY DEF ProcessInit, SW!Init, Windows!Init
<1> QED
  BY <1>1, <1>2 DEF ProcessInit, FitInv, ShareInv

(* A step of the cutting is one of SpanWindows.                            *)
LEMMA CutIsWalk == SW!Next => Windows!Next
  BY DEF SW!Next, SW!KeepChild, SW!TrimFront, SW!TrimBack, SW!MarkDropped, SW!Return,
         SW!IsNext, SW!Within, SW!EntersEarly, SW!LeavesLate, SW!Finished, SW!Descend,
         SW!AddShrink, SW!cur,
         Windows!Next, Windows!KeepChild, Windows!TrimFront, Windows!TrimBack,
         Windows!MarkDropped, Windows!Return, Windows!IsNext, Windows!Within,
         Windows!EntersEarly, Windows!LeavesLate, Windows!Finished, Windows!Descend,
         Windows!AddShrink, Windows!cur

(* Its proofs say what the cutting keeps.                                  *)
LEMMA CutFits ==
  ASSUME Windows!Inv, SW!Next
  PROVE  Windows!Inv' /\ called \subseteq called'
<1>1. Windows!Inv /\ [Windows!Next]_(Windows!vars) => Windows!Inv'
  BY CutsAsAssumed, Windows!NextInv
<1>2. Windows!Next
  BY CutIsWalk
<1>3. called \subseteq called'
  BY DEF SW!Next, SW!KeepChild, SW!TrimFront, SW!TrimBack, SW!MarkDropped, SW!Return, SW!Descend
<1> QED
  BY <1>1, <1>2, <1>3


(* The search begins on a graph in which everything that was walked fits.  *)
LEMMA StartFits ==
  ASSUME FitInv, StartPath
  PROVE  FitInv' /\ ShareInv'
<1>1. /\ phase = "cut" /\ stack = <<>> /\ phase' = "path" /\ stack' = <<Root>>
      /\ todo' = kids /\ cp' = <<Root>>
      /\ UNCHANGED <<start, end, dur, parent, kids, called, lrc>>
  BY DEF StartPath, SW!Finished, graph, cutVars
<1>2. Windows!Inv /\ Root \in called
  BY <1>1 DEF FitInv
<1>3. /\ start \in [Nodes -> Nat] /\ end \in [Nodes -> Nat] /\ dur \in [Nodes -> Nat]
      /\ kids \in [Nodes -> SUBSET Nodes] /\ called \subseteq Nodes
  BY <1>2 DEF Windows!Inv, Windows!TypeOK
<1>4. /\ \A n \in Nodes : end[n] = start[n] + dur[n]
      /\ \A m, n \in Nodes : \A c \in kids[m] \cap kids[n] : m = n
  <2>1. /\ \A n \in Nodes : end[n] = start[n] + dur[n]
        /\ \A n \in Nodes, c \in Nodes : c \in kids[n] <=> parent[c] = n
    BY <1>2 DEF Windows!Inv, Windows!WindowsConsistent, Windows!LinksAgree
  <2> QED
    BY <2>1, <1>3
<1>5. \A n \in called : \A c \in kids[n] :
         c \in called /\ start[n] <= start[c] /\ end[c] <= end[n]
  <2>1. Windows!ChildrenFit
    BY <1>2, CutsAsAssumed, Windows!FittedWhenFinished
  <2> QED
    BY <2>1, <1>1 DEF Windows!ChildrenFit, Windows!Finished, Windows!Within
<1>6. Path' = {Root} /\ stack' \in Seq(Nodes)
  BY <1>1, NodesAssumption DEF Path
<1>7. FitInv'
  BY <1>1, <1>2, <1>3, <1>4, <1>5, <1>6 DEF FitInv
<1>8. lrc' = [n \in Nodes |-> NoNode]
  BY <1>1 DEF FitInv
<1>9. \A n \in Nodes : Chosen(n)' = {}
  <2>1. \A n \in Nodes : Root \notin kids[n]
    <3>1. \A n \in Nodes : Root \notin Windows!Own(n)
      BY <1>2 DEF Windows!Inv, Windows!OneParent
    <3> QED
      BY <3>1 DEF Windows!Own
  <2> QED
    BY <2>1, <1>1, <1>6 DEF Chosen
<1>10. ShareInv'
  BY <1>8, <1>9 DEF ShareInv
<1> QED
  BY <1>7, <1>10

(* Whatever happensBefore accepts overlaps the child picked last by less   *)
(* than the allowance.                                                     *)
LEMMA AcceptedOverlap ==
  ASSUME NEW p, NEW b, NEW l, happensBefore(p, b, l),
         end[b] \in Nat, start[l] \in Nat, dur[p] \in Nat
  PROVE  (end[b] - start[l]) * Allowance < dur[p]
<1>1. CASE end[b] < start[l]
  <2>1. end[b] - start[l] \in Int /\ end[b] - start[l] < 0
    BY <1>1
  <2>2. (end[b] - start[l]) * Allowance < 0
    BY <2>1, Products, AllowanceAssumption
  <2>3. (end[b] - start[l]) * Allowance \in Int
    BY AllowanceAssumption
  <2> QED
    BY <2>2, <2>3
<1>2. CASE ~(end[b] < start[l])
  BY <1>2 DEF happensBefore, SmallOverlap
<1> QED
  BY <1>1, <1>2

(* One more child: what it overlaps the one picked last by is added to     *)
(* what was counted twice already.                                         *)
LEMMA OneMoreOverlap ==
  ASSUME NEW g \in Int, NEW o \in Int, NEW k \in Nat \ {0}, NEW d \in Nat,
         g * Allowance <= (k - 1) * d, o * Allowance < d
  PROVE  (g + o) * Allowance < k * d
<1>1. (g + o) * Allowance = g * Allowance + o * Allowance
  BY AllowanceAssumption
<1>2. k * d = (k - 1) * d + d
  OBVIOUS
<1>3. g * Allowance \in Int /\ o * Allowance \in Int /\ (k - 1) * d \in Int
  BY AllowanceAssumption
<1> QED
  BY <1>1, <1>2, <1>3

(* A child put on the path below span n = cur.                             *)
LEMMA ExtendShares ==
  ASSUME LinksOK, PathOK, FitInv, ShareInv, phase = "path", phase' = "path",
         NEW c \in Nodes, IsNext(c), Extend(c), called' = called,
         lrc[cur] # NoNode => happensBefore(cur, c, lrc[cur])
  PROVE  FitInv' /\ ShareInv'
<1>0. stack \in Seq(Nodes) /\ Len(stack) \in Nat /\ cp \in Seq(Nodes) /\ stack # <<>>
  BY DEF LinksOK, PathOK, IsNext, Finished
<1>1. PICK n \in Nodes : n \in Path /\ n = cur /\ c \in todo[n]
  <2>1. Len(stack) \in 1..Len(stack)
    BY <1>0
  <2> QED
    BY <2>1, <1>0 DEF cur, PathOK, IsNext
<1> DEFINE C == Chosen(n)
           l == lrc[n]
<1>2. c \in kids[n] /\ c \notin Path
  BY <1>1 DEF PathOK
<1>3. Path' = Path \cup {c} /\ lrc' = [lrc EXCEPT ![n] = c]
      /\ UNCHANGED <<start, end, dur, kids>>
  BY <1>0, <1>1, ExtendPath DEF Extend, graph
<1>4. /\ start \in [Nodes -> Nat] /\ end \in [Nodes -> Nat] /\ dur \in [Nodes -> Nat]
      /\ kids \in [Nodes -> SUBSET Nodes] /\ lrc \in [Nodes -> Nodes \cup {NoNode}]
      /\ end[c] = start[c] + dur[c] /\ end[n] = start[n] + dur[n]
      /\ \A m, x \in Nodes : \A y \in kids[m] \cap kids[x] : m = x
  BY <1>1 DEF FitInv, ShareInv
<1>5. c \in called /\ end[c] <= end[n]
  BY <1>1, <1>2 DEF FitInv
<1>6. FitInv'
  <2>1. Path' \subseteq called
    BY <1>3, <1>5 DEF FitInv
  <2>2. /\ start' \in [Nodes -> Nat] /\ end' \in [Nodes -> Nat] /\ dur' \in [Nodes -> Nat]
        /\ \A m \in Nodes : end'[m] = start'[m] + dur'[m]
        /\ kids' \in [Nodes -> SUBSET Nodes]
        /\ \A m, x \in Nodes : \A y \in kids'[m] \cap kids'[x] : m = x
    BY <1>3, <1>4 DEF FitInv
  <2>3. /\ Root \in called' /\ called' \subseteq Nodes
        /\ \A m \in called' : \A y \in kids'[m] :
              y \in called' /\ start'[m] <= start'[y] /\ end'[y] <= end'[m]
    BY <1>3 DEF FitInv
  <2> QED
    BY <2>1, <2>2, <2>3 DEF FitInv
<1>7. lrc' \in [Nodes -> Nodes \cup {NoNode}] /\ lrc'[n] = c /\ c # NoNode
      /\ \A m \in Nodes \ {n} : lrc'[m] = lrc[m]
  BY <1>1, <1>3, <1>4, NodesAssumption
<1>8. Chosen(n)' = C \cup {c} /\ c \notin C /\ C \subseteq Nodes /\ IsFiniteSet(C)
  <2>1. Chosen(n)' = C \cup {c} /\ c \notin C /\ C \subseteq Nodes
    BY <1>1, <1>2, <1>3, <1>4 DEF Chosen
  <2> QED
    BY <2>1, FS_Subset, FiniteAssumption
<1>9. \A m \in Nodes \ {n} : Chosen(m)' = Chosen(m)
  <2> SUFFICES ASSUME NEW m \in Nodes \ {n} PROVE Chosen(m)' = Chosen(m)
    OBVIOUS
  <2>1. c \notin kids[m]
    BY <1>1, <1>2, <1>4
  <2> QED
    BY <2>1, <1>3 DEF Chosen
<1>10. /\ SumFunctionOnSet(dur, C) \in Int
       /\ SumFunctionOnSet(dur, C \cup {c}) = SumFunctionOnSet(dur, C) + dur[c]
  <2>1. \A x \in C \cup {c} : dur[x] \in Int
    BY <1>4, <1>8
  <2> HIDE DEF C
  <2> QED
    BY <2>1, <1>8, SumAdd
<1>11. Cardinality(C \cup {c}) = Cardinality(C) + 1 /\ Cardinality(C) \in Nat
  <2> HIDE DEF C
  <2> QED
    BY <1>8, FS_AddElement, FS_CardinalityType
<1> DEFINE g == SumFunctionOnSet(dur, C \cup {c}) - end[n] + start[c]
           k == Cardinality(C \cup {c})
<1>12. g * Allowance <= (k - 1) * dur[n] /\ (k > 1 => g * Allowance < (k - 1) * dur[n])
  <2>1. /\ end[c] \in Nat /\ start[c] \in Nat /\ dur[c] \in Nat /\ dur[n] \in Nat /\ end[n] \in Nat
        /\ Allowance \in Nat \ {0}
    BY <1>1, <1>4, AllowanceAssumption
  <2>2. CASE l = NoNode
    <3>1. C = {} /\ Cardinality({}) = 0
      BY <2>2, <1>1, FS_EmptySet DEF ShareInv
    <3>2. SumFunctionOnSet(dur, {}) = 0
      BY SumEmpty
    <3>3. k = 1 /\ SumFunctionOnSet(dur, C \cup {c}) = dur[c]
      <4>1. SumFunctionOnSet(dur, C) = 0 /\ Cardinality(C) = 0
        BY <3>1, <3>2
      <4> HIDE DEF C
      <4> QED
        BY <4>1, <1>10, <1>11, <2>1
    <3>4. g \in Int /\ g <= 0
      <4> HIDE DEF C, k
      <4> QED
        BY <3>3, <2>1, <1>4, <1>5
    <3> HIDE DEF g, k
    <3>5. g * Allowance <= 0 * Allowance
      BY <3>4, Products, AllowanceAssumption
    <3>6. (k - 1) * dur[n] = 0 /\ 0 * Allowance = 0 /\ ~(k > 1)
      BY <3>3, <2>1
    <3> QED
      BY <3>5, <3>6
  <2>3. CASE l # NoNode
    <3> DEFINE r == GivenAway(n)
               o == end[c] - start[l]
               j == Cardinality(C)
    <3>1. l \in C /\ l \in Nodes /\ start[l] \in Nat
      BY <2>3, <1>1, <1>4 DEF ShareInv
    <3>2. r * Allowance <= (j - 1) * dur[n]
      <4>1. OverlapsAllowed(n, Cardinality(C))
        BY <2>3, <1>1 DEF ShareInv
      <4> HIDE DEF C
      <4> QED
        BY <4>1 DEF OverlapsAllowed
    <3>3. o * Allowance < dur[n]
      <4>1. happensBefore(n, c, l)
        BY <2>3, <1>1
      <4> HIDE DEF l
      <4> QED
        BY <4>1, <3>1, <2>1, AcceptedOverlap
    <3>4. j \in Nat \ {0}
      <4>1. C # {}
        BY <3>1
      <4> HIDE DEF C
      <4> QED
        BY <4>1, <1>8, <1>11, FS_EmptySet
    <3>5. r = SumFunctionOnSet(dur, C) - end[n] + start[l]
      BY DEF GivenAway
    <3>6. r \in Int /\ o \in Int /\ g = r + o /\ k = j + 1 /\ k - 1 = j
      <4> HIDE DEF C, l, r
      <4> QED
        BY <3>1, <3>4, <3>5, <2>1, <1>4, <1>10, <1>11
    <3> HIDE DEF r, o, j, g, k
    <3>7. (r + o) * Allowance < j * dur[n]
      BY <3>2, <3>3, <3>4, <3>6, <2>1, OneMoreOverlap
    <3>8. g * Allowance < (k - 1) * dur[n]
      BY <3>6, <3>7
    <3>9. g * Allowance \in Int /\ (k - 1) * dur[n] \in Int
      BY <3>4, <3>6, <2>1
    <3> QED
      BY <3>8, <3>9
  <2> QED
    BY <2>2, <2>3
<1>13. ShareInv'
  <2> SUFFICES ASSUME NEW m \in Nodes
               PROVE  IF lrc'[m] = NoNode THEN Chosen(m)' = {}
                      ELSE lrc'[m] \in Chosen(m)'
                           /\ OverlapsAllowed(m, Cardinality(Chosen(m)))'
    BY <1>7 DEF ShareInv
  <2>1. CASE m = n
    <3>1. GivenAway(m)' = g
      BY <2>1, <1>3, <1>7, <1>8 DEF GivenAway
    <3>2. Cardinality(Chosen(m))' = k
      BY <2>1, <1>8
    <3> HIDE DEF g, k, C
    <3> QED
      BY <2>1, <3>1, <3>2, <1>3, <1>7, <1>8, <1>12 DEF OverlapsAllowed
  <2>2. CASE m # n
    <3>1. lrc'[m] = lrc[m] /\ Chosen(m)' = Chosen(m) /\ dur' = dur /\ end' = end /\ start' = start
      BY <2>2, <1>3, <1>7, <1>9
    <3>2. GivenAway(m)' = GivenAway(m)
      BY <3>1 DEF GivenAway
    <3> QED
      BY <3>1, <3>2 DEF ShareInv, OverlapsAllowed
  <2> QED
    BY <2>1, <2>2
<1> QED
  BY <1>6, <1>13

(* What FitInv and ShareInv speak about after the cutting stays.           *)
LEMMA SharesStay ==
  ASSUME FitInv, ShareInv, phase # "cut", phase' \in {"path", "spans", "done"},
         UNCHANGED <<graph, called, lrc, cp>>
  PROVE  FitInv' /\ ShareInv'
<1>1. UNCHANGED <<start, end, dur, kids, called, lrc, cp>>
  BY DEF graph
<1>2. Path' = Path
  BY <1>1 DEF Path
<1>3. FitInv'
  BY <1>1, <1>2 DEF FitInv
<1>4. \A n \in Nodes : Chosen(n)' = Chosen(n)
  BY <1>1, <1>2 DEF Chosen
<1>5. \A n \in Nodes : GivenAway(n)' = GivenAway(n)
  BY <1>1, <1>4 DEF GivenAway
<1>6. ASSUME NEW n \in Nodes
      PROVE  IF lrc'[n] = NoNode THEN Chosen(n)' = {}
             ELSE lrc'[n] \in Chosen(n)' /\ OverlapsAllowed(n, Cardinality(Chosen(n)))'
  <2>1. IF lrc[n] = NoNode THEN Chosen(n) = {}
        ELSE lrc[n] \in Chosen(n) /\ OverlapsAllowed(n, Cardinality(Chosen(n)))
    BY DEF ShareInv
  <2>2. /\ lrc'[n] = lrc[n] /\ Chosen(n)' = Chosen(n) /\ dur'[n] = dur[n]
        /\ GivenAway(n)' = GivenAway(n)
    BY <1>1, <1>4, <1>5
  <2>3. OverlapsAllowed(n, Cardinality(Chosen(n)))' <=> OverlapsAllowed(n, Cardinality(Chosen(n)))
    BY <2>2 DEF OverlapsAllowed
  <2> QED
    BY <2>1, <2>2, <2>3
<1> QED
  BY <1>1, <1>3, <1>6 DEF ShareInv

(* A step of the search.                                                   *)
LEMMA SearchShares ==
  ASSUME LinksOK, PathOK, FitInv, ShareInv, phase = "path", phase' = "path", Next,
         called' = called
  PROVE  FitInv' /\ ShareInv'
<1>1. ASSUME NEW c \in Nodes, TakeLatest(c) PROVE FitInv' /\ ShareInv'
  BY <1>1, ExtendShares DEF TakeLatest
<1>2. ASSUME NEW c \in Nodes, TakeEarlier(c) PROVE FitInv' /\ ShareInv'
  BY <1>2, ExtendShares DEF TakeEarlier
<1>3. ASSUME UNCHANGED <<start, end, dur, parent, kids, lrc, cp>> PROVE FitInv' /\ ShareInv'
  BY <1>3, SharesStay DEF graph
<1>4. ASSUME NEW c \in Nodes, SkipOverlapping(c)
      PROVE  UNCHANGED <<start, end, dur, parent, kids, lrc, cp>>
  BY <1>4 DEF SkipOverlapping
<1>5. Return => UNCHANGED <<start, end, dur, parent, kids, lrc, cp>>
  BY DEF Return
<1> QED
  BY <1>1, <1>2, <1>3, <1>4, <1>5 DEF Next

(* Every step of the pipeline keeps what the spans have given away in      *)
(* bounds.                                                                 *)
LEMMA SharesStep ==
  ASSUME ProfileInv, FitInv, ShareInv, [ProcessNext]_processVars
  PROVE  FitInv' /\ ShareInv'
<1>0. LinksOK /\ PathOK
  BY DEF ProfileInv
<1>1. CASE CutSpans
  <2>1. phase = "cut" /\ phase' = "cut" /\ SW!Next /\ lrc' = lrc
    BY <1>1 DEF CutSpans
  <2>2. Windows!Inv /\ Root \in called /\ lrc = [n \in Nodes |-> NoNode]
    BY <2>1 DEF FitInv
  <2>3. Windows!Inv' /\ Root \in called'
    BY <2>1, <2>2, CutFits
  <2> QED
    BY <2>1, <2>2, <2>3 DEF FitInv, ShareInv
<1>2. CASE StartPath
  BY <1>2, StartFits
<1>3. CASE FindPath
  <2>1. phase = "path" /\ phase' = "path" /\ Next /\ called' = called
    BY <1>3 DEF FindPath, cutVars
  <2> QED
    BY <1>0, <2>1, SearchShares
<1>4. CASE StartMetrics \/ AddSpan \/ Finish
  <2>1. /\ phase \in {"path", "spans"} /\ phase' \in {"spans", "done"}
        /\ UNCHANGED pathVars
    BY <1>4 DEF StartMetrics, AddSpan, Finish
  <2> QED
    BY <2>1, SharesStay DEF pathVars, cutVars
<1>5. CASE UNCHANGED processVars
  <2>1. UNCHANGED <<pathVars, phase>>
    BY <1>5 DEF processVars
  <2>2. CASE phase = "cut"
    <3>1. Windows!vars' = Windows!vars /\ UNCHANGED <<called, lrc, phase>>
      BY <2>1 DEF Windows!vars, pathVars, cutVars, graph
    <3>2. Windows!Inv /\ [Windows!Next]_(Windows!vars) => Windows!Inv'
      BY CutsAsAssumed, Windows!NextInv
    <3>3. Windows!Inv'
      BY <2>2, <3>1, <3>2 DEF FitInv
    <3> QED
      BY <2>2, <3>1, <3>3 DEF FitInv, ShareInv
  <2>3. CASE phase # "cut"
    <3>1. phase' \in {"path", "spans", "done"}
      BY <2>1, <2>3 DEF FitInv
    <3>2. UNCHANGED <<graph, called, lrc, cp>>
      BY <2>1 DEF pathVars, cutVars
    <3> QED
      BY <2>3, <3>1, <3>2, SharesStay
  <2> QED
    BY <2>2, <2>3
<1> QED
  BY <1>1, <1>2, <1>3, <1>4, <1>5 DEF ProcessNext

(* What is left of a span, and how many fractions of it its children on    *)
(* the path may overlap by.                                                *)
LEMMA LeftOver ==
  ASSUME NEW s \in Int, NEW g \in Int, NEW k \in Int, NEW d \in Nat, -s <= g,
         g * Allowance <= (k - 1) * d, k > 1 => g * Allowance < (k - 1) * d
  PROVE  /\ k = 1 => s >= 0
         /\ k > 1 => s * Allowance > -((k - 1) * d)
<1>1. (-s) * Allowance <= g * Allowance /\ (-s) * Allowance = -(s * Allowance)
  <2>1. -s \in Int
    OBVIOUS
  <2>2. (-s) * Allowance <= g * Allowance
    BY <2>1, Products, AllowanceAssumption
  <2>3. (-s) * Allowance = -(s * Allowance)
    BY AllowanceAssumption
  <2> QED
    BY <2>2, <2>3
<1>2. s * Allowance \in Int /\ g * Allowance \in Int /\ (k - 1) * d \in Int
  BY AllowanceAssumption
<1>3. ASSUME k = 1 PROVE s >= 0
  <2>1. (k - 1) * d = 0
    BY <1>3
  <2>2. s * Allowance >= 0
    BY <1>1, <1>2, <2>1
  <2>3. s < 0 => s * Allowance < 0
    BY Products, AllowanceAssumption
  <2> QED
    BY <1>2, <2>2, <2>3
<1>4. ASSUME k > 1 PROVE s * Allowance > -((k - 1) * d)
  <2>1. g * Allowance < (k - 1) * d
    BY <1>4
  <2> QED
    BY <1>1, <1>2, <2>1
<1> QED
  BY <1>3, <1>4

(* A span's exclusive time is negative only if several of its children are *)
(* on the path, and then by less than the allowance for each but one: cut  *)
(* windows and the comparison of each child with the one picked before it  *)
(* bound what all of them together take from their parent.                 *)
THEOREM SelfTimesAreBounded == ProcessSpec => []SelfTimeBounded
<1>1. ProfileInv /\ FitInv /\ ShareInv => SelfTimeBounded
  <2> SUFFICES ASSUME ProfileInv, FitInv, ShareInv, Done, NEW n \in Path
               PROVE  LET k == Cardinality(Chosen(n)) IN
                      /\ k <= 1 => selfTime[n] >= 0
                      /\ k > 1 => selfTime[n] * Allowance > -((k - 1) * dur[n])
    BY DEF SelfTimeBounded
  <2> DEFINE C == Chosen(n)
             k == Cardinality(C)
             s == selfTime[n]
             l == lrc[n]
  <2>1. /\ n \in Nodes /\ n \in called
        /\ start \in [Nodes -> Nat] /\ end \in [Nodes -> Nat] /\ dur \in [Nodes -> Nat]
        /\ end[n] = start[n] + dur[n] /\ kids \in [Nodes -> SUBSET Nodes]
        /\ \A c \in kids[n] : start[n] <= start[c]
    BY DEF FitInv, Done
  <2>2. /\ IF l = NoNode THEN C = {} ELSE l \in C /\ OverlapsAllowed(n, k)
        /\ C \subseteq kids[n] /\ C \subseteq Nodes
    BY <2>1 DEF ShareInv, Done, Chosen
  <2>3. IsFiniteSet(C) /\ \A x \in C : dur[x] \in Int
    BY <2>1, <2>2, FS_Subset, FiniteAssumption
  <2>4. s = dur[n] - SumFunctionOnSet(dur, C)
    BY <2>1, SumIs DEF selfTime
  <2> HIDE DEF C, s
  <2>5. SumFunctionOnSet(dur, C) \in Int /\ k \in Nat /\ dur[n] \in Nat /\ s \in Int
    <3>1. SumFunctionOnSet(dur, C) \in Int /\ k \in Nat
      BY <2>3, SumInt, FS_CardinalityType
    <3> QED
      BY <3>1, <2>1, <2>4
  <2>6. CASE l = NoNode
    <3>1. C = {}
      BY <2>2, <2>6
    <3>2. k = 0 /\ SumFunctionOnSet(dur, C) = 0
      BY <3>1, SumEmpty, FS_EmptySet
    <3>3. s >= 0
      BY <3>2, <2>4, <2>5
    <3> QED
      BY <3>2, <3>3 DEF C, s
  <2>7. CASE l # NoNode
    <3> DEFINE g == SumFunctionOnSet(dur, C) - end[n] + start[l]
    <3>1. l \in C /\ start[n] <= start[l] /\ start[l] \in Nat
      BY <2>1, <2>2, <2>7
    <3>2. g * Allowance <= (k - 1) * dur[n] /\ (k > 1 => g * Allowance < (k - 1) * dur[n])
      BY <2>2, <2>7 DEF OverlapsAllowed, GivenAway, C
    <3>3. g \in Int /\ -s <= g
      <4> HIDE DEF k, l
      <4> QED
        BY <2>1, <2>4, <2>5, <3>1
    <3>4. k # 0
      <4>1. C # {}
        BY <3>1
      <4> QED
        BY <4>1, <2>3, FS_EmptySet
    <3> HIDE DEF g, k
    <3>5. (k = 1 => s >= 0) /\ (k > 1 => s * Allowance > -((k - 1) * dur[n]))
      <4> DEFINE d == dur[n]
      <4>1. k \in Int /\ d \in Nat
        BY <2>5
      <4>2. g * Allowance <= (k - 1) * d /\ (k > 1 => g * Allowance < (k - 1) * d)
        BY <3>2
      <4> HIDE DEF d
      <4>3. (k = 1 => s >= 0) /\ (k > 1 => s * Allowance > -((k - 1) * d))
        BY <4>1, <4>2, <2>5, <3>3, LeftOver
      <4> QED
        BY <4>3 DEF d
    <3>6. (k <= 1 => s >= 0) /\ (k > 1 => s * Allowance > -((k - 1) * dur[n]))
      BY <3>4, <3>5, <2>5
    <3> QED
      BY <3>6 DEF k, C, s
  <2> QED
    BY <2>6, <2>7
<1>2. ProcessInit => ProfileInv /\ FitInv /\ ShareInv
  BY ProfileStart, FitStart
<1>3. (ProfileInv /\ FitInv /\ ShareInv) /\ [ProcessNext]_processVars
         => (ProfileInv /\ FitInv /\ ShareInv)'
  BY ProfileStep, SharesStep
<1> QED
  BY <1>1, <1>2, <1>3, PTL DEF ProcessSpec

-----------------------------------------------------------------------------
(* What was shown of a path found in a fitted graph holds in the pipeline, *)
(* for any tree of spans with any windows: the graph need not be fitted as *)
(* a whole, since spans that were dropped are never cut, but the spans the *)
(* search can reach are.                                                   *)
PathInv == phase # "cut" => OverlapInv

(* After the cutting the search begins on a graph it may begin on.         *)
LEMMA StartSearch ==
  ASSUME LinksOK, FitInv, StartPath
  PROVE  GraphRead' /\ Walk(Root)' /\ Backward!Init'
<1>1. /\ phase = "cut" /\ stack' = <<Root>> /\ todo' = kids /\ cp' = <<Root>>
      /\ start' = start /\ end' = end /\ dur' = dur /\ parent' = parent /\ kids' = kids
      /\ lrc' = lrc
  BY DEF StartPath, graph
<1>2. Windows!Inv /\ lrc = [n \in Nodes |-> NoNode]
  BY <1>1 DEF FitInv
<1>3. /\ start \in [Nodes -> Nat] /\ end \in [Nodes -> Nat] /\ dur \in [Nodes -> Nat]
      /\ parent \in [Nodes -> Nodes \cup {NoNode}] /\ kids \in [Nodes -> SUBSET Nodes]
      /\ parent[Root] = NoNode
  BY <1>2 DEF Windows!Inv, Windows!TypeOK, LinksOK, Hanging
<1>4. /\ \A n \in Nodes : end[n] = start[n] + dur[n]
      /\ \A n, c \in Nodes : c \in kids[n] <=> parent[c] = n
  BY <1>2 DEF Windows!Inv, Windows!WindowsConsistent, Windows!LinksAgree
<1>5. GraphRead'
  BY <1>1, <1>3, <1>4 DEF GraphRead, GraphOK
<1>6. Walk(Root)'
  BY <1>1, <1>2 DEF Walk
<1>7. Backward!Init'
  BY <1>1 DEF Backward!Init, Path
<1> QED
  BY <1>5, <1>6, <1>7

(* A step after the cutting is one of the search or leaves the path alone. *)
LEMMA SearchOrNothing ==
  ASSUME [ProcessNext]_processVars, phase \in {"path", "spans", "done"}
  PROVE  [Next]_vars
<1>1. CutSpans \/ StartPath => FALSE
  BY DEF CutSpans, StartPath
<1>2. FindPath => Next
  BY DEF FindPath
<1>3. StartMetrics \/ AddSpan \/ Finish \/ UNCHANGED processVars => UNCHANGED vars
  BY DEF StartMetrics, AddSpan, Finish, processVars, pathVars, graph, vars
<1> QED
  BY <1>1, <1>2, <1>3 DEF ProcessNext

(* The invariant of the search holds in the pipeline once it has begun.    *)
LEMMA PathStep ==
  ASSUME ProfileInv, FitInv, PathInv, [ProcessNext]_processVars,
         (GraphRead /\ Walk(Root) => OverlapInv)'
  PROVE  PathInv'
<1>1. CASE phase # "cut"
  <2>1. phase \in {"path", "spans", "done"}
    BY <1>1 DEF FitInv
  <2> QED
    BY <1>1, <2>1, SearchOrNothing, NextOverlaps DEF PathInv
<1>2. CASE phase = "cut" /\ StartPath
  <2>1. LinksOK
    BY DEF ProfileInv
  <2> QED
    BY <1>2, <2>1, StartSearch DEF PathInv
<1>3. CASE phase = "cut" /\ ~ StartPath
  <2>1. CutSpans \/ UNCHANGED processVars
    BY <1>3 DEF ProcessNext, FindPath, StartMetrics, AddSpan, Finish
  <2>2. phase' = "cut"
    BY <1>3, <2>1 DEF CutSpans, processVars
  <2> QED
    BY <2>2 DEF PathInv
<1> QED
  BY <1>1, <1>2, <1>3

(* All that the proofs of the pipeline know.                               *)
LEMMA PipelineInv == ProcessSpec => [](ProfileInv /\ FitInv /\ PathInv)
<1>1. ProcessInit => ProfileInv /\ FitInv /\ ShareInv /\ PathInv
  <2>1. ProcessInit => PathInv
    BY DEF ProcessInit, PathInv
  <2> QED
    BY <2>1, ProfileStart, FitStart
<1>2. (GraphRead /\ Walk(Root) => OverlapInv)'
  BY WalkOverlaps, PTL
<1>3. (ProfileInv /\ FitInv /\ ShareInv /\ PathInv) /\ [ProcessNext]_processVars
         => (ProfileInv /\ FitInv /\ ShareInv /\ PathInv)'
  BY <1>2, ProfileStep, SharesStep, PathStep
<1> QED
  BY <1>1, <1>3, PTL DEF ProcessSpec

(* Whatever the file contained: as long as the path is used it is          *)
(* connected, goes backwards, misses nothing that fits, overlaps by less   *)
(* than the allowance and never by three, and no division was by zero.     *)
THEOREM PathIsRightInPipeline ==
  ProcessSpec => [](phase # "cut" =>
      /\ PathConnected /\ SiblingsBackwards /\ NoZeroDivision
      /\ OverlapBounded /\ NoTripleOverlap /\ NoGapMissed)
<1>1. FitInv /\ phase # "cut" => PathFits
  BY DEF FitInv, PathFits
<1>2. OverlapInv => Inv /\ PathConnected /\ SiblingsBackwards
  BY DEF OverlapInv, Inv
<1>3. FitInv /\ PathInv /\ phase # "cut" =>
        /\ PathConnected /\ SiblingsBackwards /\ NoZeroDivision
        /\ OverlapBounded /\ NoTripleOverlap /\ NoGapMissed
  BY <1>1, <1>2, FittedDivision, BoundedInPlace, NoThirdInPlace, NothingMissedAtEnd DEF PathInv
<1> QED
  BY <1>3, PipelineInv, PTL

(* The pipeline contains BackwardPath: when the cutting is over it is in   *)
(* an initial state of it, and each later step picks a span that may be    *)
(* picked, or nothing.                                                     *)
THEOREM PipelinePicksBackwards ==
  ProcessSpec => [][/\ StartPath => Backward!Init'
                    /\ phase # "cut" => [Backward!Next]_(Backward!vars)]_processVars
<1>1. ProfileInv /\ FitInv /\ PathInv /\ [ProcessNext]_processVars =>
         [/\ StartPath => Backward!Init'
          /\ phase # "cut" => [Backward!Next]_(Backward!vars)]_processVars
  <2> SUFFICES ASSUME ProfileInv, FitInv, PathInv, [ProcessNext]_processVars
               PROVE  /\ StartPath => Backward!Init'
                      /\ phase # "cut" => [Backward!Next]_(Backward!vars)
    OBVIOUS
  <2>1. StartPath => Backward!Init'
    BY StartSearch DEF ProfileInv
  <2>2. ASSUME phase # "cut" PROVE [Backward!Next]_(Backward!vars)
    <3>1. phase \in {"path", "spans", "done"} /\ Inv
      BY <2>2 DEF FitInv, PathInv, OverlapInv
    <3> QED
      BY <3>1, SearchOrNothing, StepPicks
  <2> QED
    BY <2>1, <2>2
<1> QED
  BY <1>1, PipelineInv, PTL DEF ProcessSpec

-----------------------------------------------------------------------------
(* How far the pipeline has come, and what is left of the pass it is in.   *)
PassesLeft == IF phase = "cut" THEN 3 ELSE IF phase = "path" THEN 2
              ELSE IF phase = "spans" THEN 1 ELSE 0
LeftOfPass == IF phase = "cut" THEN Windows!WorkLeft
              ELSE IF phase = "path" THEN WorkLeft
              ELSE IF phase = "spans" THEN left ELSE 0

(* A step of a pass leaves less of it to do; any other ends the pass.      *)
LEMMA LessToProcess ==
  ASSUME ProfileInv, FitInv, PathInv, ProcessNext
  PROVE  \/ PassesLeft' < PassesLeft
         \/ PassesLeft' = PassesLeft /\ LeftOfPass' < LeftOfPass
<1>1. CASE CutSpans
  <2>1. Windows!Inv /\ Windows!Next /\ phase = "cut" /\ phase' = "cut"
    BY <1>1, CutIsWalk DEF CutSpans, FitInv
  <2>2. Windows!WorkLeft' < Windows!WorkLeft
    BY <2>1, CutsAsAssumed, Windows!LessLeft
  <2> QED
    BY <2>1, <2>2 DEF PassesLeft, LeftOfPass
<1>2. CASE FindPath
  <2>1. Inv /\ Next /\ phase = "path" /\ phase' = "path"
    BY <1>2 DEF FindPath, PathInv, OverlapInv
  <2>2. WorkLeft' < WorkLeft
    BY <2>1, LessLeft
  <2> QED
    BY <2>1, <2>2 DEF PassesLeft, LeftOfPass
<1>3. CASE AddSpan
  <2>1. phase = "spans" /\ phase' = "spans" /\ left' = left - 1 /\ left \in Nat
    BY <1>3 DEF AddSpan, ProfileInv, MetricsInv
  <2> QED
    BY <2>1 DEF PassesLeft, LeftOfPass
<1>4. CASE StartPath \/ StartMetrics \/ Finish
  BY <1>4 DEF StartPath, StartMetrics, Finish, PassesLeft
<1> QED
  BY <1>1, <1>2, <1>3, <1>4 DEF ProcessNext

(* What is left is a number, and a recursion that has not ended goes on.   *)
PassGoesOn ==
    /\ LeftOfPass \in Nat
    /\ phase = "cut" => Windows!CanGoOn
    /\ phase = "path" => CanGoOn

(* It is so in every state of the pipeline.                                *)
LEMMA PassesGoOn == ProfileInv /\ FitInv /\ PathInv => PassGoesOn
<1> SUFFICES ASSUME ProfileInv, FitInv, PathInv PROVE PassGoesOn
  OBVIOUS
<1>1. ASSUME phase = "cut" PROVE Windows!WorkLeft \in Nat /\ Windows!CanGoOn
  <2>1. Windows!Inv
    BY <1>1 DEF FitInv
  <2> QED
    BY <2>1, CutsAsAssumed, Windows!WorkIsNumber, Windows!GoesOn DEF Windows!WorkLeft
<1>2. ASSUME phase = "path" PROVE WorkLeft \in Nat /\ CanGoOn
  <2>1. Inv
    BY <1>2 DEF PathInv, OverlapInv
  <2> QED
    BY <2>1, WorkIsNumber, GoesOn DEF WorkLeft
<1>3. phase = "spans" => left \in Nat
  BY DEF ProfileInv, MetricsInv
<1> QED
  BY <1>1, <1>2, <1>3 DEF LeftOfPass, PassGoesOn

(* Every trace is processed to the end: a step leaves less of the pass it  *)
(* belongs to or ends the pass, what is left is always a number, and until *)
(* the two recursions have ended there is a next step in them.             *)
THEOREM PipelineRunsOut ==
  ProcessSpec =>
    /\ []PassGoesOn
    /\ [][\/ PassesLeft' < PassesLeft
          \/ PassesLeft' = PassesLeft /\ LeftOfPass' < LeftOfPass]_processVars
<1>1. ProcessSpec => []PassGoesOn
  BY PassesGoOn, PipelineInv, PTL
<1>2. ProfileInv /\ FitInv /\ PathInv /\ [ProcessNext]_processVars =>
        [\/ PassesLeft' < PassesLeft
         \/ PassesLeft' = PassesLeft /\ LeftOfPass' < LeftOfPass]_processVars
  BY LessToProcess
<1>3. ProcessSpec => [][\/ PassesLeft' < PassesLeft
                        \/ PassesLeft' = PassesLeft /\ LeftOfPass' < LeftOfPass]_processVars
  BY <1>2, PipelineInv, PTL DEF ProcessSpec
<1> QED
  BY <1>1, <1>3
=============================================================================
