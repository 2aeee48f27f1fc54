------------------------- MODULE SpanWindowsProofs -------------------------
(***************************************************************************)
(* The walk of SpanWindows leaves a tree whose children fit into their     *)
(* parents, for every trace: every set of spans, every start and duration, *)
(* every shape of references below the root.                               *)
(***************************************************************************)
EXTENDS SpanWindows, FiniteSums, SequenceTheorems

(* The spans a call on n may look at: the children n has, and those it had *)
(* before the call on n deleted them.                                      *)
Own(n) == kids[n] \cup removeList[n]

OnStack(n) == \E i \in 1..Len(stack) : stack[i] = n

(* No span is a child of two others, and the root is nobody's child.       *)
OneParent ==
    /\ \A m, n \in Nodes : m # n => Own(m) \cap Own(n) = {}
    /\ \A n \in Nodes : Root \notin Own(n)

(* A node whose call has not been entered is as parseNode left it.         *)
Fresh ==
    \A n \in Nodes \ called :
        /\ todo[n] = kids[n] /\ removeList[n] = {}
        /\ dur[n] = origDur[n]

(* The loop of each call works on children that are still to be walked,    *)
(* and deletes children that never will be.                                *)
ToWalk ==
    \A n \in Nodes :
        /\ todo[n] \subseteq kids[n]
        /\ todo[n] \cap removeList[n] = {}
        /\ (todo[n] \cup removeList[n]) \cap called = {}

(* A child of a walked node is waiting, or marked, or walked and fitting.  *)
Fate ==
    \A n \in called : \A c \in kids[n] :
        c \in todo[n] \/ c \in removeList[n] \/ (c \in called /\ Within(c, n))

(* A call that has returned has left no child waiting or marked.           *)
Returned ==
    \A n \in called : OnStack(n) \/ (todo[n] = {} /\ kids[n] \cap removeList[n] = {})

StackCalled == \A i \in 1..Len(stack) : stack[i] \in called

Inv == /\ TypeOK /\ WindowsConsistent /\ LinksAgree
       /\ OneParent /\ Fresh /\ ToWalk /\ Fate /\ Returned /\ StackCalled

-----------------------------------------------------------------------------
(* The innermost call is the call on a node that has been entered.         *)
LEMMA CurCalled == Inv /\ ~Finished => cur \in called /\ cur \in Nodes /\ Len(stack) \in Nat \ {0}
  BY DEF Inv, TypeOK, Finished, StackCalled, cur

(* The graph parseNode builds satisfies the invariant.                     *)
LEMMA InitInv == Init => Inv
<1> SUFFICES ASSUME Init PROVE Inv
  OBVIOUS
<1> USE NodesAssumption, TimesAssumption
<1>1. TypeOK /\ WindowsConsistent
  <2>1. start \in [Nodes -> Nat] /\ dur \in [Nodes -> Nat]
    BY DEF Init
  <2>2. end \in [Nodes -> Nat] /\ WindowsConsistent
    BY <2>1 DEF Init, WindowsConsistent
  <2>3. parent \in [Nodes -> Nodes \cup {NoNode}] /\ kids \in [Nodes -> SUBSET Nodes]
    BY DEF Init
  <2>4. stack \in Seq(Nodes) /\ called \subseteq Nodes
    BY DEF Init
  <2>5. todo \in [Nodes -> SUBSET Nodes] /\ removeList \in [Nodes -> SUBSET Nodes]
    BY <2>3 DEF Init
  <2> QED
    BY <2>1, <2>2, <2>3, <2>4, <2>5 DEF Init, TypeOK
<1>2. LinksAgree /\ OneParent
  BY DEF Init, LinksAgree, OneParent, Own
<1>3. Fresh /\ ToWalk /\ Fate
  BY DEF Init, Fresh, ToWalk, Fate
<1>4. Returned /\ StackCalled
  BY DEF Init, Returned, StackCalled, OnStack
<1> QED
  BY <1>1, <1>2, <1>3, <1>4 DEF Inv

(* The stack after a call on c: c is its new top.                          *)
LEMMA Pushed ==
  ASSUME NEW c \in Nodes, stack \in Seq(Nodes), stack' = Append(stack, c)
  PROVE  /\ stack' \in Seq(Nodes)
         /\ Len(stack') = Len(stack) + 1
         /\ \A i \in 1..Len(stack) : stack'[i] = stack[i]
         /\ stack'[Len(stack) + 1] = c
  OBVIOUS

(* The stack after a return: its top is gone.                              *)
LEMMA Popped ==
  ASSUME stack \in Seq(Nodes), stack # <<>>, stack' = SubSeq(stack, 1, Len(stack) - 1)
  PROVE  /\ stack' \in Seq(Nodes)
         /\ Len(stack') = Len(stack) - 1
         /\ \A i \in 1..(Len(stack) - 1) : stack'[i] = stack[i]
<1>1. Len(stack) \in Nat \ {0}
  OBVIOUS
<1>2. \A i \in 1..(Len(stack) - 1) : stack[i] \in Nodes
  BY <1>1
<1> DEFINE m == Len(stack) - 1
<1>3. m \in Int /\ 1 \in Int
  BY <1>1
<1>4. /\ SubSeq(stack, 1, m) \in Seq(Nodes)
      /\ Len(SubSeq(stack, 1, m)) = IF 1 <= m THEN m - 1 + 1 ELSE 0
      /\ \A i \in 1..(m - 1 + 1) : SubSeq(stack, 1, m)[i] = stack[1 + i - 1]
  BY <1>2, <1>3, SubSeqProperties
<1>5. m - 1 + 1 = m /\ \A i \in 1..m : 1 + i - 1 = i
  BY <1>3
<1> QED
  BY <1>1, <1>4, <1>5

(* The three cases that walk on into a child: the child's window may have  *)
(* been cut before, but now lies in the window of its parent.              *)
LEMMA DescendInv ==
  ASSUME Inv, NEW c \in Nodes, IsNext(c), Descend(c), TypeOK', WindowsConsistent',
         \A n \in Nodes \ {c} : start'[n] = start[n] /\ end'[n] = end[n] /\ dur'[n] = dur[n],
         start'[cur] <= start'[c] /\ end'[c] <= end'[cur]
  PROVE  Inv'
<1>1. /\ cur \in called /\ cur \in Nodes /\ c \in todo[cur] /\ Len(stack) \in Nat \ {0}
      /\ c \in kids[cur] /\ c \notin called
  BY CurCalled DEF IsNext, Inv, ToWalk, TypeOK
<1>2. TypeOK /\ OneParent /\ Fresh /\ ToWalk /\ Fate /\ Returned /\ StackCalled
  BY DEF Inv
<1>3. /\ todo' = [todo EXCEPT ![cur] = @ \ {c}]
      /\ stack' = Append(stack, c) /\ called' = called \cup {c}
      /\ UNCHANGED <<origDur, parent, kids, removeList, totalDrop>>
  BY DEF Descend
<1>4. /\ todo'[cur] = todo[cur] \ {c}
      /\ \A n \in Nodes \ {cur} : todo'[n] = todo[n]
  BY <1>1, <1>2, <1>3 DEF TypeOK
<1>5. /\ Len(stack') = Len(stack) + 1
      /\ \A i \in 1..Len(stack) : stack'[i] = stack[i]
      /\ stack'[Len(stack) + 1] = c
  BY <1>2, <1>3, Pushed DEF TypeOK
<1>6. \A n \in Nodes \ {cur} : c \notin kids[n] /\ c \notin removeList[n]
  BY <1>1, <1>2 DEF OneParent, Own
<1>7. c # cur
  BY <1>1
<1>8. LinksAgree' /\ OneParent'
  BY <1>2, <1>3 DEF Inv, LinksAgree, OneParent, Own
<1>9. Fresh'
  BY <1>1, <1>2, <1>3, <1>4 DEF Fresh
<1>10. ToWalk'
  BY <1>1, <1>2, <1>3, <1>4, <1>6 DEF ToWalk
<1>11. Fate'
  <2> SUFFICES ASSUME NEW n \in called', NEW d \in kids[n]
               PROVE  \/ d \in todo'[n] \/ d \in removeList[n]
                      \/ d \in called' /\ start'[n] <= start'[d] /\ end'[d] <= end'[n]
    BY <1>3 DEF Fate, Within
  <2>0. n \in Nodes /\ d \in Nodes
    BY <1>1, <1>2, <1>3 DEF TypeOK
  <2>1. CASE n = c
    BY <2>0, <2>1, <1>1, <1>2, <1>4, <1>7 DEF Fresh
  <2>2. CASE n # c /\ d = c
    BY <2>0, <2>2, <1>1, <1>3, <1>6
  <2>3. CASE n # c /\ d # c
    <3>1. n \in called /\ start'[n] = start[n] /\ end'[n] = end[n] /\ start'[d] = start[d] /\ end'[d] = end[d]
      BY <2>0, <2>3, <1>3
    <3>2. d \in todo[n] \/ d \in removeList[n] \/ (d \in called /\ Within(d, n))
      BY <3>1, <1>2 DEF Fate
    <3> QED
      BY <2>0, <2>3, <3>1, <3>2, <1>3, <1>4 DEF Within
  <2> QED
    BY <2>1, <2>2, <2>3
<1>12. Returned'
  <2> SUFFICES ASSUME NEW n \in called'
               PROVE  OnStack(n)' \/ (todo'[n] = {} /\ kids[n] \cap removeList[n] = {})
    BY <1>3 DEF Returned
  <2>1. CASE n = c
    BY <2>1, <1>1, <1>5 DEF OnStack
  <2>2. CASE n = cur
    BY <2>2, <1>1, <1>5 DEF OnStack, cur
  <2>3. CASE n # c /\ n # cur
    <3>1. n \in called /\ n \in Nodes /\ todo'[n] = todo[n]
      BY <2>3, <1>2, <1>3, <1>4 DEF TypeOK
    <3>2. CASE OnStack(n)
      BY <3>2, <1>1, <1>5 DEF OnStack
    <3>3. CASE ~OnStack(n)
      BY <3>1, <3>3, <1>2 DEF Returned
    <3> QED
      BY <3>2, <3>3
  <2> QED
    BY <2>1, <2>2, <2>3
<1>13. StackCalled'
  BY <1>1, <1>2, <1>3, <1>5 DEF StackCalled
<1> QED
  BY <1>8, <1>9, <1>10, <1>11, <1>12, <1>13 DEF Inv

(* Cutting a child, or keeping it, and walking into it: the three cases    *)
(* meet the conditions of DescendInv.                                      *)
LEMMA WalkOnInv ==
  ASSUME Inv, NEW c \in Nodes, KeepChild(c) \/ TrimFront(c) \/ TrimBack(c)
  PROVE  /\ Inv'
         /\ c \notin called
         /\ \A n \in Nodes \ {c} : start'[n] = start[n] /\ end'[n] = end[n] /\ dur'[n] = dur[n]
         /\ start'[c] >= start[c] /\ end'[c] <= end[c]
         /\ dur'[c] <= dur[c] /\ totalShrink' = totalShrink + (dur[c] - dur'[c])
         /\ shrinkCounter' = shrinkCounter + (IF dur'[c] < dur[c] THEN 1 ELSE 0)
<1>1. IsNext(c) /\ Descend(c)
  BY DEF KeepChild, TrimFront, TrimBack
<1>2. /\ cur \in called /\ cur \in Nodes /\ c \in todo[cur]
      /\ c \notin called /\ c # cur
  BY <1>1, CurCalled DEF IsNext, Inv, ToWalk, TypeOK
<1>3. TypeOK /\ WindowsConsistent
  BY DEF Inv
<1>4. /\ start[c] \in Nat /\ end[c] \in Nat /\ dur[c] \in Nat
      /\ start[cur] \in Nat /\ end[cur] \in Nat
      /\ end[c] = start[c] + dur[c]
  BY <1>2, <1>3 DEF TypeOK, WindowsConsistent
<1>5. Append(stack, c) \in Seq(Nodes)
  BY <1>3 DEF TypeOK
<1>6. /\ start' \in [Nodes -> Nat] /\ end' \in [Nodes -> Nat] /\ dur' \in [Nodes -> Nat]
      /\ totalShrink' \in Nat /\ shrinkCounter' \in Nat
      /\ \A n \in Nodes \ {c} : start'[n] = start[n] /\ end'[n] = end[n] /\ dur'[n] = dur[n]
      /\ start'[c] >= start[c] /\ end'[c] <= end[c]
      /\ start'[cur] <= start'[c] /\ end'[c] <= end'[cur]
      /\ end'[c] = start'[c] + dur'[c]
      /\ dur'[c] <= dur[c] /\ totalShrink' = totalShrink + (dur[c] - dur'[c])
      /\ shrinkCounter' = shrinkCounter + (IF dur'[c] < dur[c] THEN 1 ELSE 0)
  <2>1. CASE KeepChild(c)
    BY <2>1, <1>2, <1>3, <1>4 DEF KeepChild, Within, TypeOK
  <2>2. CASE TrimFront(c)
    <3>1. /\ start' = [start EXCEPT ![c] = start[cur]]
          /\ dur' = [dur EXCEPT ![c] = @ - (start[cur] - start[c])]
          /\ end' = end
          /\ totalShrink' = totalShrink + (start[cur] - start[c])
          /\ shrinkCounter' = shrinkCounter + 1
      BY <2>2 DEF TrimFront, AddShrink
    <3>2. start[c] < start[cur] /\ end[c] <= end[cur] /\ end[c] > start[cur]
      BY <2>2 DEF TrimFront, EntersEarly
    <3>3. start[cur] - start[c] \in Nat /\ dur[c] - (start[cur] - start[c]) \in Nat
      BY <3>2, <1>4
    <3>4. start' \in [Nodes -> Nat] /\ start'[c] = start[cur]
      BY <3>1, <1>2, <1>3, <1>4 DEF TypeOK
    <3>5. dur' \in [Nodes -> Nat] /\ dur'[c] = dur[c] - (start[cur] - start[c])
      BY <3>1, <3>3, <1>3 DEF TypeOK
    <3>6. totalShrink' \in Nat /\ shrinkCounter' \in Nat
      <4>1. totalShrink \in Nat /\ shrinkCounter \in Nat
        BY <1>3 DEF TypeOK
      <4> QED
        BY <4>1, <3>1, <3>3
    <3>7. \A n \in Nodes \ {c} : start'[n] = start[n] /\ end'[n] = end[n] /\ dur'[n] = dur[n]
      BY <3>1, <1>3 DEF TypeOK
    <3>8. start'[cur] = start[cur] /\ end'[cur] = end[cur] /\ end'[c] = end[c]
      BY <3>1, <3>7, <1>2
    <3>9. end' \in [Nodes -> Nat]
      BY <3>1, <1>3 DEF TypeOK
    <3>10. /\ dur'[c] < dur[c] /\ totalShrink' = totalShrink + (dur[c] - dur'[c])
           /\ shrinkCounter' = shrinkCounter + (IF dur'[c] < dur[c] THEN 1 ELSE 0)
      BY <3>1, <3>2, <3>3, <3>5, <1>4
    <3> QED
      BY <3>2, <3>4, <3>5, <3>6, <3>7, <3>8, <3>9, <3>10, <1>4
  <2>3. CASE TrimBack(c)
    <3>1. /\ start' = start
          /\ dur' = [dur EXCEPT ![c] = @ - (end[c] - end[cur])]
          /\ end' = [end EXCEPT ![c] = @ - (end[c] - end[cur])]
          /\ totalShrink' = totalShrink + (end[c] - end[cur])
          /\ shrinkCounter' = shrinkCounter + 1
      BY <2>3 DEF TrimBack, AddShrink
    <3>2. start[cur] <= start[c] /\ end[c] > end[cur] /\ start[c] < end[cur]
      BY <2>3 DEF TrimBack, LeavesLate
    <3>3. /\ end[c] - end[cur] \in Nat /\ dur[c] - (end[c] - end[cur]) \in Nat
          /\ end[c] - (end[c] - end[cur]) = end[cur]
      BY <3>2, <1>4
    <3>4. end' \in [Nodes -> Nat] /\ end'[c] = end[cur]
      BY <3>1, <3>3, <1>3, <1>4 DEF TypeOK
    <3>5. dur' \in [Nodes -> Nat] /\ dur'[c] = dur[c] - (end[c] - end[cur])
      BY <3>1, <3>3, <1>3 DEF TypeOK
    <3>6. totalShrink' \in Nat /\ shrinkCounter' \in Nat
      <4>1. totalShrink \in Nat /\ shrinkCounter \in Nat
        BY <1>3 DEF TypeOK
      <4> QED
        BY <4>1, <3>1, <3>3
    <3>7. \A n \in Nodes \ {c} : start'[n] = start[n] /\ end'[n] = end[n] /\ dur'[n] = dur[n]
      BY <3>1, <1>3 DEF TypeOK
    <3>8. start'[cur] = start[cur] /\ end'[cur] = end[cur] /\ start'[c] = start[c]
      BY <3>1, <3>7, <1>2
    <3>9. start' \in [Nodes -> Nat]
      BY <3>1, <1>3 DEF TypeOK
    <3>10. /\ dur'[c] < dur[c] /\ totalShrink' = totalShrink + (dur[c] - dur'[c])
           /\ shrinkCounter' = shrinkCounter + (IF dur'[c] < dur[c] THEN 1 ELSE 0)
      BY <3>1, <3>2, <3>3, <3>5, <1>4
    <3> QED
      BY <3>2, <3>4, <3>5, <3>6, <3>7, <3>8, <3>9, <3>10, <1>4
  <2> QED
    BY <2>1, <2>2, <2>3
<1>7. TypeOK'
  <2>1. /\ todo' \in [Nodes -> SUBSET Nodes] /\ stack' \in Seq(Nodes) /\ called' \subseteq Nodes
        /\ UNCHANGED <<origDur, parent, kids, removeList, totalDrop>>
    BY <1>1, <1>3, <1>5 DEF Descend, TypeOK
  <2> QED
    BY <1>3, <1>6, <2>1 DEF TypeOK
<1>8. WindowsConsistent'
  BY <1>3, <1>6 DEF WindowsConsistent
<1>9. Inv'
  BY <1>1, <1>6, <1>7, <1>8, DescendInv
<1> QED
  BY <1>2, <1>6, <1>9

(* A child marked for deletion is no longer waiting, and never walked.     *)
LEMMA MarkDroppedInv ==
  ASSUME Inv, NEW c \in Nodes, MarkDropped(c)
  PROVE  Inv'
<1>1. /\ cur \in called /\ cur \in Nodes /\ c \in todo[cur] /\ Len(stack) \in Nat \ {0}
      /\ c \in kids[cur] /\ c \notin called
  BY CurCalled DEF MarkDropped, IsNext, Inv, ToWalk, TypeOK
<1>2. /\ TypeOK /\ OneParent /\ Fresh /\ ToWalk /\ Fate /\ Returned /\ StackCalled
      /\ LinksAgree /\ WindowsConsistent
  BY DEF Inv
<1>3. /\ removeList' = [removeList EXCEPT ![cur] = @ \cup {c}]
      /\ todo' = [todo EXCEPT ![cur] = @ \ {c}]
      /\ UNCHANGED <<start, end, dur, origDur, parent, kids, stack, called,
                     totalShrink, shrinkCounter, totalDrop>>
  BY DEF MarkDropped
<1>4. /\ todo'[cur] = todo[cur] \ {c} /\ removeList'[cur] = removeList[cur] \cup {c}
      /\ \A n \in Nodes \ {cur} : todo'[n] = todo[n] /\ removeList'[n] = removeList[n]
  BY <1>1, <1>2, <1>3 DEF TypeOK
<1>5. TypeOK' /\ WindowsConsistent' /\ LinksAgree'
  <2>1. todo' \in [Nodes -> SUBSET Nodes] /\ removeList' \in [Nodes -> SUBSET Nodes]
    BY <1>1, <1>2, <1>3 DEF TypeOK
  <2>2. TypeOK'
    BY <2>1, <1>2, <1>3 DEF TypeOK
  <2> QED
    BY <2>2, <1>2, <1>3 DEF WindowsConsistent, LinksAgree
<1>6. OneParent'
  <2>1. \A n \in Nodes : Own(n)' = Own(n)
    BY <1>1, <1>3, <1>4 DEF Own
  <2> QED
    BY <1>2, <2>1 DEF OneParent
<1>7. Fresh' /\ ToWalk'
  BY <1>1, <1>2, <1>3, <1>4 DEF Fresh, ToWalk
<1>8. Fate'
  BY <1>1, <1>2, <1>3, <1>4 DEF Fate, Within, TypeOK
<1>9. Returned'
  <2> SUFFICES ASSUME NEW n \in called, ~OnStack(n)
               PROVE  todo'[n] = {} /\ kids[n] \cap removeList'[n] = {}
    BY <1>3 DEF Returned, OnStack
  <2>1. n \in Nodes /\ n # cur
    BY <1>1, <1>2 DEF TypeOK, OnStack, cur
  <2> QED
    BY <2>1, <1>2, <1>4 DEF Returned
<1>10. StackCalled'
  BY <1>2, <1>3 DEF StackCalled
<1> QED
  BY <1>5, <1>6, <1>7, <1>8, <1>9, <1>10 DEF Inv

(* A returning call deletes its marked children from both sides.           *)
LEMMA ReturnInv ==
  ASSUME Inv, Return
  PROVE  Inv'
<1>1. cur \in called /\ cur \in Nodes /\ Len(stack) \in Nat \ {0} /\ todo[cur] = {}
  BY CurCalled DEF Return
<1>2. /\ TypeOK /\ OneParent /\ Fresh /\ ToWalk /\ Fate /\ Returned /\ StackCalled
      /\ LinksAgree /\ WindowsConsistent
  BY DEF Inv
<1>3. /\ parent' = [n \in Nodes |-> IF n \in removeList[cur] THEN NoNode ELSE parent[n]]
      /\ kids' = [kids EXCEPT ![cur] = @ \ removeList[cur]]
      /\ stack' = SubSeq(stack, 1, Len(stack) - 1)
      /\ UNCHANGED <<start, end, dur, origDur, called, todo, removeList,
                     totalShrink, shrinkCounter, totalDrop>>
  BY DEF Return
<1>4. /\ kids'[cur] = kids[cur] \ removeList[cur]
      /\ \A n \in Nodes \ {cur} : kids'[n] = kids[n]
  BY <1>1, <1>2, <1>3 DEF TypeOK
<1>5. /\ stack' \in Seq(Nodes) /\ Len(stack') = Len(stack) - 1
      /\ \A i \in 1..(Len(stack) - 1) : stack'[i] = stack[i]
  BY <1>1, <1>2, <1>3, Popped DEF TypeOK
<1>6. TypeOK' /\ WindowsConsistent'
  <2>1. kids' \in [Nodes -> SUBSET Nodes] /\ parent' \in [Nodes -> Nodes \cup {NoNode}]
    BY <1>1, <1>2, <1>3 DEF TypeOK
  <2> QED
    BY <2>1, <1>2, <1>3, <1>5 DEF TypeOK, WindowsConsistent
<1>7. LinksAgree'
  <2> SUFFICES ASSUME NEW n \in Nodes, NEW c \in Nodes
               PROVE  c \in kids'[n] <=> parent'[c] = n
    BY DEF LinksAgree
  <2>1. c \in kids[n] <=> parent[c] = n
    BY <1>2 DEF LinksAgree
  <2>2. n # NoNode
    BY NodesAssumption
  <2>3. CASE c \in removeList[cur]
    <3>1. \A m \in Nodes \ {cur} : c \notin kids[m]
      BY <2>3, <1>1, <1>2 DEF OneParent, Own
    <3> QED
      BY <2>2, <2>3, <3>1, <1>3, <1>4
  <2>4. CASE c \notin removeList[cur]
    BY <2>1, <2>4, <1>3, <1>4
  <2> QED
    BY <2>3, <2>4
<1>8. OneParent'
  <2>1. \A n \in Nodes : Own(n)' = Own(n)
    BY <1>3, <1>4 DEF Own
  <2> QED
    BY <1>2, <2>1 DEF OneParent
<1>9. Fresh' /\ ToWalk'
  BY <1>1, <1>2, <1>3, <1>4 DEF Fresh, ToWalk
<1>10. Fate'
  BY <1>1, <1>2, <1>3, <1>4 DEF Fate, Within, TypeOK
<1>11. Returned'
  <2> SUFFICES ASSUME NEW n \in called, ~OnStack(n)'
               PROVE  todo[n] = {} /\ kids'[n] \cap removeList[n] = {}
    BY <1>3 DEF Returned
  <2>1. CASE n = cur
    BY <2>1, <1>1, <1>4
  <2>2. CASE n # cur
    <3>1. n \in Nodes /\ ~OnStack(n)
      <4>1. \A i \in 1..(Len(stack) - 1) : stack[i] # n
        BY <1>5 DEF OnStack
      <4>2. stack[Len(stack)] # n
        BY <2>2 DEF cur
      <4> QED
        <5>1. \A i \in 1..Len(stack) : i \in 1..(Len(stack) - 1) \/ i = Len(stack)
          BY <1>1
        <5>2. n \in Nodes
          BY <1>2 DEF TypeOK
        <5> QED
          BY <4>1, <4>2, <5>1, <5>2 DEF OnStack
    <3> QED
      BY <2>2, <3>1, <1>2, <1>4 DEF Returned
  <2> QED
    BY <2>1, <2>2
<1>12. StackCalled'
  BY <1>1, <1>2, <1>3, <1>5 DEF StackCalled
<1> QED
  BY <1>6, <1>7, <1>8, <1>9, <1>10, <1>11, <1>12 DEF Inv

(* Every step keeps the invariant.                                         *)
LEMMA NextInv == Inv /\ [Next]_vars => Inv'
<1> SUFFICES ASSUME Inv, [Next]_vars PROVE Inv'
  OBVIOUS
<1>1. ASSUME NEW c \in Nodes, KeepChild(c) \/ TrimFront(c) \/ TrimBack(c) PROVE Inv'
  BY <1>1, WalkOnInv
<1>2. ASSUME NEW c \in Nodes, MarkDropped(c) PROVE Inv'
  BY <1>2, MarkDroppedInv
<1>3. CASE Return
  BY <1>3, ReturnInv
<1>4. CASE UNCHANGED vars
  BY <1>4 DEF vars, Inv, TypeOK, WindowsConsistent, LinksAgree, OneParent, Own, Fresh,
              ToWalk, Fate, Within, Returned, OnStack, StackCalled
<1> QED
  BY <1>1, <1>2, <1>3, <1>4 DEF Next

(* The invariant holds throughout every walk.                              *)
THEOREM InvHolds == Spec => []Inv
<1>1. Inv /\ [Next]_vars => Inv'
  BY NextInv
<1> QED
  BY InitInv, <1>1, PTL DEF Spec

-----------------------------------------------------------------------------
(* Every span keeps a start, an end and a duration that are natural        *)
(* numbers: no cut makes a duration negative.                              *)
THEOREM TypeCorrect == Spec => []TypeOK
<1>1. Inv => TypeOK
  BY DEF Inv
<1> QED
  BY InvHolds, <1>1, PTL

(* Start, end and duration describe one window at every moment.            *)
THEOREM WindowsStayConsistent == Spec => []WindowsConsistent
<1>1. Inv => WindowsConsistent
  BY DEF Inv
<1> QED
  BY InvHolds, <1>1, PTL

(* Parent and children links agree at every moment.                        *)
THEOREM LinksStayTwoSided == Spec => []LinksAgree
<1>1. Inv => LinksAgree
  BY DEF Inv
<1> QED
  BY InvHolds, <1>1, PTL

(* A call that has returned has left only children that were walked.      *)
LEMMA FittedWhenFinished == Inv => ChildrenFit
<1> SUFFICES ASSUME Inv, Finished, NEW n \in called, NEW c \in kids[n]
             PROVE  c \in called /\ Within(c, n)
  BY DEF ChildrenFit
<1>1. ~OnStack(n)
  BY DEF Finished, OnStack
<1>2. todo[n] = {} /\ kids[n] \cap removeList[n] = {}
  BY <1>1 DEF Inv, Returned
<1> QED
  BY <1>2 DEF Inv, Fate

(* Once the walk is over every remaining child of a walked span has been   *)
(* walked and fits its parent, which computeCriticalPath assumes.          *)
THEOREM WalkLeavesFittedTree == Spec => []ChildrenFit
  BY InvHolds, FittedWhenFinished, PTL

(* The window of a node whose call was entered never moves again, so the   *)
(* local copies parentStart and parentEnd stay right.                      *)
THEOREM EnteredWindowsFrozen == Spec => CalledWindowsFrozen
<1>1. Inv /\ [Next]_vars => [\A n \in called : start'[n] = start[n] /\ end'[n] = end[n]]_vars
  <2> SUFFICES ASSUME Inv, Next, NEW n \in called
               PROVE  start'[n] = start[n] /\ end'[n] = end[n]
    OBVIOUS
  <2>0. n \in Nodes
    BY DEF Inv, TypeOK
  <2>1. ASSUME NEW c \in Nodes, KeepChild(c) \/ TrimFront(c) \/ TrimBack(c)
        PROVE  start'[n] = start[n] /\ end'[n] = end[n]
    BY <2>0, <2>1, WalkOnInv
  <2>2. ASSUME NEW c \in Nodes, MarkDropped(c) PROVE start' = start /\ end' = end
    BY <2>2 DEF MarkDropped
  <2>3. CASE Return
    BY <2>3 DEF Return
  <2> QED
    BY <2>1, <2>2, <2>3 DEF Next
<1> QED
  BY InvHolds, <1>1, PTL DEF Spec, CalledWindowsFrozen

-----------------------------------------------------------------------------
Shrunk == [n \in Nodes |-> origDur[n] - dur[n]]
Cut == {n \in Nodes : dur[n] < origDur[n]}

(* Walking on into a child adds what the child lost to both counters: the  *)
(* child has not been cut before, and no other duration changes.           *)
LEMMA WalkOnCounts ==
  ASSUME Inv, ShrinkAccounted, NEW c \in Nodes, KeepChild(c) \/ TrimFront(c) \/ TrimBack(c)
  PROVE  ShrinkAccounted'
<1>1. /\ Inv' /\ c \notin called /\ origDur' = origDur
      /\ \A n \in Nodes \ {c} : dur'[n] = dur[n]
      /\ dur'[c] <= dur[c] /\ totalShrink' = totalShrink + (dur[c] - dur'[c])
      /\ shrinkCounter' = shrinkCounter + (IF dur'[c] < dur[c] THEN 1 ELSE 0)
  BY WalkOnInv DEF KeepChild, TrimFront, TrimBack, Descend
<1>2. /\ dur \in [Nodes -> Nat] /\ dur' \in [Nodes -> Nat] /\ origDur \in [Nodes -> Nat]
      /\ dur[c] = origDur[c]
  BY <1>1 DEF Inv, TypeOK, Fresh
<1>3. IsFiniteSet(Nodes) /\ IsFiniteSet(Cut)
  BY NodesAssumption, FS_Subset DEF Cut
<1>4. totalShrink' = SumFunctionOnSet(Shrunk', Nodes)
  <2>1. /\ \A n \in Nodes : Shrunk[n] \in Int
        /\ \A n \in Nodes : Shrunk'[n] \in Int
        /\ \A n \in Nodes \ {c} : Shrunk'[n] = Shrunk[n]
        /\ Shrunk[c] = 0 /\ Shrunk'[c] = dur[c] - dur'[c]
    BY <1>1, <1>2 DEF Shrunk
  <2>2. SumFunctionOnSet(Shrunk', Nodes) = SumFunctionOnSet(Shrunk, Nodes) + Shrunk'[c] - Shrunk[c]
    BY <1>3, <2>1, SumChange
  <2>3. totalShrink = SumFunctionOnSet(Shrunk, Nodes) /\ totalShrink \in Nat
    BY DEF ShrinkAccounted, SumFunction, Shrunk, Inv, TypeOK
  <2>4. dur[c] \in Nat /\ dur'[c] \in Nat
    BY <1>2
  <2> QED
    BY <1>1, <2>1, <2>2, <2>3, <2>4
<1>5. shrinkCounter' = Cardinality(Cut')
  <2>1. shrinkCounter = Cardinality(Cut) /\ c \notin Cut
    BY <1>2 DEF ShrinkAccounted, Cut
  <2>2. CASE dur'[c] < dur[c]
    <3>1. Cut' = Cut \cup {c}
      BY <1>1, <1>2, <2>2 DEF Cut
    <3> QED
      BY <1>1, <1>3, <2>1, <2>2, <3>1, FS_AddElement
  <2>3. CASE ~(dur'[c] < dur[c])
    <3>1. Cut' = Cut
      BY <1>1, <1>2, <2>3 DEF Cut
    <3>2. shrinkCounter \in Nat
      BY DEF Inv, TypeOK
    <3> QED
      BY <1>1, <2>1, <2>3, <3>1, <3>2
  <2> QED
    BY <2>2, <2>3
<1> QED
  BY <1>4, <1>5 DEF ShrinkAccounted, SumFunction, Shrunk, Cut

(* totalShrink and shrinkCounter account for every cut of the walk, and    *)
(* for nothing else: no span is cut twice, and no cut is lost.             *)
THEOREM ShrinkIsAccounted == Spec => []ShrinkAccounted
<1>1. Init => ShrinkAccounted
  <2> SUFFICES ASSUME Init PROVE ShrinkAccounted
    OBVIOUS
  <2>1. dur \in [Nodes -> Nat] /\ origDur = dur
    BY TimesAssumption DEF Init
  <2>2. \A n \in Nodes : Shrunk[n] = 0
    BY <2>1 DEF Shrunk
  <2>3. SumFunctionOnSet(Shrunk, Nodes) = 0
    BY <2>2, NodesAssumption, SumZero
  <2>4. Cut = {}
    BY <2>1 DEF Cut
  <2> QED
    BY <2>3, <2>4, FS_EmptySet DEF Init, ShrinkAccounted, SumFunction, Shrunk, Cut
<1>2. Inv /\ ShrinkAccounted /\ [Next]_vars => ShrinkAccounted'
  <2> SUFFICES ASSUME Inv, ShrinkAccounted, [Next]_vars PROVE ShrinkAccounted'
    OBVIOUS
  <2>1. ASSUME NEW c \in Nodes, KeepChild(c) \/ TrimFront(c) \/ TrimBack(c)
        PROVE  ShrinkAccounted'
    BY <2>1, WalkOnCounts
  <2>2. ASSUME UNCHANGED <<dur, origDur, totalShrink, shrinkCounter>> PROVE ShrinkAccounted'
    BY <2>2 DEF ShrinkAccounted
  <2>3. ASSUME NEW c \in Nodes, MarkDropped(c) PROVE ShrinkAccounted'
    BY <2>2, <2>3 DEF MarkDropped
  <2>4. CASE Return
    BY <2>2, <2>4 DEF Return
  <2>5. CASE UNCHANGED vars
    BY <2>2, <2>5 DEF vars
  <2> QED
    BY <2>1, <2>3, <2>4, <2>5 DEF Next
<1> QED
  BY InvHolds, <1>1, <1>2, PTL DEF Spec

-----------------------------------------------------------------------------
(* What is left of the recursion: each waiting child will be passed over,  *)
(* or called and returned from; each call in progress will return.         *)
Waiting == {c \in Nodes : \E n \in Nodes : c \in todo[n]}
WorkLeft == 2 * Cardinality(Waiting) + Len(stack)

(* There is something to do as long as a call is in progress: its loop has *)
(* ended, or has a next child.                                             *)
CanGoOn == ~Finished => todo[cur] = {} \/ \E c \in Nodes : IsNext(c)

(* What is left is a number.                                               *)
LEMMA WorkIsNumber ==
  ASSUME Inv
  PROVE  IsFiniteSet(Waiting) /\ Cardinality(Waiting) \in Nat /\ Len(stack) \in Nat
<1>1. IsFiniteSet(Waiting)
  BY NodesAssumption, FS_Subset DEF Waiting
<1> QED
  BY <1>1, FS_CardinalityType DEF Inv, TypeOK

(* Dealing with a child takes it out of every loop, since it is the child  *)
(* of one span only.                                                       *)
LEMMA OneLessWaiting ==
  ASSUME Inv, NEW c \in Nodes, IsNext(c), todo' = [todo EXCEPT ![cur] = @ \ {c}]
  PROVE  /\ Cardinality(Waiting) \in Nat \ {0}
         /\ Cardinality(Waiting') = Cardinality(Waiting) - 1
<1>1. cur \in Nodes /\ c \in todo[cur] /\ todo \in [Nodes -> SUBSET Nodes]
  BY CurCalled DEF IsNext, Inv, TypeOK
<1>2. \A n \in Nodes \ {cur} : c \notin todo[n]
  BY <1>1 DEF Inv, ToWalk, OneParent, Own
<1>3. c \in Waiting
  BY <1>1 DEF Waiting
<1>4. Waiting' = Waiting \ {c}
  BY <1>1, <1>2 DEF Waiting
<1>5. Cardinality(Waiting) # 0
  BY <1>3, WorkIsNumber, FS_EmptySet
<1> QED
  BY <1>3, <1>4, <1>5, WorkIsNumber, FS_RemoveElement

(* The children of a call come in the order of their positions: if any is  *)
(* waiting, one is next.                                                   *)
LEMMA GoesOn == Inv => CanGoOn
<1> SUFFICES ASSUME Inv, ~Finished, todo[cur] # {} PROVE \E c \in Nodes : IsNext(c)
  BY DEF CanGoOn
<1> DEFINE R == {p \in Nat \X Nat : p[1] <= p[2]}
           S == todo[cur]
<1>1. S \in SUBSET Nodes /\ S # {}
  BY CurCalled DEF Inv, TypeOK
<1>2. IsFiniteSet(S) /\ S \subseteq Nat
  BY <1>1, NodesAssumption, FS_Subset
<1>3. /\ \A x, y \in S : x # y => <<x, y>> \in R \/ <<y, x>> \in R
      /\ \A x, y, z \in S : <<x, y>> \in R /\ <<y, z>> \in R => <<x, z>> \in R
  BY <1>2
<1>4. PICK c \in S : \A d \in S \ {c} : <<c, d>> \in R
  <2> HIDE DEF S, R
  <2> QED
    BY <1>1, <1>2, <1>3, FirstOfSet
<1>5. \A d \in S : c <= d
  <2>1. c \in Nat
    BY <1>2
  <2> SUFFICES ASSUME NEW d \in S, d # c PROVE c <= d
    BY <2>1
  <2>2. <<c, d>> \in R
    BY <1>4
  <2> QED
    BY <2>2
<1> QED
  BY <1>1, <1>5 DEF IsNext

(* Every step of the walk leaves less to do.                               *)
LEMMA LessLeft == Inv /\ Next => WorkLeft' < WorkLeft
<1> SUFFICES ASSUME Inv, Next PROVE WorkLeft' < WorkLeft
  OBVIOUS
<1>0. Cardinality(Waiting) \in Nat /\ Len(stack) \in Nat /\ stack \in Seq(Nodes)
  BY WorkIsNumber DEF Inv, TypeOK
<1>1. ASSUME NEW c \in Nodes, KeepChild(c) \/ TrimFront(c) \/ TrimBack(c)
      PROVE  WorkLeft' < WorkLeft
  <2>1. /\ IsNext(c) /\ stack' = Append(stack, c)
        /\ todo' = [todo EXCEPT ![cur] = @ \ {c}]
    BY <1>1 DEF KeepChild, TrimFront, TrimBack, Descend
  <2>2. Len(stack') = Len(stack) + 1
    BY <1>0, <2>1, Pushed
  <2>3. /\ Cardinality(Waiting) \in Nat \ {0}
        /\ Cardinality(Waiting') = Cardinality(Waiting) - 1
    BY <2>1, OneLessWaiting
  <2> QED
    BY <1>0, <2>2, <2>3 DEF WorkLeft
<1>2. ASSUME NEW c \in Nodes, MarkDropped(c) PROVE WorkLeft' < WorkLeft
  <2>1. IsNext(c) /\ stack' = stack /\ todo' = [todo EXCEPT ![cur] = @ \ {c}]
    BY <1>2 DEF MarkDropped
  <2>2. /\ Cardinality(Waiting) \in Nat \ {0}
        /\ Cardinality(Waiting') = Cardinality(Waiting) - 1
    BY <2>1, OneLessWaiting
  <2> QED
    BY <1>0, <2>1, <2>2 DEF WorkLeft
<1>3. CASE Return
  <2>1. stack # <<>> /\ stack' = SubSeq(stack, 1, Len(stack) - 1) /\ todo' = todo
    BY <1>3 DEF Return, Finished
  <2>2. Len(stack') = Len(stack) - 1
    BY <1>0, <2>1, Popped
  <2>3. Waiting' = Waiting
    BY <2>1 DEF Waiting
  <2> QED
    BY <1>0, <2>2, <2>3 DEF WorkLeft
<1> QED
  BY <1>1, <1>2, <1>3 DEF Next

(* Every step of the walk, whatever the references of the trace, leaves    *)
(* less to do, so that no walk goes on for ever; and as long as a call is  *)
(* in progress there is a step to take, so that none stops early.          *)
THEOREM WalkRunsOut ==
  Spec => [](WorkLeft \in Nat /\ CanGoOn) /\ [][WorkLeft' < WorkLeft]_vars
<1>1. Inv => WorkLeft \in Nat
  BY WorkIsNumber DEF WorkLeft
<1>2. Inv /\ [Next]_vars => [WorkLeft' < WorkLeft]_vars
  BY LessLeft
<1> QED
  BY InvHolds, <1>1, <1>2, GoesOn, PTL DEF Spec
=============================================================================
