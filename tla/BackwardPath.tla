---------------------------- MODULE BackwardPath ----------------------------
(***************************************************************************)
(* What a critical path is, without the recursion that finds it: a set of  *)
(* spans that grows from the root. Below a span that is picked, the child  *)
(* that ends last is picked first, and every other one starts and ends     *)
(* before its siblings picked so far. CriticalPath implements this.        *)
(***************************************************************************)
EXTENDS Integers

CONSTANTS Root

VARIABLES start, end, kids, picked

graph == <<start, end, kids>>
vars == <<start, end, kids, picked>>

Init == picked = {Root}

EndsLast(p, c) == \A d \in kids[p] : end[d] <= end[c]
Earlier(c, d) == start[c] < start[d] /\ end[c] < end[d]

Pick(p, c) ==
    /\ c \in kids[p] \ picked
    /\ kids[p] \cap picked = {} => EndsLast(p, c)
    /\ \A d \in kids[p] \cap picked : Earlier(c, d)
    /\ picked' = picked \cup {c}
    /\ UNCHANGED graph

Next == \E p \in picked : \E c \in kids[p] : Pick(p, c)

Spec == Init /\ [][Next]_vars
=============================================================================
