---------------------------- MODULE MCTraceGraph ----------------------------
(* Up to four spans under three identifiers, so that one may be repeated,  *)
(* refer to itself, to another, to a span that is missing, or be part of a *)
(* reference cycle.                                                        *)
EXTENDS TraceGraph, TLC
CONSTANTS a, b, c
MCSpanIds == {a, b, c}
MCRef == [type : {"CHILD_OF", "FOLLOWS_FROM"}, span : MCSpanIds]
MCChildOf == [type : {"CHILD_OF"}, span : MCSpanIds]
MCRefLists == {<<>>} \cup {<<r>> : r \in MCRef} \cup {<<r, s>> : r \in MCChildOf, s \in MCRef}
=============================================================================
