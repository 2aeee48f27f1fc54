--------------------------- MODULE MCSpanWindows ---------------------------
(* Three spans, the root in the middle of the file order: a child and its  *)
(* sibling, a grandchild, or a reference cycle beside the root.            *)
EXTENDS SpanWindows
MCNodes == 1..3
MCTimes == 0..3
=============================================================================
