-------------------------- MODULE MCSpanMetrics --------------------------
(* Four spans with two operations below a short or long root: children *)
(* that leave their parent's window on either side or lie outside, call    *)
(* paths shared by several spans, operations that call themselves,         *)
(* children that overlap by less and by more than the allowance of a       *)
(* third, the earlier one longer or shorter. Operations are                *)
(* interchangeable.                                                        *)
EXTENDS SpanMetrics, TLC
MCNodes == 1..4
MCStarts == {0, 2}
MCDurations == {1, 3, 4, 5}
MCSymmetry == Permutations(Ops)
MCInit == ProcessInit /\ start[Root] = 0 /\ dur[Root] \in {1, 5}
MCSpec == MCInit /\ [][ProcessNext]_processVars
=============================================================================
