-------------------------- MODULE MCCriticalPath --------------------------
(* Four spans: three siblings, overlapping by less or by more than the     *)
(* allowance of a half, or chains and smaller families.                    *)
EXTENDS CriticalPath
MCNodes == 1..4
MCStarts == 0..2
MCDurations == {0, 2, 3, 4}
=============================================================================
