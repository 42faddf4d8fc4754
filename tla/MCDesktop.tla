------------------------------ MODULE MCDesktop ------------------------------
(* Small instances of Desktop for TLC.  Reloads and clicks are slots.        *)
EXTENDS DesktopProperties, TLC

\* A long sleep and a clock set back by more than an interval.
SleepAndSetBack == {WakeGap + 1, -Every}

\* Reloads differ by their names only.
ReloadsAlike == Permutations(Reloads)
=============================================================================
