-------------------------- MODULE MCCalendarIndex --------------------------
(***************************************************************************)
(* Instances of CalendarIndex for TLC.  Page sizes are those of the code,  *)
(* 16 and 32 days; the day numbers lie on both sides of page boundaries    *)
(* and of day 0 (2000-01-01), around which division truncates.             *)
(***************************************************************************)
EXTENDS CalendarIndex

BoundaryDay == {-64, -16, -15, 0, 15, 16, 31, 32, 64}
AskedDay    == {-65, -64, -33, -32, -16, -1, 0, 15, 16, 17, 31, 32, 63, 64, 80, 96}

\* Small steps, and the two ends of the int32 of the instance.
Steps   == {-127, -2, 0, 1, 2, 127}

\* What may lie behind the last entry: the zeros of fresh memory, or anything.
Zeros    == {0}
Anything == {-128, 0, 127}
=============================================================================
