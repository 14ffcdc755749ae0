--------------------------- MODULE MCSharedCache ---------------------------
(***************************************************************************)
(* Instances of SharedCache for TLC.                                       *)
(***************************************************************************)
EXTENDS SharedCache, TLC

CONSTANTS a, b, c   \* calendar names

\* Day numbers stand for dates.  Version 1 has the calendars 1 and 3, and a gap
\* between them; in version 2 calendar 1 is gone, a is the name of calendar 2,
\* and calendar 3 has another name and other dates.
Week    == <<10, 17>>
Quarter == <<10, 40>>

TwoVersions ==
  << [valid |-> TRUE, min |-> 1, max |-> 3,
      name |-> (1 :> a @@ 3 :> b), dates |-> (1 :> Week @@ 3 :> Quarter)],
     [valid |-> TRUE, min |-> 2, max |-> 3,
      name |-> (2 :> a @@ 3 :> c), dates |-> (2 :> Week @@ 3 :> <<11>>)] >>

\* Version 2 has two calendars of one name, so that its fill fails after the
\* first of them; in version 3 the tables are gone.
FailingVersions ==
  << TwoVersions[1],
     [valid |-> TRUE, min |-> 1, max |-> 2,
      name |-> (1 :> c @@ 2 :> c), dates |-> (1 :> Week @@ 2 :> Quarter)],
     [valid |-> FALSE, min |-> 0, max |-> 0, name |-> << >>, dates |-> << >>] >>

\* Version 2 has no calendar (Q1 returns NULLs, read as 0); version 3 is
\* seen by a session whose own Q1 returns a minimum above the maximum.
EmptyVersions ==
  << TwoVersions[1],
     [valid |-> TRUE, min |-> 0, max |-> 0, name |-> << >>, dates |-> << >>],
     [valid |-> TRUE, min |-> 2, max |-> 1, name |-> << >>, dates |-> << >>] >>

\* One calendar, which version 2 renames.
RenamedVersions ==
  << [valid |-> TRUE, min |-> 1, max |-> 1, name |-> (1 :> a), dates |-> (1 :> Week)],
     [valid |-> TRUE, min |-> 1, max |-> 1, name |-> (1 :> c), dates |-> (1 :> <<11>>)] >>
=============================================================================
