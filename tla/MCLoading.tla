----------------------------- MODULE MCLoading -----------------------------
(***************************************************************************)
(* Instances of Loading for TLC.                                           *)
(***************************************************************************)
EXTENDS Loading, TLC

CONSTANTS
  d1, d2, d3,   \* the default texts
  r1,           \* a Q1 of a narrower range of ids
  r2,           \* a Q2 that leaves a calendar out
  u3,           \* a Q3 without ORDER BY
  v,            \* a query that validates the schema: one row of one column
  a, b          \* calendar names

Defaults == [q1 |-> d1, q2 |-> d2, q3 |-> d3]

\* Each text at its own place, and the validation at that of the validation.
Sensible == { <<"q1", r1>>, <<"q2", r2>>, <<"q3", u3>>, <<"q3", d3>>, <<"q2", d2>>,
              <<"schema_validation", v>>, <<"schema_validation", d3>> }

Answers(q1, q2, q3, n1, n2, n3) ==
  d1 :> q1 @@ d2 :> q2 @@ d3 :> q3 @@ r1 :> n1 @@ r2 :> n2 @@ u3 :> n3 @@ v :> << <<1>> >>

\* Calendars 1 and 3, a gap between them.
Gap == Answers( << <<1, 3>> >>,
                << <<1, 2, a>>, <<3, 1, b>> >>,
                << <<1, 10>>, <<1, 17>>, <<3, 10>> >>,
                << <<1, 1>> >>,
                << <<1, 2, a>> >>,
                << <<1, 17>>, <<3, 10>>, <<1, 10>> >> )

\* Two neighbours with one entry each.
Single == Answers( << <<1, 2>> >>,
                   << <<1, 1, a>>, <<2, 1, b>> >>,
                   << <<1, 10>>, <<2, 10>> >>,
                   << <<2, 2>> >>,
                   << <<2, 1, b>> >>,
                   << <<2, 10>>, <<1, 10>> >> )

\* A date that is NULL sorts last and counts as day 0.
NullDate == Answers( << <<1, 1>> >>,
                     << <<1, 3, a>> >>,
                     << <<1, 10>>, <<1, 40>>, <<1, Null>> >>,
                     << << >> >>,
                     << << >> >>,
                     << <<1, Null>>, <<1, 40>>, <<1, 10>> >> )

\* Entries without a calendar: Q2 skips them, Q3 does not.
NullId == Answers( << <<0, 1>> >>,
                   << <<1, 1, a>>, <<Null, 1, Null>> >>,
                   << <<1, 10>>, <<Null, 10>> >>,
                   << <<1, 1>> >>,
                   << <<1, 1, a>>, <<0, 1, b>> >>,
                   << <<1, 10>> >> )

\* A calendar without a name, and two of one name.
NullName == Answers( << <<1, 2>> >>,
                     << <<1, 1, Null>>, <<2, 1, b>> >>,
                     << <<1, 10>>, <<2, 10>> >>,
                     << <<2, 1>> >>,
                     << <<1, 1, a>>, <<2, 1, a>> >>,
                     << <<1, 10>> >> )

\* Empty tables; a Q2 of its own that counts wrong.
Empty == Answers( << <<Null, Null>> >>, << >>, << >>,
                  << <<1, 1>> >>, << <<1, -1, a>> >>, << >> )

Databases == {Gap, Single, NullDate, NullId, NullName, Empty}
=============================================================================
