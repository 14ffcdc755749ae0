------------------------------ MODULE Loading ------------------------------
(***************************************************************************)
(* What ensure_cache_populated makes of the rows its queries return, one   *)
(* row per step, and the settings that say which queries these are.        *)
(*                                                                         *)
(* Q1, Q2 and Q3 are settings that every session may change for itself;    *)
(* the cache that a session fills with them is shared by all.  A loading   *)
(* session has the LWLock, and here it is alone with the cache:            *)
(* SharedCache has the lock, the races and the failures around a load.     *)
(***************************************************************************)
EXTENDS Integers, Sequences, FiniteSets

CONSTANTS
  Session,    \* the sessions of one server
  Text,       \* query texts
  Default,    \* the texts of DEF_Q1_GET_CALENDAR_IDS .. DEF_Q3_GET_ENTRIES
  Database,   \* the contents of the database: what each text answers on it
  Settable,   \* the pairs of a setting and a text that a session may SET
  Name,       \* calendar names that CALENDAR_NAME_MAX_LEN has room for
  Null        \* the SQL NULL

Query   == {"q1", "q2", "q3"}
Setting == Query \cup {"schema_validation"}

\* Rows are sequences of values.  A text that raises an error, or is no
\* SELECT, answers like one without rows: the load fails.
Rows == Seq(Seq(Int \cup Name \cup {Null}))

ASSUME LoadingAssumption ==
  /\ Default \in [Query -> Text]
  /\ \A answers \in Database : answers \in [Text -> Rows]
  /\ Settable \subseteq Setting \X Text
  /\ Name \cap Int = {} /\ Null \notin Int \cup Name

VARIABLES
  answers,          \* the database: the rows of each text
  text,             \* text[s][q]: the C variable of query q in session s
  given,            \* history: the settings s has set
  calendars,        \* imcx->calendars, index -> Calendar
  min_calendar_id,  \* imcx->min_calendar_id
  total,            \* imcx->entry_count
  names,            \* imcx->pg_calendar_name_hashtable
  cache_filled,     \* imcx->cache_filled
  pc,               \* "free", the query whose rows are read, or "undefined"
  row,              \* row_counter
  prev_calendar_id, entry_count,   \* the locals of the loop over the rows of Q3
  source            \* history: the texts and the settings of the last load

settings == <<text, given>>
imcx     == <<calendars, min_calendar_id, total, names, cache_filled>>
locals   == <<row, prev_calendar_id, entry_count>>
vars     == <<answers, settings, imcx, pc, locals, source>>

-----------------------------------------------------------------------------
(* Values *)

\* SPI_getbinval: a column that is missing is NULL, and the Datum of NULL is 0.
Column(r, c) == IF c \in DOMAIN r THEN r[c] ELSE Null
Int32(value) == IF value \in Int THEN value ELSE 0

MinId(rows)     == Int32(Column(rows[1], 1))
MaxId(rows)     == Int32(Column(rows[1], 2))
IdOf(rows, k)   == Int32(Column(rows[k], 1))
SizeOf(rows, k) == Int32(Column(rows[k], 2))
NameOf(rows, k) == Column(rows[k], 3)
DateOf(rows, k) == Int32(Column(rows[k], 2))

Calendar == [id : Int, dates : Seq(Int), indexed : BOOLEAN]
Blank == [id |-> 0, dates |-> << >>, indexed |-> FALSE]

\* The rows of the query that is being read.
Result == answers[source.text[pc]]

get_calendar_index(id) == id - min_calendar_id

-----------------------------------------------------------------------------
(* Settings *)

\* init_gucs binds two settings to the variable of Q3; the query that
\* validates the schema has a variable that no setting is bound to.
BoundTo(setting) == IF setting = "schema_validation" THEN "q3" ELSE setting

\* SET; a RESET sets the default text.
Set(s, setting, t) ==
  /\ pc = "free" /\ <<setting, t>> \in Settable
  /\ text' = [text EXCEPT ![s][BoundTo(setting)] = t]
  /\ given' = [given EXCEPT ![s] = @ \cup {setting}]
  /\ UNCHANGED <<answers, imcx, pc, locals, source>>

-----------------------------------------------------------------------------
(* ensure_cache_populated, under the lock *)

Begin(s) ==
  /\ pc = "free" /\ ~cache_filled
  /\ pc' = "q1"
  /\ source' = [text |-> text[s], given |-> given[s]]
  /\ row' = 0 /\ prev_calendar_id' = 0 /\ entry_count' = 0
  /\ UNCHANGED <<answers, settings, imcx>>

\* An error: what has been written to shared memory stays.
Fail == pc' = "free"

\* A write outside the memory allocated for it, or through a NULL pointer.
\* The server crashes, or runs on with overwritten memory.
Stray == pc' = "undefined" /\ UNCHANGED <<imcx, locals>>

NoRows ==
  /\ pc \in Query /\ Result = << >>
  /\ Fail
  /\ UNCHANGED <<answers, settings, imcx, locals, source>>

\* The first row of Q1, and pg_cache_init.
LoadIds ==
  /\ pc = "q1" /\ Result # << >>
  /\ \/ /\ MinId(Result) > MaxId(Result)
        /\ Fail
        /\ UNCHANGED <<calendars, min_calendar_id, total>>
     \/ /\ MinId(Result) <= MaxId(Result)
        /\ calendars' = [i \in 0 .. MaxId(Result) - MinId(Result) |-> Blank]
        /\ min_calendar_id' = MinId(Result)
        /\ total' = 0
        /\ pc' = "q2"
  /\ UNCHANGED <<answers, settings, names, cache_filled, locals, source>>

Zeros(n) == [i \in 1 .. n |-> 0]

\* pg_calendar_init: a page map of before is kept.
pg_calendar_init(i, id, size) ==
  /\ calendars' = [calendars EXCEPT ![i] =
                     [id |-> id, dates |-> Zeros(size), indexed |-> @.indexed]]
  /\ total' = total + size

\* pg_set_calendar_name; the load fails on a name that is there already.
pg_set_calendar_name(name, id) ==
  \/ /\ name \notin DOMAIN names
     /\ names' = [n \in DOMAIN names \cup {name} |-> IF n = name THEN id ELSE names[n]]
     /\ row' = row + 1
     /\ UNCHANGED pc
  \/ /\ name \in DOMAIN names
     /\ Fail
     /\ UNCHANGED <<names, row>>

\* A row of Q2.  One without an id is skipped; an id outside the array leads
\* to a pointer that is none, and a name that is NULL or too long is copied;
\* ShmemAlloc refuses a negative size.
CountRow ==
  /\ pc = "q2" /\ row < Len(Result)
  /\ LET k == row + 1
         i == get_calendar_index(IdOf(Result, k))
     IN
     \/ /\ Column(Result[k], 1) = Null
        /\ row' = k
        /\ UNCHANGED <<pc, imcx, prev_calendar_id, entry_count>>
     \/ /\ Column(Result[k], 1) # Null /\ i \in DOMAIN calendars /\ SizeOf(Result, k) < 0
        /\ Fail
        /\ UNCHANGED <<imcx, locals>>
     \/ /\ Column(Result[k], 1) # Null
        /\ i \in DOMAIN calendars => SizeOf(Result, k) >= 0 /\ NameOf(Result, k) \notin Name
        /\ Stray
     \/ /\ Column(Result[k], 1) # Null
        /\ i \in DOMAIN calendars /\ SizeOf(Result, k) >= 0 /\ NameOf(Result, k) \in Name
        /\ pg_calendar_init(i, IdOf(Result, k), SizeOf(Result, k))
        /\ pg_set_calendar_name(NameOf(Result, k), IdOf(Result, k))
        /\ UNCHANGED <<min_calendar_id, cache_filled, prev_calendar_id, entry_count>>
  /\ UNCHANGED <<answers, settings, source>>

CountsDone_KeepsRow ==
  /\ pc = "q2" /\ Result # << >> /\ row = Len(Result)
  /\ pc' = "q3"
  /\ UNCHANGED <<answers, settings, imcx, locals, source>>

CountsDone ==
  /\ pc = "q2" /\ Result # << >> /\ row = Len(Result)
  /\ pc' = "q3"
  /\ row' = 0
  /\ UNCHANGED <<answers, settings, imcx, prev_calendar_id, entry_count, source>>

Position_NoReset(id) == entry_count

\* The place of a row in its calendar: rows count from 0 where the id changes.
Position(id) == IF prev_calendar_id # id THEN 0 ELSE entry_count

Complete_OneLess(dates, n) == n + 1 = Len(dates)

\* With its last entry the page map of a calendar is built.
Complete(dates, n) == n = Len(dates)

\* pg_init_page_size takes the first and the last entry for the extreme dates: one
\* after both may lie on a page beyond the page map, and a map of less than no
\* pages is refused by ShmemAlloc.
Outlier(dates)  == \E k \in DOMAIN dates : dates[k] > dates[1] /\ dates[k] > dates[Len(dates)]
Backward(dates) == dates[Len(dates)] < dates[1]

\* Calendar i has been given memory for an entry n.
HasRoom(i, n) == i \in DOMAIN calendars /\ n < Len(calendars[i].dates)

\* A row of Q3.  A row without an id counts as one of calendar 0, one without a
\* date as day 0.  In a calendar that Q2 has not returned, dates is NULL.
EntryRow ==
  /\ pc = "q3" /\ row < Len(Result)
  /\ LET k  == row + 1
         id == IdOf(Result, k)
         i  == get_calendar_index(id)
         n  == Position(id)
         dates == [calendars[i].dates EXCEPT ![n + 1] = DateOf(Result, k)]
         Copied(indexed) == [calendars EXCEPT ![i] =
                               [id |-> @.id, dates |-> dates, indexed |-> indexed]]
     IN
     \/ ~HasRoom(i, n) /\ Stray
     \/ HasRoom(i, n) /\ Complete(dates, n + 1) /\ Outlier(dates) /\ Stray
     \/ /\ HasRoom(i, n) /\ Complete(dates, n + 1) /\ Backward(dates)
        /\ calendars' = Copied(calendars[i].indexed)
        /\ Fail
        /\ UNCHANGED <<min_calendar_id, total, names, cache_filled, locals>>
     \/ /\ HasRoom(i, n)
        /\ calendars' = Copied(calendars[i].indexed \/ Complete(dates, n + 1))
        /\ prev_calendar_id' = id
        /\ entry_count' = n + 1
        /\ row' = k
        /\ UNCHANGED <<pc, min_calendar_id, total, names, cache_filled>>
  /\ UNCHANGED <<answers, settings, source>>

Finish ==
  /\ pc = "q3" /\ Result # << >> /\ row = Len(Result)
  /\ cache_filled' = TRUE
  /\ pc' = "free"
  /\ UNCHANGED <<answers, settings, calendars, min_calendar_id, total, names, locals, source>>

Load == NoRows \/ LoadIds \/ CountRow \/ CountsDone \/ EntryRow \/ Finish

-----------------------------------------------------------------------------
cache_invalidate ==
  /\ calendars' = << >> /\ total' = 0 /\ names' = << >> /\ cache_filled' = FALSE
  /\ UNCHANGED min_calendar_id

Invalidate ==
  /\ pc = "free" /\ cache_filled
  /\ cache_invalidate
  /\ UNCHANGED <<answers, settings, pc, locals, source>>

\* A new server: shared memory is zeroed, and every session begins with the
\* default texts.
Init ==
  /\ answers \in Database
  /\ text = [s \in Session |-> Default]
  /\ given = [s \in Session |-> {}]
  /\ calendars = << >> /\ min_calendar_id = 0 /\ total = 0
  /\ names = << >> /\ cache_filled = FALSE
  /\ pc = "free"
  /\ row = 0 /\ prev_calendar_id = 0 /\ entry_count = 0
  /\ source = [text |-> Default, given |-> {}]

\* After a stray write the server restarts (or goes on in a state that is
\* none of this specification).
Restart ==
  /\ pc = "undefined"
  /\ text' = [s \in Session |-> Default]
  /\ given' = [s \in Session |-> {}]
  /\ calendars' = << >> /\ min_calendar_id' = 0 /\ total' = 0
  /\ names' = << >> /\ cache_filled' = FALSE
  /\ pc' = "free"
  /\ row' = 0 /\ prev_calendar_id' = 0 /\ entry_count' = 0
  /\ source' = [text |-> Default, given |-> {}]
  /\ UNCHANGED answers

Next ==
  \/ Load \/ Invalidate \/ Restart
  \/ \E s \in Session : Begin(s) \/ \E p \in Settable : Set(s, p[1], p[2])

Spec == Init /\ [][Next]_vars

-----------------------------------------------------------------------------
(* Properties *)

\* The variables have their types; a row is one of the query being read.
TypeOK ==
  /\ answers \in Database
  /\ text \in [Session -> [Query -> Text]]
  /\ given \in [Session -> SUBSET Setting]
  /\ calendars \in [DOMAIN calendars -> Calendar] /\ DOMAIN calendars \subseteq Nat
  /\ min_calendar_id \in Int /\ total \in Int
  /\ names \in [DOMAIN names -> Int] /\ DOMAIN names \subseteq Name
  /\ cache_filled \in BOOLEAN
  /\ pc \in {"free", "undefined"} \cup Query
  /\ row \in Nat /\ (pc = "q1" => row = 0) /\ (pc \in {"q2", "q3"} => row <= Len(Result))
  /\ prev_calendar_id \in Int /\ entry_count \in Nat
  /\ source \in [text : [Query -> Text], given : SUBSET Setting]

\* Rows j .. k of Q3 follow one another with the same calendar id.
Consecutive(rows, j, k) == \A m \in j .. k : IdOf(rows, m) = IdOf(rows, k)

\* The queries fit together: Q2 returns each calendar once, with a name and
\* within the ids of Q1; Q3 has no more rows of a calendar in a row than Q2
\* has counted, in ascending order.
FitTogether(q1, q2, q3) ==
  /\ \A c \in DOMAIN q2 : Column(q2[c], 1) # Null =>
       /\ IdOf(q2, c) \in MinId(q1) .. MaxId(q1)
       /\ SizeOf(q2, c) >= 0
       /\ NameOf(q2, c) \in Name
  /\ \A c, d \in DOMAIN q2 :
       Column(q2[c], 1) # Null /\ Column(q2[d], 1) # Null /\ IdOf(q2, c) = IdOf(q2, d) => c = d
  /\ \A j, k \in DOMAIN q3 : j <= k /\ Consecutive(q3, j, k) =>
       /\ \E c \in DOMAIN q2 : /\ Column(q2[c], 1) # Null
                               /\ IdOf(q2, c) = IdOf(q3, k)
                               /\ k - j < SizeOf(q2, c)
       /\ DateOf(q3, j) <= DateOf(q3, k)

Fit(texts) == FitTogether(answers[texts["q1"]], answers[texts["q2"]], answers[texts["q3"]])

\* While the three queries fit together, whatever loads and failures came
\* before, no row makes the load write outside the array of calendars, the
\* dates of a calendar or its page map, or follow a NULL pointer.
RoomForEntries == pc = "undefined" => ~Fit(source.text)

\* Moreover Q3 returns all that Q2 has counted, and the rows of a calendar together.
Agree(texts) ==
  LET q2 == answers[texts["q2"]]
      q3 == answers[texts["q3"]]
  IN /\ Fit(texts)
     /\ \A c \in DOMAIN q2 : Column(q2[c], 1) # Null =>
          \E j \in DOMAIN q3 : /\ j + SizeOf(q2, c) - 1 \in DOMAIN q3
                               /\ IdOf(q3, j) = IdOf(q2, c)
                               /\ Consecutive(q3, j, j + SizeOf(q2, c) - 1)
     /\ \A j, k \in DOMAIN q3 :
          j <= k /\ IdOf(q3, j) = IdOf(q3, k) => Consecutive(q3, j, k)

\* What is to be loaded, said without loops: every calendar of Q2 with the
\* dates of its rows of Q3, in their order.
Image(texts) ==
  LET q1 == answers[texts["q1"]]
      q2 == answers[texts["q2"]]
      q3 == answers[texts["q3"]]
      Rank(k) == Cardinality({j \in 1 .. k : IdOf(q3, j) = IdOf(q3, k)})
      DatesOf(c) == [n \in 1 .. SizeOf(q2, c) |->
        DateOf(q3, CHOOSE k \in DOMAIN q3 : IdOf(q3, k) = IdOf(q2, c) /\ Rank(k) = n)]
      Counted(id) == {c \in DOMAIN q2 : Column(q2[c], 1) # Null /\ IdOf(q2, c) = id}
  IN [i \in 0 .. MaxId(q1) - MinId(q1) |->
        IF Counted(MinId(q1) + i) = {} THEN Blank
        ELSE LET c == CHOOSE c \in Counted(MinId(q1) + i) : TRUE IN
             [id |-> MinId(q1) + i, dates |-> DatesOf(c), indexed |-> TRUE]]

\* The loops over the rows yield that image, with the number of all entries and
\* with each name, when the queries agree: rows are not mixed up where the id
\* changes, and each page map is built when, and only when, it can be.
LoadedWhole ==
  cache_filled /\ Agree(source.text) =>
    /\ calendars = Image(source.text)
    /\ total = Len(answers[source.text["q3"]])
    /\ \A c \in DOMAIN answers[source.text["q2"]] :
         LET q2 == answers[source.text["q2"]] IN
         Column(q2[c], 1) # Null =>
           NameOf(q2, c) \in DOMAIN names /\ names[NameOf(q2, c)] = IdOf(q2, c)

-----------------------------------------------------------------------------
(* What the documentation says and the code does not do *)

\* q_schema_validation is the "Query to validate the existence of the required
\* schemas." (kq_imcx.c:102): a session that has not set Q1, Q2 or Q3 fills
\* the cache with what the default queries return.
DefaultLoadIsWhole ==
  cache_filled /\ source.given \cap Query = {} /\ Agree(Default) =>
    calendars = Image(Default)

=============================================================================
