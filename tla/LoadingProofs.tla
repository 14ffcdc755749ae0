--------------------------- MODULE LoadingProofs ---------------------------
(***************************************************************************)
(* What holds of Loading for every database, all query texts and all       *)
(* settings: types, and that queries that fit together never make a load   *)
(* write outside the memory allocated for it.                              *)
(***************************************************************************)
EXTENDS Loading, TLAPS

-----------------------------------------------------------------------------
(* Types *)

\* Whatever a row is, the numbers read from it are numbers.
LEMMA Numbers ==
  ASSUME NEW rows, NEW k
  PROVE  /\ IdOf(rows, k) \in Int /\ SizeOf(rows, k) \in Int /\ DateOf(rows, k) \in Int
         /\ MinId(rows) \in Int /\ MaxId(rows) \in Int
  BY DEF IdOf, SizeOf, DateOf, MinId, MaxId, Int32

LEMMA ResultRows ==
  ASSUME TypeOK, pc \in Query
  PROVE  Result \in Rows
<1>1. answers \in [Text -> Rows] /\ source.text[pc] \in Text
  BY LoadingAssumption DEF TypeOK
<1> QED
  BY <1>1 DEF Result

\* The empty array and the empty hash table.
LEMMA EmptyType ==
  ASSUME NEW S
  PROVE  DOMAIN << >> = {} /\ << >> \in [{} -> S]
<1>1. DOMAIN << >> = {}
  OBVIOUS
<1>2. << >> = [i \in {} |-> << >>[i]]
  BY <1>1
<1> QED
  BY <1>1, <1>2

LEMMA BlankType == Blank \in Calendar
  BY DEF Blank, Calendar

LEMMA ZerosType == ASSUME NEW n \in Nat PROVE Zeros(n) \in Seq(Int) /\ Len(Zeros(n)) = n
  BY DEF Zeros

\* The conjuncts of TypeOK about shared memory.
CacheType ==
  /\ calendars \in [DOMAIN calendars -> Calendar] /\ DOMAIN calendars \subseteq Nat
  /\ min_calendar_id \in Int /\ total \in Int
  /\ names \in [DOMAIN names -> Int] /\ DOMAIN names \subseteq Name
  /\ cache_filled \in BOOLEAN

\* Those about the session that loads.
LoadType ==
  /\ pc \in {"free", "undefined"} \cup Query
  /\ row \in Nat /\ (pc = "q1" => row = 0) /\ (pc \in {"q2", "q3"} => row <= Len(Result))
  /\ prev_calendar_id \in Int /\ entry_count \in Nat

\* Those about the settings.
SettingsType ==
  /\ answers \in Database
  /\ text \in [Session -> [Query -> Text]]
  /\ given \in [Session -> SUBSET Setting]
  /\ source \in [text : [Query -> Text], given : SUBSET Setting]

LEMMA TypeParts == TypeOK <=> CacheType /\ LoadType /\ SettingsType
  BY DEF TypeOK, CacheType, LoadType, SettingsType

\* Shared memory when the server starts or the cache is dropped.
LEMMA NoCalendars ==
  ASSUME NEW array, NEW table, array = << >>, table = << >>
  PROVE  /\ array \in [DOMAIN array -> Calendar] /\ DOMAIN array \subseteq Nat
         /\ table \in [DOMAIN table -> Int] /\ DOMAIN table \subseteq Name
<1>1. DOMAIN array = {} /\ array \in [{} -> Calendar]
  BY EmptyType
<1>2. DOMAIN table = {} /\ table \in [{} -> Int]
  BY EmptyType
<1> QED
  BY <1>1, <1>2

LEMMA StartType == Init => TypeOK
<1> SUFFICES ASSUME Init PROVE TypeOK
  OBVIOUS
<1>1. /\ calendars \in [DOMAIN calendars -> Calendar] /\ DOMAIN calendars \subseteq Nat
      /\ names \in [DOMAIN names -> Int] /\ DOMAIN names \subseteq Name
  BY NoCalendars DEF Init
<1>5. min_calendar_id = 0 /\ total = 0 /\ cache_filled = FALSE
  BY DEF Init
<1>6. min_calendar_id \in Int /\ total \in Int
  BY <1>5
<1>7. cache_filled \in BOOLEAN
  BY <1>5, Zenon
<1>2. CacheType
  BY <1>1, <1>6, <1>7 DEF CacheType
<1>3. LoadType
  BY DEF Init, LoadType
<1>4. SettingsType
  BY LoadingAssumption DEF Init, SettingsType
<1> QED
  BY <1>2, <1>3, <1>4, TypeParts

LEMMA SetType ==
  ASSUME TypeOK, NEW s \in Session, NEW p \in Settable, Set(s, p[1], p[2])
  PROVE  TypeOK'
<1>1. p[1] \in Setting /\ p[2] \in Text
  BY LoadingAssumption
<1>2. BoundTo(p[1]) \in Query
  BY <1>1 DEF BoundTo, Setting, Query
<1>3. CacheType' /\ LoadType'
  BY DEF Set, TypeOK, CacheType, LoadType, imcx, locals
<1>4. SettingsType'
  BY <1>1, <1>2 DEF Set, TypeOK, SettingsType
<1> QED
  BY <1>3, <1>4, TypeParts DEF TypeOK, CacheType, LoadType, SettingsType

LEMMA CountRowType ==
  ASSUME TypeOK, CountRow
  PROVE  TypeOK'
<1> DEFINE k == row + 1
           i == get_calendar_index(IdOf(Result, k))
<1>1. SettingsType' /\ Result \in Rows /\ pc = "q2" /\ row < Len(Result)
  BY ResultRows DEF CountRow, TypeOK, SettingsType, settings, Query
<1>2. Len(Result) \in Nat /\ k \in Nat /\ k <= Len(Result)
  BY <1>1 DEF Rows, TypeOK
<1>3. CASE UNCHANGED imcx
  <2>1. CacheType'
    BY <1>3 DEF TypeOK, CacheType, imcx
  <2>2. LoadType'
    BY <1>1, <1>2, <1>3 DEF CountRow, Fail, Stray, locals, TypeOK, LoadType, Result, Query,
       pg_calendar_init, pg_set_calendar_name, imcx
  <2> QED
    BY <1>1, <2>1, <2>2 DEF TypeOK, CacheType, LoadType, SettingsType
<1>4. CASE /\ i \in DOMAIN calendars /\ SizeOf(Result, k) >= 0 /\ NameOf(Result, k) \in Name
           /\ pg_calendar_init(i, IdOf(Result, k), SizeOf(Result, k))
           /\ pg_set_calendar_name(NameOf(Result, k), IdOf(Result, k))
           /\ UNCHANGED <<min_calendar_id, cache_filled, prev_calendar_id, entry_count>>
  <2>1. IdOf(Result, k) \in Int /\ SizeOf(Result, k) \in Nat
    BY <1>4, Numbers
  <2>2. [id |-> IdOf(Result, k), dates |-> Zeros(SizeOf(Result, k)),
         indexed |-> calendars[i].indexed] \in Calendar
    BY <1>4, <2>1, ZerosType DEF Calendar, TypeOK
  <2>3. calendars' \in [DOMAIN calendars' -> Calendar] /\ DOMAIN calendars' \subseteq Nat
    BY <1>4, <2>2 DEF pg_calendar_init, TypeOK
  <2>4. names' \in [DOMAIN names' -> Int] /\ DOMAIN names' \subseteq Name
    BY <1>4, <2>1 DEF pg_set_calendar_name, TypeOK
  <2>5. CacheType'
    BY <1>4, <2>1, <2>3, <2>4 DEF CacheType, TypeOK, pg_calendar_init
  <2>6. LoadType'
    BY <1>1, <1>2, <1>4 DEF CountRow, Fail, pg_set_calendar_name, TypeOK, LoadType, Result
  <2> QED
    BY <1>1, <2>5, <2>6 DEF TypeOK, CacheType, LoadType, SettingsType
<1> QED
  BY <1>3, <1>4 DEF CountRow, Stray, imcx

LEMMA EntryRowType ==
  ASSUME TypeOK, EntryRow
  PROVE  TypeOK'
<1> DEFINE k == row + 1
           id == IdOf(Result, k)
           i == get_calendar_index(id)
           n == Position(id)
           dates == [calendars[i].dates EXCEPT ![n + 1] = DateOf(Result, k)]
           Copied(indexed) == [calendars EXCEPT ![i] =
                                 [id |-> @.id, dates |-> dates, indexed |-> indexed]]
<1>1. SettingsType' /\ Result \in Rows /\ pc = "q3" /\ row < Len(Result)
  BY ResultRows DEF EntryRow, TypeOK, SettingsType, settings, Query
<1>2. Len(Result) \in Nat /\ k \in Nat /\ k <= Len(Result)
  BY <1>1 DEF Rows, TypeOK
<1>3. id \in Int /\ n \in Nat /\ DateOf(Result, k) \in Int
  BY Numbers DEF Position, TypeOK
<1>4. CASE Stray
  BY <1>1, <1>4 DEF Stray, TypeOK, SettingsType, imcx, locals, Query
<1>5. ASSUME HasRoom(i, n), NEW indexed \in BOOLEAN, calendars' = Copied(indexed)
      PROVE  calendars' \in [DOMAIN calendars' -> Calendar] /\ DOMAIN calendars' \subseteq Nat
  <2>1. calendars[i] \in Calendar /\ i \in DOMAIN calendars
    BY <1>5 DEF HasRoom, TypeOK
  <2>2. calendars[i].dates \in Seq(Int) /\ n + 1 \in 1 .. Len(calendars[i].dates)
    BY <1>3, <1>5, <2>1 DEF Calendar, HasRoom
  <2>20. dates \in Seq(Int)
    BY <1>3, <2>2
  <2>3. [id |-> calendars[i].id, dates |-> dates, indexed |-> indexed] \in Calendar
    BY <2>1, <2>20 DEF Calendar
  <2> HIDE DEF dates, i
  <2> QED
    BY <1>5, <2>1, <2>3 DEF TypeOK
<1>6. CASE /\ HasRoom(i, n) /\ calendars' = Copied(calendars[i].indexed) /\ Fail
           /\ UNCHANGED <<min_calendar_id, total, names, cache_filled, locals>>
  <2>1. calendars[i].indexed \in BOOLEAN
    BY <1>6 DEF HasRoom, TypeOK, Calendar
  <2>2. calendars' \in [DOMAIN calendars' -> Calendar] /\ DOMAIN calendars' \subseteq Nat
    BY <1>5, <1>6, <2>1
  <2> QED
    BY <1>1, <1>6, <2>2 DEF Fail, TypeOK, SettingsType, locals, Query
<1>7. CASE /\ HasRoom(i, n)
           /\ calendars' = Copied(calendars[i].indexed \/ Complete(dates, n + 1))
           /\ prev_calendar_id' = id /\ entry_count' = n + 1 /\ row' = k
           /\ UNCHANGED <<pc, min_calendar_id, total, names, cache_filled>>
  <2>1. (calendars[i].indexed \/ Complete(dates, n + 1)) \in BOOLEAN
    OBVIOUS
  <2>2. calendars' \in [DOMAIN calendars' -> Calendar] /\ DOMAIN calendars' \subseteq Nat
    BY <1>5, <1>7, <2>1
  <2>3. CacheType'
    BY <1>7, <2>2 DEF CacheType, TypeOK
  <2>4. Result' = Result
    BY <1>7 DEF Result, EntryRow
  <2>5. LoadType'
    BY <1>1, <1>2, <1>3, <1>7, <2>4 DEF LoadType, TypeOK
  <2> QED
    BY <1>1, <2>3, <2>5 DEF TypeOK, CacheType, LoadType, SettingsType
<1> QED
  BY <1>4, <1>6, <1>7 DEF EntryRow

LEMMA OtherType ==
  ASSUME TypeOK, NoRows \/ LoadIds \/ CountsDone \/ Finish \/ Invalidate \/ Restart \/ UNCHANGED vars
  PROVE  TypeOK'
<1>1. CASE NoRows
  BY <1>1 DEF NoRows, Fail, TypeOK, settings, imcx, locals, Query
<1>2. CASE LoadIds
  <2>0. MinId(Result) \in Int /\ MaxId(Result) \in Int
    BY Numbers
  <2>1. CASE calendars' = calendars /\ UNCHANGED <<min_calendar_id, total>>
    BY <1>2, <2>1 DEF LoadIds, Fail, TypeOK, settings, locals, Query
  <2>2. CASE /\ calendars' = [i \in 0 .. MaxId(Result) - MinId(Result) |-> Blank]
             /\ min_calendar_id' = MinId(Result) /\ total' = 0 /\ pc' = "q2"
    <3>1. calendars' \in [DOMAIN calendars' -> Calendar] /\ DOMAIN calendars' \subseteq Nat
      BY <2>0, <2>2, BlankType
    <3>2. CacheType'
      BY <1>2, <2>0, <2>2, <3>1 DEF LoadIds, CacheType, TypeOK
    <3>3. Result' \in Rows
      BY <1>2, <2>2, LoadingAssumption DEF LoadIds, TypeOK, Result, Query
    <3>4. row = 0
      BY <1>2 DEF LoadIds, TypeOK
    <3> QED
      BY <1>2, <2>2, <3>2, <3>3, <3>4 DEF LoadIds, TypeOK, CacheType, settings, locals, Query, Rows
  <2> QED
    BY <1>2, <2>1, <2>2 DEF LoadIds
<1>3. CASE CountsDone
  <2>1. pc' = "q3" /\ UNCHANGED <<answers, source>> /\ row' = 0
    BY <1>3 DEF CountsDone
  <2>2. Result' \in Rows
    BY <2>1, LoadingAssumption DEF TypeOK, Result, Query
  <2>3. 0 <= Len(Result')
    BY <2>2 DEF Rows
  <2> QED
    BY <1>3, <2>1, <2>3 DEF CountsDone, TypeOK, settings, imcx, Query
<1>4. CASE Finish
  BY <1>4 DEF Finish, TypeOK, settings, locals, Query
<1>5. CASE Invalidate
  <2>1. /\ calendars' \in [DOMAIN calendars' -> Calendar] /\ DOMAIN calendars' \subseteq Nat
        /\ names' \in [DOMAIN names' -> Int] /\ DOMAIN names' \subseteq Name
    BY <1>5, NoCalendars DEF Invalidate, cache_invalidate
  <2>2. min_calendar_id' = min_calendar_id /\ total' = 0 /\ cache_filled' = FALSE
    BY <1>5 DEF Invalidate, cache_invalidate
  <2>6. cache_filled' \in BOOLEAN
    BY <2>2, Zenon
  <2>5. min_calendar_id' \in Int /\ total' \in Int
    BY <2>2 DEF TypeOK
  <2>3. CacheType'
    BY <2>1, <2>5, <2>6 DEF CacheType
  <2>4. LoadType' /\ SettingsType'
    BY <1>5 DEF Invalidate, TypeOK, LoadType, SettingsType, settings, locals
  <2> QED
    BY <2>3, <2>4 DEF TypeOK, CacheType, LoadType, SettingsType
<1>6. CASE Restart
  <2>1. /\ calendars' \in [DOMAIN calendars' -> Calendar] /\ DOMAIN calendars' \subseteq Nat
        /\ names' \in [DOMAIN names' -> Int] /\ DOMAIN names' \subseteq Name
    BY <1>6, NoCalendars DEF Restart
  <2>2. min_calendar_id' = 0 /\ total' = 0 /\ cache_filled' = FALSE
    BY <1>6 DEF Restart
  <2>6. cache_filled' \in BOOLEAN
    BY <2>2, Zenon
  <2>5. min_calendar_id' \in Int /\ total' \in Int
    BY <2>2
  <2>3. CacheType'
    BY <2>1, <2>5, <2>6 DEF CacheType
  <2>4. LoadType' /\ SettingsType'
    BY <1>6, LoadingAssumption DEF Restart, TypeOK, LoadType, SettingsType
  <2> QED
    BY <2>3, <2>4 DEF TypeOK, CacheType, LoadType, SettingsType
<1>7. CASE UNCHANGED vars
  BY <1>7 DEF vars, TypeOK, settings, imcx, locals, Result
<1> QED
  BY <1>1, <1>2, <1>3, <1>4, <1>5, <1>6, <1>7

LEMMA BeginType ==
  ASSUME TypeOK, NEW s \in Session, Begin(s)
  PROVE  TypeOK'
<1>1. CacheType' /\ pc' = "q1"
  BY DEF Begin, CacheType, TypeOK, imcx
<1>2. SettingsType'
  BY DEF Begin, SettingsType, TypeOK, settings
<1> QED
  BY <1>1, <1>2 DEF Begin, TypeOK, CacheType, SettingsType, Query

LEMMA TypeStep == TypeOK /\ [Next]_vars => TypeOK'
  BY SetType, CountRowType, EntryRowType, OtherType, BeginType DEF Next, Load

\* The variables keep their types, whatever the queries return: in particular
\* every row that is read is one of the query that is being read.
THEOREM TypeCorrect == Spec => []TypeOK
  BY StartType, TypeStep, PTL DEF Spec

-----------------------------------------------------------------------------
(* The inductive invariant *)

q1 == answers[source.text["q1"]]
q2 == answers[source.text["q2"]]
q3 == answers[source.text["q3"]]

\* Row c of Q2 gives a calendar.
Counts(c) == c \in DOMAIN q2 /\ Column(q2[c], 1) # Null

IndexOf(c) == IdOf(q2, c) - MinId(q1)

\* The array is as large as Q1 asks, and calendars whose row of Q2 has been
\* read have room for the entries counted there.
Allocated ==
  /\ DOMAIN calendars = 0 .. MaxId(q1) - MinId(q1)
  /\ min_calendar_id = MinId(q1)
  /\ \A c \in DOMAIN q2 : Counts(c) /\ (pc = "q3" \/ c <= row) =>
       Len(calendars[IndexOf(c)].dates) = SizeOf(q2, c)

\* Row j began the calendar that is being copied: entry_count counts the rows
\* since then, and their dates are the first of that calendar.
CopiedFrom(j) ==
  LET i == prev_calendar_id - MinId(q1) IN
  /\ Consecutive(q3, j, row) /\ IdOf(q3, row) = prev_calendar_id
  /\ entry_count = row - j + 1
  /\ \A m \in j .. row : calendars[i].dates[m - j + 1] = DateOf(q3, m)

Copying ==
  IF row = 0 THEN prev_calendar_id = 0 /\ entry_count = 0
  ELSE \E j \in 1 .. row : CopiedFrom(j)

LoadInvariant ==
  Fit(source.text) =>
    /\ pc # "undefined"
    /\ pc \in {"q2", "q3"} => Allocated
    /\ pc \in {"q1", "q2"} => prev_calendar_id = 0 /\ entry_count = 0
    /\ pc = "q1" => row = 0
    /\ pc = "q3" => Copying

\* The rows of the queries of this load.
LEMMA SourceRows ==
  ASSUME TypeOK
  PROVE  q1 \in Rows /\ q2 \in Rows /\ q3 \in Rows
<1>1. answers \in [Text -> Rows] /\ source.text \in [Query -> Text]
  BY LoadingAssumption DEF TypeOK
<1> QED
  BY <1>1 DEF q1, q2, q3, Query

LEMMA SameSource ==
  ASSUME UNCHANGED <<answers, source>>
  PROVE  /\ q1' = q1 /\ q2' = q2 /\ q3' = q3
         /\ Fit(source.text)' <=> Fit(source.text)
  BY DEF q1, q2, q3, Fit

LEMMA StartInvariant == Init => LoadInvariant
  BY DEF Init, LoadInvariant

LEMMA LoadIdsInvariant ==
  ASSUME TypeOK, LoadInvariant, LoadIds
  PROVE  LoadInvariant'
<1>1. CASE pc' = "free"
  BY <1>1 DEF LoadInvariant
<1>2. CASE pc' = "q2"
  <2> SUFFICES ASSUME Fit(source.text)' PROVE LoadInvariant'
    BY DEF LoadInvariant
  <2>1. /\ Fit(source.text) /\ q1' = q1 /\ q2' = q2
        /\ pc = "q1" /\ Result = q1 /\ row' = 0 /\ row = 0 /\ locals' = locals
    BY SameSource DEF LoadIds, TypeOK, Result, q1, locals
  <2>2. DOMAIN calendars' = 0 .. MaxId(q1) - MinId(q1) /\ min_calendar_id' = MinId(q1)
    BY <1>2, <2>1 DEF LoadIds, Fail
  <2>3. \A c \in DOMAIN q2 : ~(c <= 0)
    BY SourceRows DEF Rows
  <2>4. Allocated'
    BY <1>2, <2>1, <2>2, <2>3 DEF Allocated
  <2>5. prev_calendar_id' = 0 /\ entry_count' = 0
    BY <2>1 DEF LoadInvariant, locals
  <2> QED
    BY <1>2, <2>4, <2>5 DEF LoadInvariant
<1> QED
  BY <1>1, <1>2 DEF LoadIds, Fail

\* A row of Q2 that gives a calendar leads to one of its own in the array.
LEMMA CountedIndex ==
  ASSUME TypeOK, Fit(source.text), NEW c \in DOMAIN q2, Counts(c)
  PROVE  /\ IndexOf(c) \in 0 .. MaxId(q1) - MinId(q1)
         /\ NameOf(q2, c) \in Name /\ SizeOf(q2, c) \in Nat
         /\ \A d \in DOMAIN q2 : Counts(d) /\ IndexOf(d) = IndexOf(c) => c = d
<1>1. /\ IdOf(q2, c) \in MinId(q1) .. MaxId(q1)
      /\ NameOf(q2, c) \in Name /\ SizeOf(q2, c) >= 0
  BY DEF Fit, FitTogether, Counts, q1, q2, q3
<1>2. \A d \in DOMAIN q2 : Counts(d) /\ IdOf(q2, c) = IdOf(q2, d) => c = d
  BY DEF Fit, FitTogether, Counts, q1, q2, q3
<1>3. MinId(q1) \in Int /\ MaxId(q1) \in Int /\ SizeOf(q2, c) \in Int
      /\ \A d : IdOf(q2, d) \in Int
  BY Numbers
<1> QED
  BY <1>1, <1>2, <1>3 DEF IndexOf

\* A row of Q2 that does not end the load: it is skipped, or gives calendar i
\* its memory and its name.
LEMMA CountRowStep ==
  ASSUME TypeOK, LoadInvariant, CountRow, Fit(source.text), pc' # "free",
         NEW k, k = row + 1, NEW i, i = get_calendar_index(IdOf(q2, k))
  PROVE  /\ k \in DOMAIN q2 /\ pc' = "q2" /\ row' = k
         /\ UNCHANGED <<min_calendar_id, cache_filled, prev_calendar_id, entry_count>>
         /\ \/ ~Counts(k) /\ UNCHANGED imcx
            \/ /\ Counts(k) /\ i = IndexOf(k) /\ i \in DOMAIN calendars
               /\ pg_calendar_init(i, IdOf(q2, k), SizeOf(q2, k))
               /\ NameOf(q2, k) \notin DOMAIN names
               /\ names' = [m \in DOMAIN names \cup {NameOf(q2, k)} |->
                             IF m = NameOf(q2, k) THEN IdOf(q2, k) ELSE names[m]]
<1>1. pc = "q2" /\ Result = q2 /\ Allocated
  BY DEF CountRow, Result, q2, LoadInvariant
<1>2. k \in DOMAIN q2
  BY <1>1, SourceRows DEF CountRow, TypeOK, Rows
<1>3. CASE Column(q2[k], 1) = Null
  <2>1. pc' = "q2" /\ row' = k /\ UNCHANGED <<imcx, prev_calendar_id, entry_count>>
    BY <1>1, <1>3 DEF CountRow
  <2> QED
    BY <1>2, <1>3, <2>1 DEF Counts, imcx
<1>4. CASE Column(q2[k], 1) # Null
  <2>1. Counts(k)
    BY <1>2, <1>4 DEF Counts
  <2>2. i = IndexOf(k) /\ i \in DOMAIN calendars
    BY <1>1, <1>2, <2>1, CountedIndex DEF Allocated, IndexOf, get_calendar_index
  <2>3. SizeOf(q2, k) \in Nat /\ NameOf(q2, k) \in Name
    BY <1>2, <2>1, CountedIndex
  <2>4. /\ pg_calendar_init(i, IdOf(q2, k), SizeOf(q2, k))
        /\ pg_set_calendar_name(NameOf(q2, k), IdOf(q2, k))
        /\ UNCHANGED <<min_calendar_id, cache_filled, prev_calendar_id, entry_count>>
    BY <1>1, <1>4, <2>2, <2>3 DEF CountRow, Fail
  <2>5. /\ NameOf(q2, k) \notin DOMAIN names /\ row' = k /\ pc' = pc
        /\ names' = [m \in DOMAIN names \cup {NameOf(q2, k)} |->
                      IF m = NameOf(q2, k) THEN IdOf(q2, k) ELSE names[m]]
    BY <2>4 DEF pg_set_calendar_name, Fail
  <2> QED
    BY <1>1, <1>2, <2>1, <2>2, <2>4, <2>5
<1> QED
  BY <1>3, <1>4

LEMMA CountRowInvariant ==
  ASSUME TypeOK, LoadInvariant, CountRow
  PROVE  LoadInvariant'
<1> SUFFICES ASSUME Fit(source.text)', pc' # "free" PROVE LoadInvariant'
  BY DEF LoadInvariant
<1> DEFINE k == row + 1
           i == get_calendar_index(IdOf(q2, k))
<1>1. /\ Fit(source.text) /\ q1' = q1 /\ q2' = q2 /\ q3' = q3 /\ pc = "q2" /\ Result = q2
      /\ Allocated /\ prev_calendar_id = 0 /\ entry_count = 0
  BY SameSource DEF CountRow, Result, q2, LoadInvariant
<1>2. /\ row \in Nat /\ k \in DOMAIN q2 /\ DOMAIN q2 \subseteq Nat
      /\ pc' = "q2" /\ row' = k /\ UNCHANGED <<min_calendar_id, prev_calendar_id, entry_count>>
      /\ \/ ~Counts(k) /\ UNCHANGED imcx
         \/ /\ Counts(k) /\ i = IndexOf(k) /\ i \in DOMAIN calendars
            /\ pg_calendar_init(i, IdOf(q2, k), SizeOf(q2, k))
  <2>1. k = row + 1 /\ i = get_calendar_index(IdOf(q2, k))
    OBVIOUS
  <2>2. row \in Nat /\ DOMAIN q2 \subseteq Nat
    BY <1>1, SourceRows DEF TypeOK, Rows
  <2> HIDE DEF k, i
  <2>3. /\ k \in DOMAIN q2 /\ pc' = "q2" /\ row' = k
        /\ UNCHANGED <<min_calendar_id, cache_filled, prev_calendar_id, entry_count>>
        /\ \/ ~Counts(k) /\ UNCHANGED imcx
           \/ /\ Counts(k) /\ i = IndexOf(k) /\ i \in DOMAIN calendars
              /\ pg_calendar_init(i, IdOf(q2, k), SizeOf(q2, k))
    BY <1>1, <2>1, CountRowStep
  <2> QED
    BY <2>2, <2>3
<1>3. CASE ~Counts(k) /\ UNCHANGED imcx
  <2>1. \A c \in DOMAIN q2 : Counts(c) /\ c <= k => c <= row
    BY <1>2, <1>3
  <2>2. Allocated'
    BY <1>1, <1>2, <1>3, <2>1 DEF Allocated, imcx, Counts, IndexOf
  <2> QED
    BY <1>1, <1>2, <2>2 DEF LoadInvariant
<1>4. CASE Counts(k) /\ i = IndexOf(k) /\ i \in DOMAIN calendars
           /\ pg_calendar_init(i, IdOf(q2, k), SizeOf(q2, k))
  <2>1. DOMAIN calendars' = DOMAIN calendars
    BY <1>4 DEF pg_calendar_init
  <2>2. ASSUME NEW c \in DOMAIN q2, Counts(c), c <= k
        PROVE  Len(calendars'[IndexOf(c)].dates) = SizeOf(q2, c)
    <3>1. CASE c = k
      <4>1. calendars'[i].dates = Zeros(SizeOf(q2, k))
        BY <1>4 DEF pg_calendar_init
      <4> QED
        BY <1>1, <1>2, <1>4, <3>1, <4>1, CountedIndex, ZerosType
    <3>2. CASE c # k
      <4>1. c <= row
        BY <1>2, <2>2, <3>2
      <4>2. IndexOf(c) # i /\ IndexOf(c) \in DOMAIN calendars
        BY <1>1, <1>2, <1>4, <2>2, <3>2, CountedIndex DEF Allocated
      <4>3. calendars'[IndexOf(c)] = calendars[IndexOf(c)]
        BY <1>4, <4>2 DEF pg_calendar_init
      <4> QED
        BY <1>1, <2>2, <4>1, <4>3 DEF Allocated
    <3> QED
      BY <3>1, <3>2
  <2>3. Allocated'
    BY <1>1, <1>2, <2>1, <2>2 DEF Allocated, Counts, IndexOf
  <2> QED
    BY <1>1, <1>2, <2>3 DEF LoadInvariant
<1> QED
  BY <1>2, <1>3, <1>4

LEMMA CountsDoneInvariant ==
  ASSUME TypeOK, LoadInvariant, CountsDone
  PROVE  LoadInvariant'
<1> SUFFICES ASSUME Fit(source.text)' PROVE LoadInvariant'
  BY DEF LoadInvariant
<1>1. /\ Fit(source.text) /\ q1' = q1 /\ q2' = q2 /\ q3' = q3 /\ pc = "q2" /\ Result = q2
      /\ Allocated /\ prev_calendar_id = 0 /\ entry_count = 0
  BY SameSource DEF CountsDone, Result, q2, LoadInvariant
<1>2. \A c \in DOMAIN q2 : c <= row
  BY <1>1, SourceRows DEF CountsDone, Rows
<1>3. Allocated'
  BY <1>1, <1>2 DEF CountsDone, Allocated, imcx, Counts, IndexOf
<1>4. Copying'
  BY <1>1 DEF CountsDone, Copying
<1> QED
  BY <1>3, <1>4 DEF CountsDone, LoadInvariant

\* The row of Q3 that is read next: its calendar, its place there, and the dates
\* of that calendar once it is copied.
EntryId    == IdOf(q3, row + 1)
EntryIndex == get_calendar_index(EntryId)
EntryPlace == Position(EntryId)
EntryDates == [calendars[EntryIndex].dates EXCEPT ![EntryPlace + 1] = DateOf(q3, row + 1)]

\* The next row of Q3 has its place: row j began its calendar, and there is
\* room for one entry more.
LEMMA EntryHasPlace ==
  ASSUME TypeOK, Fit(source.text), pc = "q3", Allocated, Copying, NEW k \in DOMAIN q3, k = row + 1
  PROVE  \E j \in 1 .. k :
           /\ Consecutive(q3, j, k) /\ EntryPlace = k - j
           /\ \A m \in j .. row : calendars[EntryIndex].dates[m - j + 1] = DateOf(q3, m)
           /\ HasRoom(EntryIndex, EntryPlace)
<1> USE DEF EntryId
<1>1. row \in Nat /\ DOMAIN q3 \subseteq Nat /\ k \in Nat
      /\ \A m \in 1 .. k : m \in DOMAIN q3
  BY SourceRows, SMTT(30) DEF TypeOK, Rows
<1>2. EntryIndex = EntryId - MinId(q1)
  BY DEF Allocated, get_calendar_index, EntryIndex
<1>3. PICK j \in 1 .. k :
        /\ Consecutive(q3, j, k) /\ EntryPlace = k - j
        /\ \A m \in j .. row : calendars[EntryIndex].dates[m - j + 1] = DateOf(q3, m)
  <2>1. CASE row # 0 /\ prev_calendar_id = EntryId
    <3>1. PICK j \in 1 .. row : CopiedFrom(j)
      BY <2>1 DEF Copying
    <3>2. \A m \in j .. k : IdOf(q3, m) = EntryId
      BY <1>1, <2>1, <3>1 DEF CopiedFrom, Consecutive
    <3>3. EntryPlace = k - j
      BY <1>1, <2>1, <3>1 DEF CopiedFrom, Position, EntryPlace
    <3>4. j \in 1 .. k
      BY <1>1
    <3> QED
      BY <1>2, <2>1, <3>1, <3>2, <3>3, <3>4 DEF CopiedFrom, Consecutive
  <2>2. CASE row = 0 \/ prev_calendar_id # EntryId
    <3>1. EntryPlace = 0
      BY <2>2 DEF Copying, Position, EntryPlace
    <3>2. k \in 1 .. k /\ EntryPlace = k - k
      BY <1>1, <3>1
    <3>3. \A m \in k .. k : IdOf(q3, m) = EntryId
      BY <1>1
    <3>4. \A m \in k .. row : FALSE
      BY <1>1
    <3> QED
      BY <3>2, <3>3, <3>4 DEF Consecutive
  <2> QED
    BY <2>1, <2>2
<1>4. j \in DOMAIN q3 /\ j <= k
  BY <1>1, <1>3
<1>5. PICK c \in DOMAIN q2 : Counts(c) /\ IdOf(q2, c) = EntryId /\ k - j < SizeOf(q2, c)
  BY <1>3, <1>4 DEF Fit, FitTogether, Counts, q1, q2, q3
<1>6. EntryIndex = IndexOf(c)
  BY <1>2, <1>5 DEF IndexOf
<1>7. EntryIndex \in DOMAIN calendars /\ Len(calendars[EntryIndex].dates) = SizeOf(q2, c)
  BY <1>5, <1>6, CountedIndex DEF Allocated
<1>8. HasRoom(EntryIndex, EntryPlace)
  BY <1>3, <1>5, <1>7 DEF HasRoom
<1> QED
  BY <1>3, <1>8

\* One entry of a sequence is overwritten.
LEMMA Overwritten ==
  ASSUME NEW old \in Seq(Int), NEW p \in 1 .. Len(old), NEW x \in Int
  PROVE  LET new == [old EXCEPT ![p] = x] IN
         /\ Len(new) = Len(old) /\ DOMAIN new = 1 .. Len(new) /\ Len(new) \in Nat
         /\ new[p] = x
         /\ \A m \in 1 .. Len(new) : m # p => new[m] = old[m]
  OBVIOUS

\* A row of Q3 that does not end the load: its date gets its place, and what
\* follows row j is all of its calendar so far.
LEMMA EntryRowStep ==
  ASSUME TypeOK, LoadInvariant, EntryRow, Fit(source.text), pc' # "free", NEW k, k = row + 1
  PROVE  /\ row \in Nat /\ k \in DOMAIN q3
         /\ EntryIndex \in DOMAIN calendars /\ EntryPlace \in Nat /\ EntryPlace < Len(EntryDates)
         /\ Len(EntryDates) = Len(calendars[EntryIndex].dates)
         /\ DOMAIN EntryDates = 1 .. Len(EntryDates)
         /\ EntryDates[EntryPlace + 1] = DateOf(q3, k)
         /\ \A x \in 1 .. Len(EntryDates) :
              x # EntryPlace + 1 => EntryDates[x] = calendars[EntryIndex].dates[x]
         /\ \E j \in 1 .. k : /\ Consecutive(q3, j, k) /\ EntryPlace = k - j
                             /\ \A m \in j .. k : EntryDates[m - j + 1] = DateOf(q3, m)
         /\ calendars' = [calendars EXCEPT ![EntryIndex] =
              [id |-> @.id, dates |-> EntryDates,
               indexed |-> @.indexed \/ Complete(EntryDates, EntryPlace + 1)]]
         /\ prev_calendar_id' = EntryId /\ entry_count' = EntryPlace + 1 /\ row' = k
         /\ UNCHANGED <<pc, min_calendar_id, total, names, cache_filled>>
<1>1. pc = "q3" /\ Result = q3 /\ Allocated /\ Copying
  BY DEF EntryRow, Result, q3, LoadInvariant
<1>2. row \in Nat /\ k \in DOMAIN q3 /\ DOMAIN q3 \subseteq Nat
      /\ \A m \in 1 .. k : m \in DOMAIN q3
  BY <1>1, SourceRows DEF EntryRow, TypeOK, Rows
<1>3. PICK j \in 1 .. k :
        /\ Consecutive(q3, j, k) /\ EntryPlace = k - j
        /\ \A m \in j .. row : calendars[EntryIndex].dates[m - j + 1] = DateOf(q3, m)
        /\ HasRoom(EntryIndex, EntryPlace)
  BY <1>1, <1>2, EntryHasPlace
<1>4. /\ EntryIndex \in DOMAIN calendars /\ calendars[EntryIndex].dates \in Seq(Int)
      /\ EntryPlace \in Nat /\ EntryPlace < Len(calendars[EntryIndex].dates) /\ DateOf(q3, k) \in Int
  BY <1>2, <1>3, Numbers, SMTT(30) DEF HasRoom, TypeOK, Calendar
<1>5. /\ Len(EntryDates) = Len(calendars[EntryIndex].dates)
      /\ DOMAIN EntryDates = 1 .. Len(EntryDates)
      /\ Len(EntryDates) \in Nat
      /\ EntryDates[EntryPlace + 1] = DateOf(q3, k)
      /\ \A x \in 1 .. Len(EntryDates) :
           x # EntryPlace + 1 => EntryDates[x] = calendars[EntryIndex].dates[x]
  <2>1. EntryPlace + 1 \in 1 .. Len(calendars[EntryIndex].dates)
    BY <1>4
  <2>2. EntryDates = [calendars[EntryIndex].dates EXCEPT ![EntryPlace + 1] = DateOf(q3, k)]
    BY DEF EntryDates
  <2> QED
    BY <2>1, <2>2, <1>4, Overwritten
<1>6. \A m \in j .. k : EntryDates[m - j + 1] = DateOf(q3, m)
  <2> TAKE m \in j .. k
  <2>1. CASE m = k
    BY <1>3, <1>5, <2>1
  <2>2. CASE m # k
    <3>1. EntryPlace = k - j /\ Len(EntryDates) \in Nat /\ EntryPlace < Len(EntryDates)
      BY <1>3, <1>4, <1>5
    <3>2. m \in j .. row /\ m - j + 1 \in 1 .. Len(EntryDates) /\ m - j + 1 # EntryPlace + 1
      BY <1>2, <2>2, <3>1
    <3> QED
      BY <1>3, <1>5, <3>2
  <2> QED
    BY <2>1, <2>2
<1>7. ~(Complete(EntryDates, EntryPlace + 1) /\ Outlier(EntryDates))
  <2> SUFFICES ASSUME Complete(EntryDates, EntryPlace + 1), NEW x \in 1 .. Len(EntryDates)
               PROVE  ~(EntryDates[x] > EntryDates[Len(EntryDates)])
    BY <1>5 DEF Outlier
  <2> DEFINE m == x + j - 1
  <2>1. EntryPlace + 1 = Len(EntryDates)
    BY DEF Complete
  <2>6. EntryPlace = k - j /\ Len(EntryDates) = EntryPlace + 1
    BY <1>3, <2>1
  <2>2. m \in j .. k /\ x = m - j + 1 /\ Len(EntryDates) = k - j + 1
    BY <1>2, <2>6
  <2>3. EntryDates[x] = DateOf(q3, m) /\ EntryDates[Len(EntryDates)] = DateOf(q3, k)
    BY <1>2, <1>6, <2>2
  <2>4. m \in DOMAIN q3 /\ m <= k /\ Consecutive(q3, m, k)
    BY <1>2, <1>3, <2>2 DEF Consecutive
  <2>5. DateOf(q3, m) <= DateOf(q3, k)
    BY <1>1, <1>2, <2>4 DEF Fit, FitTogether, q1, q2, q3
  <2> QED
    BY <2>3, <2>5, Numbers
<1>8. /\ calendars' = [calendars EXCEPT ![EntryIndex] =
           [id |-> @.id, dates |-> EntryDates,
            indexed |-> @.indexed \/ Complete(EntryDates, EntryPlace + 1)]]
      /\ prev_calendar_id' = EntryId /\ entry_count' = EntryPlace + 1 /\ row' = k
      /\ UNCHANGED <<pc, min_calendar_id, total, names, cache_filled>>
  BY <1>1, <1>3, <1>7 DEF EntryRow, Fail, EntryDates, EntryPlace, EntryIndex, EntryId
<1>9. EntryPlace < Len(EntryDates)
  BY <1>4, <1>5
<1> QED
  BY <1>2, <1>3, <1>4, <1>5, <1>6, <1>8, <1>9

LEMMA EntryRowInvariant ==
  ASSUME TypeOK, LoadInvariant, EntryRow
  PROVE  LoadInvariant'
<1> SUFFICES ASSUME Fit(source.text)', pc' # "free" PROVE LoadInvariant'
  BY DEF LoadInvariant
<1> DEFINE k == row + 1
<1>1. /\ Fit(source.text) /\ q1' = q1 /\ q2' = q2 /\ q3' = q3 /\ pc = "q3" /\ Allocated
  BY SameSource DEF EntryRow, LoadInvariant
<1>2. /\ row \in Nat /\ EntryIndex \in DOMAIN calendars
      /\ Len(EntryDates) = Len(calendars[EntryIndex].dates)
      /\ \E j \in 1 .. k : /\ Consecutive(q3, j, k) /\ EntryPlace = k - j
                          /\ \A m \in j .. k : EntryDates[m - j + 1] = DateOf(q3, m)
      /\ calendars' = [calendars EXCEPT ![EntryIndex] =
           [id |-> @.id, dates |-> EntryDates,
            indexed |-> @.indexed \/ Complete(EntryDates, EntryPlace + 1)]]
      /\ prev_calendar_id' = EntryId /\ entry_count' = EntryPlace + 1 /\ row' = k
      /\ UNCHANGED <<pc, min_calendar_id>>
  BY <1>1, EntryRowStep
<1>3. PICK j \in 1 .. k : /\ Consecutive(q3, j, k) /\ EntryPlace = k - j
                          /\ \A m \in j .. k : EntryDates[m - j + 1] = DateOf(q3, m)
  BY <1>2
<1>4. /\ DOMAIN calendars' = DOMAIN calendars /\ calendars'[EntryIndex].dates = EntryDates
      /\ \A x \in DOMAIN calendars : Len(calendars'[x].dates) = Len(calendars[x].dates)
  BY <1>2
<1>5. Allocated'
  <2>1. \A c \in DOMAIN q2 : Counts(c) => IndexOf(c) \in DOMAIN calendars
    BY <1>1, CountedIndex DEF Allocated
  <2> QED
    BY <1>1, <1>2, <1>4, <2>1 DEF Allocated, Counts, IndexOf
<1>6. Copying'
  <2>1. EntryId - MinId(q1) = EntryIndex
    BY <1>1 DEF Allocated, get_calendar_index, EntryIndex
  <2>2. entry_count' = k - j + 1
    BY <1>2, <1>3
  <2>3. CopiedFrom(j)'
    BY <1>1, <1>2, <1>3, <1>4, <2>1, <2>2 DEF CopiedFrom, Consecutive, EntryId
  <2>4. row' # 0 /\ j \in 1 .. row'
    BY <1>2, <1>3
  <2> QED
    BY <2>3, <2>4 DEF Copying
<1> QED
  BY <1>1, <1>2, <1>5, <1>6 DEF LoadInvariant

LEMMA InvariantStep == TypeOK /\ LoadInvariant /\ [Next]_vars => LoadInvariant'
<1> SUFFICES ASSUME TypeOK, LoadInvariant, [Next]_vars PROVE LoadInvariant'
  OBVIOUS
<1>1. ASSUME NEW s \in Session, Begin(s) PROVE LoadInvariant'
  BY <1>1 DEF Begin, LoadInvariant
<1>2. CASE NoRows \/ Finish \/ Invalidate \/ Restart
  BY <1>2 DEF NoRows, Fail, Finish, Invalidate, Restart, LoadInvariant
<1>3. ASSUME NEW s \in Session, NEW p \in Settable, Set(s, p[1], p[2]) PROVE LoadInvariant'
  BY <1>3 DEF Set, LoadInvariant
<1>4. CASE UNCHANGED vars
  <2>1. q1' = q1 /\ q2' = q2 /\ q3' = q3 /\ (Fit(source.text)' <=> Fit(source.text))
    BY <1>4, SameSource DEF vars
  <2>2. (Allocated' <=> Allocated) /\ (Copying' <=> Copying)
    BY <1>4, <2>1 DEF vars, imcx, locals, Allocated, Counts, IndexOf, Copying, CopiedFrom
  <2> QED
    BY <1>4, <2>1, <2>2 DEF vars, locals, LoadInvariant
<1> QED
  BY <1>1, <1>2, <1>3, <1>4, LoadIdsInvariant, CountRowInvariant, CountsDoneInvariant,
     EntryRowInvariant DEF Next, Load

\* While the queries of a load fit together, no row of theirs makes it write
\* outside the memory allocated for it, whatever the tables hold and whatever
\* was loaded before.
THEOREM RoomCorrect == Spec => []RoomForEntries
<1>1. LoadInvariant => RoomForEntries
  BY DEF LoadInvariant, RoomForEntries
<1> QED
  BY <1>1, StartType, TypeStep, StartInvariant, InvariantStep, PTL DEF Spec
=============================================================================
