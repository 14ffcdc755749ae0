----------------------- MODULE SharedCacheCleanProofs -----------------------
(***************************************************************************)
(* What holds of SharedCache where a fill can only fail early, before Q2   *)
(* has returned a row, and the calendars of a version have different       *)
(* names: the names are exact, an answer by name is that of one version,   *)
(* the code implements CalendarCache, and no call is lost but by way of an *)
(* invalidation.  Each theorem states what it assumes; where a fill may    *)
(* fail at a row or at Q3, runs show how these properties are violated.    *)
(***************************************************************************)
EXTENDS SharedCacheFillProofs

\* Memory suffices and names differ; the tables may be missing or empty, and Q0, Q1
\* and Q2 may fail.
FailsEarly ==
  /\ AllocCost = 0 /\ "q3" \notin FailingQuery
  /\ \A v \in Version : \A i, j \in DOMAIN Tables[v].dates :
       Tables[v].name[i] = Tables[v].name[j] => i = j

\* No fill can fail at all.
NoFailure ==
  /\ FailsEarly /\ FailingQuery = {}
  /\ \A v \in Version :
       Tables[v].valid /\ Tables[v].min <= Tables[v].max /\ DOMAIN Tables[v].dates # {}

-----------------------------------------------------------------------------
(* The inductive invariant: the names at each point of a fill *)

NamesOf(v, ids) == {Tables[v].name[id] : id \in ids}

\* Nothing is cached: what a new segment, an invalidation and an early failure leave.
Empty == DOMAIN names = {} /\ Listed = {} /\ 0 .. calendar_count - 1 \subseteq DOMAIN calendars

Rows == {"q2", "q2_rows", "q3", "q3_rows"}

CleanAt(b) ==
  LET v   == snapshot[b]
      ids == DOMAIN Tables[v].dates
  IN
  /\ pc[b] = "q2" => DOMAIN names = {}
  /\ pc[b] = "q2_rows" => DOMAIN names = NamesOf(v, ids \ cursor[b])
  /\ pc[b] \in {"q3", "q3_rows"} => DOMAIN names = NamesOf(v, ids)
  /\ pc[b] \in {"q2_rows", "q3", "q3_rows"} => ids # {}

Clean ==
  /\ ~cache_filled /\ (\A b \in Backend : pc[b] \notin Rows) => Empty
  /\ \A b \in Backend : CleanAt(b)
  /\ NamesExact

-----------------------------------------------------------------------------
(* The steps of a fill that fails early or not at all *)

\* A call ends with an error, and the cache is as it was.
EndsEarly(b) == Raise(b) /\ UNCHANGED <<db, imcx>> /\ ~NoFailure

LEMMA SoundSnapshot ==
  ASSUME TypeOK, NEW b \in Backend, pc[b] # "idle"
  PROVE  LET t == Tables[snapshot[b]] IN
         /\ snapshot[b] \in Version
         /\ FailsEarly => \A i, j \in DOMAIN t.dates : t.name[i] = t.name[j] => i = j
         /\ NoFailure => t.valid /\ t.min <= t.max /\ DOMAIN t.dates # {}
<1>1. snapshot[b] \in Version
  BY SnapshotTables, TablesAssumption DEF Version
<1> QED
  BY <1>1 DEF FailsEarly, NoFailure

LEMMA AlwaysFits ==
  ASSUME FailsEarly, TypeOK, NEW n \in Int
  PROVE  Fits(n)
<1>1. AllocCost * n = 0 /\ 0 <= shmem_free
  BY TablesAssumption DEF FailsEarly, TypeOK, CacheType
<1> QED
  BY <1>1 DEF Fits

LEMMA EarlyQueryFails ==
  ASSUME FailsEarly, NEW b, NEW query, QueryFails(b, query)
  PROVE  Raise(b) /\ UNCHANGED imcx /\ ~NoFailure /\ query # "q3"
  BY DEF FailsEarly, NoFailure, QueryFails

LEMMA CleanValidate ==
  ASSUME FailsEarly, TypeOK, NEW b \in Backend, Validate(b)
  PROVE  \/ Goto(b, "lock_fill") /\ UNCHANGED <<db, imcx, held>>
         \/ EndsEarly(b)
<1>1. pc[b] # "idle"
  BY DEF Validate
<1>2. NoFailure => "q0" \notin FailingQuery /\ Tables[snapshot[b]].valid
  BY <1>1, SoundSnapshot DEF NoFailure
<1> QED
  BY <1>2 DEF Validate, EndsEarly

LEMMA CleanQueryIds ==
  ASSUME FailsEarly, TypeOK, NEW b \in Backend, QueryIds(b), NEW v, v = snapshot[b]
  PROVE  \/ /\ pg_cache_init(Tables[v].min, Tables[v].max - Tables[v].min + 1)
            /\ Goto(b, "q2") /\ UNCHANGED <<db, cache_filled, names, held>>
         \/ EndsEarly(b)
<1>1. pc[b] # "idle" /\ UNCHANGED db
  BY DEF QueryIds
<1>2. Tables[v].min \in Int /\ Tables[v].max \in Int
  BY <1>1, SnapshotTables
<1>3. Fits(Tables[v].max - Tables[v].min + 1 + 1)
  BY <1>2, AlwaysFits
<1>4. CASE QueryFails(b, "q1")
  BY <1>1, <1>4, EarlyQueryFails DEF EndsEarly
<1>5. CASE Tables[v].min > Tables[v].max /\ Raise(b) /\ UNCHANGED imcx
  <2>1. ~NoFailure
    BY <1>1, <1>2, <1>5, SoundSnapshot
  <2> QED
    BY <1>1, <1>5, <2>1 DEF EndsEarly
<1> QED
  BY <1>2, <1>3, <1>4, <1>5 DEF QueryIds

LEMMA CleanQuery ==
  ASSUME FailsEarly, TypeOK, Clean, NEW b \in Backend, QueryCounts(b) \/ QueryEntries(b)
  PROVE  \/ /\ \/ pc[b] = "q2" /\ GotoRows(b, "q2_rows")
               \/ pc[b] = "q3" /\ GotoRows(b, "q3_rows")
            /\ DOMAIN Tables[snapshot[b]].dates # {}
            /\ UNCHANGED <<db, imcx, held>>
         \/ pc[b] = "q2" /\ EndsEarly(b)
<1>1. pc[b] # "idle"
  BY DEF QueryCounts, QueryEntries
<1>2. NoFailure => DOMAIN Tables[snapshot[b]].dates # {}
  BY <1>1, SoundSnapshot
<1>3. CASE QueryCounts(b)
  BY <1>2, <1>3, EarlyQueryFails DEF QueryCounts, Query, EndsEarly
<1>4. CASE QueryEntries(b)
  <2>1. DOMAIN Tables[snapshot[b]].dates # {}
    BY <1>4 DEF QueryEntries, Clean, CleanAt
  <2> QED
    BY <1>4, <2>1, EarlyQueryFails DEF QueryEntries, Query
<1> QED
  BY <1>3, <1>4

\* The names of a version differ, so that the next one is not in the hash table.
LEMMA CleanInitCalendar ==
  ASSUME FailsEarly, TypeOK, Clean, NEW b \in Backend, NEW id \in cursor[b], InitCalendar(b, id),
         NEW v, v = snapshot[b]
  PROVE  /\ Tables[v].name[id] \notin DOMAIN names
         /\ DOMAIN names' = DOMAIN names \cup {Tables[v].name[id]}
         /\ Advance(b, id) /\ UNCHANGED <<db, cache_filled, held>>
<1> DEFINE ids == DOMAIN Tables[v].dates
<1>1. pc[b] = "q2_rows" /\ pc[b] # "idle"
  BY DEF InitCalendar
<1>2. id \in ids
  BY <1>1 DEF TypeOK, SessionType
<1>3. \A i, j \in ids : Tables[v].name[i] = Tables[v].name[j] => i = j
  BY <1>1, SoundSnapshot
<1>4. DOMAIN names = NamesOf(v, ids \ cursor[b])
  BY <1>1 DEF Clean, CleanAt
<1>5. Tables[v].name[id] \notin DOMAIN names
  BY <1>2, <1>3, <1>4 DEF NamesOf
<1>6. Fits(1)
  BY AlwaysFits
<1>7. pg_set_calendar_name(b, Tables[v].name[id], id) /\ UNCHANGED <<db, cache_filled>>
  BY <1>6 DEF InitCalendar
<1>8. DOMAIN names' = DOMAIN names \cup {Tables[v].name[id]}
  BY <1>5, <1>7 DEF pg_set_calendar_name
<1> QED
  BY <1>5, <1>7, <1>8 DEF pg_set_calendar_name

LEMMA CleanCopyCalendar ==
  ASSUME FailsEarly, TypeOK, NEW b \in Backend, NEW id \in cursor[b], CopyCalendar(b, id)
  PROVE  Advance(b, id) /\ UNCHANGED <<db, array, calendar_count, cache_filled, names, held>>
<1>1. Fits(1)
  BY AlwaysFits
<1> QED
  BY <1>1 DEF CopyCalendar

-----------------------------------------------------------------------------
(* Clean is preserved *)

LEMMA SameNames ==
  ASSUME TypeOK, NamesExact, UNCHANGED imcx, db' \in Nat, db <= db'
  PROVE  NamesExact'
<1>1. db \in Nat
  BY TablesAssumption DEF TypeOK, OtherType, Version
<1>2. CASE ~cache_filled
  BY <1>2 DEF NamesExact, imcx
<1>3. CASE cache_filled
  <2>1. PICK v \in 1 .. db : Holds(v) /\ DOMAIN names = {Tables[v].name[id] : id \in DOMAIN Tables[v].dates}
    BY <1>3 DEF NamesExact
  <2>2. v \in 1 .. db' /\ Holds(v)' /\ UNCHANGED names
    BY <1>1, <2>1 DEF Holds, imcx
  <2> QED
    BY <2>1, <2>2 DEF NamesExact
<1> QED
  BY <1>2, <1>3

\* A backend that was not in the middle of a fill leaves the cache alone and
\* does not go on with one.
LEMMA KeepsClean ==
  ASSUME TypeOK, Clean, NEW b \in Backend, NEW point, point \notin Rows, pc[b] \notin Rows,
         UNCHANGED <<db, imcx>>, pc' = [pc EXCEPT ![b] = point],
         \A c \in Backend \ {b} : snapshot'[c] = snapshot[c] /\ cursor'[c] = cursor[c]
  PROVE  Clean'
<1>1. NamesExact'
  BY SameNames, TablesAssumption DEF Clean, TypeOK, OtherType, Version
<1>2. pc'[b] = point /\ \A c \in Backend \ {b} : pc'[c] = pc[c]
  BY DEF TypeOK, SessionType
<1>3. \A c \in Backend : CleanAt(c)'
  BY <1>2 DEF Clean, CleanAt, Rows, imcx
<1>4. (\A c \in Backend : pc'[c] \notin Rows) => \A c \in Backend : pc[c] \notin Rows
  BY <1>2
<1>5. ~cache_filled' /\ (\A c \in Backend : pc'[c] \notin Rows) => Empty'
  BY <1>4 DEF Clean, Empty, Listed, imcx
<1> QED
  BY <1>1, <1>3, <1>5 DEF Clean

LEMMA GotoClean ==
  ASSUME TypeOK, Clean, NEW b \in Backend, NEW point, point \notin Rows, pc[b] \notin Rows,
         UNCHANGED <<db, imcx>>, Goto(b, point)
  PROVE  Clean'
  BY KeepsClean DEF Goto

LEMMA ReturnClean ==
  ASSUME TypeOK, Clean, NEW b \in Backend, NEW outcome, pc[b] \notin Rows,
         UNCHANGED <<db, imcx>>, Return(b, outcome)
  PROVE  Clean'
<1>1. "idle" \notin Rows
  BY DEF Rows
<1> QED
  BY <1>1, KeepsClean DEF Return, TypeOK, SessionType

LEMMA CrashClean == Crash => Clean'
<1> SUFFICES ASSUME Crash PROVE Clean'
  OBVIOUS
<1>1. /\ DOMAIN names' = {} /\ calendar_count' = 0 /\ ~cache_filled'
      /\ \A b \in Backend : pc'[b] = "idle"
  BY DEF Crash
<1>2. Empty'
  BY <1>1 DEF Empty, Listed
<1> QED
  BY <1>1, <1>2 DEF Clean, CleanAt, NamesExact, Rows

\* Backend b, alone with the cache, goes on with its fill.
LEMMA FillClean ==
  ASSUME LockDiscipline, NEW b \in Backend, ModeAt(pc[b]) = "exclusive",
         ~cache_filled', pc'[b] \in Rows, \A c \in Backend \ {b} : pc'[c] = pc[c], CleanAt(b)'
  PROVE  Clean'
<1>1. ASSUME NEW c \in Backend \ {b}
      PROVE  CleanAt(c)'
  <2>1. pc'[c] \notin Filling
    BY <1>1, FillerAlone, FillingIsExclusive
  <2> QED
    BY <2>1 DEF CleanAt, Filling
<1> QED
  BY <1>1 DEF Clean, NamesExact

\* Q2 fails, or returns no row: the array has blank calendars only.
LEMMA NoRowsClean ==
  ASSUME TypeOK, LockDiscipline, FillInvariant, Clean, NEW b \in Backend, pc[b] = "q2", EndsEarly(b)
  PROVE  Clean'
<1>1. ModeAt(pc[b]) = "exclusive" /\ ~cache_filled
  BY Modes DEF FillInvariant, Progress, Filling
<1>2. ASSUME NEW c \in Backend PROVE pc'[c] \notin Rows
  <2>1. CASE c = b
    BY <2>1 DEF EndsEarly, Raise, Return, Rows, TypeOK, SessionType
  <2>2. CASE c # b
    <3>1. pc[c] \notin Filling /\ pc'[c] = pc[c]
      BY <1>1, <2>2, FillerAlone, FillingIsExclusive
         DEF EndsEarly, Raise, Return, TypeOK, SessionType
    <3> QED
      BY <3>1 DEF Rows, Filling
  <2> QED
    BY <2>1, <2>2
<1>3. Empty
  <2>1. DOMAIN names = {} /\ Built(Tables[snapshot[b]], {}, {})
    BY DEF Clean, CleanAt, FillInvariant, Progress
  <2>2. \A i \in 0 .. calendar_count - 1 : calendars[i] = Blank
    BY <2>1 DEF Built, CalendarIn
  <2>3. Listed = {}
    BY <2>2 DEF Listed, Blank
  <2> QED
    BY <2>1, <2>3 DEF Empty, Built
<1>4. Empty' /\ ~cache_filled'
  BY <1>1, <1>3 DEF Empty, Listed, EndsEarly, imcx
<1> QED
  BY <1>2, <1>4 DEF Clean, CleanAt, NamesExact, Rows

LEMMA FillingClean ==
  ASSUME FailsEarly, TypeOK, LockDiscipline, FillInvariant, Clean, NEW b \in Backend,
         Fill(b), ~FinishFill(b)
  PROVE  Clean'
<1>0. PICK v : v = snapshot[b]
  OBVIOUS
<1> DEFINE ids == DOMAIN Tables[v].dates
<1>1. pc[b] \in Filling
  BY DEF Fill, QueryIds, QueryCounts, QueryEntries, CountsDone, InitCalendar, CopyCalendar, Filling
<1>2. ModeAt(pc[b]) = "exclusive" /\ ~cache_filled
  BY <1>1, FillingIsExclusive DEF FillInvariant, Progress
<1>3. ASSUME NEW c \in Backend \ {b} PROVE pc[c] \notin Filling
  BY <1>2, <1>3, FillerAlone, FillingIsExclusive
<1>4. CASE QueryIds(b)
  <2>1. pc[b] = "q1" /\ \A c \in Backend : pc[c] \notin Rows
    BY <1>3, <1>4 DEF QueryIds, Filling, Rows
  <2>2. DOMAIN names = {}
    BY <1>2, <2>1 DEF Clean, Empty
  <2>6. CASE EndsEarly(b)
    BY <2>1, <2>6, ReturnClean DEF EndsEarly, Raise
  <2> SUFFICES ASSUME ~EndsEarly(b) PROVE Clean'
    BY <2>6
  <2>3. Goto(b, "q2") /\ UNCHANGED <<cache_filled, names>>
    BY <1>0, <1>4, CleanQueryIds
  <2>4. pc'[b] = "q2" /\ \A c \in Backend \ {b} : pc'[c] = pc[c]
    BY <2>3 DEF Goto, TypeOK, SessionType
  <2>5. CleanAt(b)'
    BY <2>2, <2>3, <2>4 DEF CleanAt
  <2> QED
    BY <1>2, <2>3, <2>4, <2>5, FillClean DEF Rows
<1>5. CASE QueryCounts(b) \/ QueryEntries(b)
  <2>7. CASE pc[b] = "q2" /\ EndsEarly(b)
    BY <2>7, NoRowsClean
  <2> SUFFICES ASSUME ~(pc[b] = "q2" /\ EndsEarly(b)) PROVE Clean'
    BY <2>7
  <2>0. ids # {}
    BY <1>0, <1>5, CleanQuery
  <2>1. PICK rows \in {"q2_rows", "q3_rows"} : pc[b] = (IF rows = "q2_rows" THEN "q2" ELSE "q3") /\ GotoRows(b, rows)
    BY <1>5, CleanQuery
  <2>2. UNCHANGED <<cache_filled, names>>
    BY <1>5, CleanQuery DEF imcx
  <2>3. /\ pc'[b] = rows /\ snapshot'[b] = v /\ cursor'[b] = ids
        /\ \A c \in Backend \ {b} : pc'[c] = pc[c]
    BY <1>0, <2>1 DEF GotoRows, TypeOK, SessionType
  <2>4. DOMAIN names = IF rows = "q2_rows" THEN {} ELSE NamesOf(v, ids)
    BY <1>0, <2>1 DEF Clean, CleanAt
  <2>5. NamesOf(v, ids \ cursor'[b]) = {}
    BY <2>3 DEF NamesOf
  <2>6. CleanAt(b)'
    BY <2>0, <2>2, <2>3, <2>4, <2>5 DEF CleanAt, NamesOf
  <2> QED
    BY <1>2, <2>2, <2>3, <2>6, FillClean DEF Rows
<1>6. CASE CountsDone(b)
  <2>1. pc[b] = "q2_rows" /\ cursor[b] = {} /\ Goto(b, "q3") /\ UNCHANGED <<cache_filled, names>>
    BY <1>6 DEF CountsDone, imcx
  <2>2. /\ pc'[b] = "q3" /\ snapshot'[b] = v
        /\ \A c \in Backend \ {b} : pc'[c] = pc[c]
    BY <1>0, <2>1 DEF Goto, TypeOK, SessionType
  <2>3. DOMAIN names = NamesOf(v, ids \ {})
    BY <1>0, <2>1 DEF Clean, CleanAt
  <2>4. ids # {}
    BY <1>0, <2>1 DEF Clean, CleanAt
  <2>5. CleanAt(b)'
    BY <2>1, <2>2, <2>3, <2>4 DEF CleanAt, NamesOf
  <2> QED
    BY <1>2, <2>1, <2>2, <2>5, FillClean DEF Rows
<1>7. ASSUME NEW id \in cursor[b], InitCalendar(b, id) PROVE Clean'
  <2>1. /\ pc[b] = "q2_rows" /\ Advance(b, id) /\ UNCHANGED cache_filled
        /\ DOMAIN names' = DOMAIN names \cup {Tables[v].name[id]}
    BY <1>0, <1>7, CleanInitCalendar DEF InitCalendar
  <2>2. id \in ids
    BY <1>0, <1>7, <2>1 DEF TypeOK, SessionType
  <2>3. ids \ cursor'[b] = (ids \ cursor[b]) \cup {id} /\ pc' = pc /\ snapshot' = snapshot
    BY <2>1, <2>2, AdvanceDone
  <2>4. DOMAIN names = NamesOf(v, ids \ cursor[b])
    BY <1>0, <2>1 DEF Clean, CleanAt
  <2>5. DOMAIN names' = NamesOf(v, ids \ cursor'[b])
    BY <2>1, <2>3, <2>4 DEF NamesOf
  <2>6. CleanAt(b)'
    BY <1>0, <2>1, <2>2, <2>3, <2>5 DEF CleanAt, NamesOf
  <2> QED
    BY <1>2, <2>1, <2>3, <2>6, FillClean DEF Rows
<1>8. ASSUME NEW id \in cursor[b], CopyCalendar(b, id) PROVE Clean'
  <2>1. pc[b] = "q3_rows" /\ Advance(b, id) /\ UNCHANGED <<cache_filled, names>>
    BY <1>8, CleanCopyCalendar DEF CopyCalendar
  <2>2. pc' = pc /\ snapshot' = snapshot
    BY <2>1 DEF Advance
  <2>3. CleanAt(b)'
    BY <2>1, <2>2 DEF Clean, CleanAt, NamesOf
  <2> QED
    BY <1>2, <2>1, <2>2, <2>3, FillClean DEF Rows
<1> QED
  BY <1>4, <1>5, <1>6, <1>7, <1>8 DEF Fill

LEMMA FinishClean ==
  ASSUME TypeOK, LockDiscipline, FillInvariant, Clean, NEW b \in Backend, FinishFill(b)
  PROVE  Clean'
<1>0. PICK v : v = snapshot[b]
  OBVIOUS
<1>1. /\ pc[b] = "q3_rows" /\ ModeAt(pc[b]) = "exclusive" /\ cache_filled' /\ UNCHANGED <<db, names>>
      /\ pc'[b] = "lock_read" /\ \A c \in Backend \ {b} : pc'[c] = pc[c]
  BY Modes DEF FinishFill, Goto, TypeOK, SessionType
<1>2. v \in 1 .. db /\ Holds(v)'
  BY <1>0, FinishHolds
<1>3. DOMAIN names' = {Tables[v].name[id] : id \in DOMAIN Tables[v].dates}
  BY <1>0, <1>1 DEF Clean, CleanAt, NamesOf
<1>4. NamesExact'
  BY <1>1, <1>2, <1>3 DEF NamesExact
<1>5. ASSUME NEW c \in Backend PROVE pc'[c] \notin Rows
  <2>1. CASE c = b
    BY <1>1, <2>1 DEF Rows
  <2>2. CASE c # b
    <3>1. pc[c] \notin Filling
      BY <1>1, <2>2, FillerAlone, FillingIsExclusive
    <3> QED
      BY <1>1, <2>2, <3>1 DEF Rows, Filling
  <2> QED
    BY <2>1, <2>2
<1>6. \A c \in Backend : CleanAt(c)'
  BY <1>5 DEF CleanAt, Rows
<1> QED
  BY <1>1, <1>4, <1>6 DEF Clean

LEMMA InvalidateClean ==
  ASSUME TypeOK, LockDiscipline, Clean, NEW b \in Backend, Invalidate(b)
  PROVE  Clean'
<1>1. /\ pc[b] = "invalidate" /\ pc[b] \notin Rows /\ ModeAt(pc[b]) = "exclusive" /\ UNCHANGED db
      /\ pc'[b] = "idle" /\ \A c \in Backend \ {b} : pc'[c] = pc[c]
  BY Modes DEF Invalidate, Return, Rows, TypeOK, SessionType
<1>2. CASE UNCHANGED imcx
  BY <1>1, <1>2, ReturnClean DEF Invalidate
<1>3. CASE cache_invalidate
  <2>1. Empty' /\ ~cache_filled'
    BY <1>3 DEF cache_invalidate, Empty, Listed
  <2>2. ASSUME NEW c \in Backend PROVE pc'[c] \notin Rows
    <3>1. CASE c = b
      BY <1>1, <3>1 DEF Rows
    <3>2. CASE c # b
      <4>1. pc[c] \notin Filling
        BY <1>1, <3>2, FillerAlone, FillingIsExclusive
      <4> QED
        BY <1>1, <3>2, <4>1 DEF Rows, Filling
    <3> QED
      BY <3>1, <3>2
  <2> QED
    BY <2>1, <2>2 DEF Clean, CleanAt, NamesExact, Rows
<1> QED
  BY <1>2, <1>3 DEF Invalidate

LEMMA StepClean ==
  ASSUME FailsEarly, TypeOK, LockDiscipline, FillInvariant, Clean, NEW b \in Backend, Step(b)
  PROVE  Clean'
<1>1. CASE CheckFilled(b)
  BY <1>1, GotoClean DEF CheckFilled, Rows
<1>2. CASE Validate(b)
  BY <1>2, CleanValidate, GotoClean, ReturnClean DEF Validate, EndsEarly, Raise, Rows
<1>3. CASE LockToFill(b) \/ Recheck(b)
  BY <1>3, GotoClean DEF LockToFill, Recheck, Rows
<1>4. CASE LockToRead(b)
  BY <1>4, GotoClean DEF LockToRead, Rows
<1>5. CASE Info(b) \/ Report(b)
  BY <1>5, ReturnClean DEF Info, Report, Rows
<1>6. CASE AddDaysById(b) \/ AddDaysByName(b)
  BY <1>6, ReturnClean, CrashClean DEF AddDaysById, AddDaysByName, AddDays, Raise, Rows
<1>7. CASE CheckToInvalidate(b)
  BY <1>7, GotoClean, ReturnClean DEF CheckToInvalidate, Rows
<1>8. CASE LockToInvalidate(b)
  BY <1>8, GotoClean DEF LockToInvalidate, Rows
<1> QED
  BY <1>1, <1>2, <1>3, <1>4, <1>5, <1>6, <1>7, <1>8, FillingClean, FinishClean, InvalidateClean
     DEF Step, Read

LEMMA InitClean == Init => Clean
<1> SUFFICES ASSUME Init PROVE Clean
  OBVIOUS
<1>1. Empty /\ ~cache_filled /\ \A b \in Backend : pc[b] = "idle"
  BY DEF Init, Cleared, Empty, Listed
<1> QED
  BY <1>1 DEF Clean, CleanAt, NamesExact, Rows

LEMMA NextClean ==
  ASSUME FailsEarly
  PROVE  TypeOK /\ LockDiscipline /\ FillInvariant /\ Clean /\ [Next]_vars => Clean'
<1> SUFFICES ASSUME TypeOK, LockDiscipline, FillInvariant, Clean, [Next]_vars PROVE Clean'
  OBVIOUS
<1>0. db \in Nat
  BY TablesAssumption DEF TypeOK, OtherType, Version
<1>1. ASSUME UNCHANGED <<imcx, session>>, db' \in Nat, db <= db'
      PROVE  Clean'
  <2>1. NamesExact'
    BY <1>1, SameNames DEF Clean
  <2>2. \A b \in Backend : CleanAt(b)'
    BY <1>1 DEF Clean, CleanAt, imcx, session
  <2>3. ~cache_filled' /\ (\A b \in Backend : pc'[b] \notin Rows) => Empty'
    BY <1>1 DEF Clean, Empty, Listed, imcx, session
  <2> QED
    BY <2>1, <2>2, <2>3 DEF Clean
<1>2. CASE UNCHANGED vars
  BY <1>0, <1>1, <1>2 DEF vars
<1>3. CASE Commit
  BY <1>0, <1>1, <1>3 DEF Commit
<1>4. ASSUME NEW b \in Backend, NEW c \in Call, Begin(b, c)
      PROVE  Clean'
  BY <1>4, KeepsClean DEF Begin, Rows, TypeOK, SessionType
<1> QED
  BY <1>2, <1>3, <1>4, StepClean DEF Next

LEMMA CleanInvariant ==
  ASSUME FailsEarly
  PROVE  Spec => [](TypeOK /\ LockDiscipline /\ FillInvariant /\ Clean)
<1>1. Init => TypeOK /\ LockDiscipline /\ FillInvariant /\ Clean
  BY TypeInit, LockInit, InitFill, InitClean
<1>2. TypeOK /\ LockDiscipline /\ FillInvariant /\ Clean /\ [Next]_vars
        => (TypeOK /\ LockDiscipline /\ FillInvariant /\ Clean)'
  BY TypeNext, LockNext, NextFill, NextClean
<1> QED
  BY <1>1, <1>2, PTL DEF Spec

\* Where fills fail early or not at all, the hash table holds the names of the
\* cached version and no others, whatever versions were cached and invalidated
\* before.
THEOREM NamesCorrect == ASSUME FailsEarly PROVE Spec => []NamesExact
<1>1. Clean => NamesExact
  BY DEF Clean
<1> QED
  BY <1>1, CleanInvariant, PTL

\* A fill finds every name free that it has not entered itself, also after fills
\* that failed at a missing table, at Q0, Q1 or Q2: it takes a failure at a row
\* or at Q3 to make the next fill fail.
THEOREM RetryCorrect == ASSUME FailsEarly PROVE Spec => []RetryFindsNamesFree
<1>1. TypeOK /\ Clean => RetryFindsNamesFree
  <2> SUFFICES ASSUME TypeOK, Clean, NEW b \in Backend, pc[b] = "q2_rows", NEW id \in cursor[b]
               PROVE  Tables[snapshot[b]].name[id] \notin DOMAIN names
    BY DEF RetryFindsNamesFree
  <2> DEFINE t == Tables[snapshot[b]]
  <2>1. id \in DOMAIN t.dates
    BY DEF TypeOK, SessionType
  <2>2. \A i, j \in DOMAIN t.dates : t.name[i] = t.name[j] => i = j
    BY SoundSnapshot
  <2>3. DOMAIN names = NamesOf(snapshot[b], DOMAIN t.dates \ cursor[b])
    BY DEF Clean, CleanAt
  <2> QED
    BY <2>1, <2>2, <2>3 DEF NamesOf
<1> QED
  BY <1>1, CleanInvariant, PTL

-----------------------------------------------------------------------------
(* The answers *)

\* What the structure caches.
Content == IF cache_filled THEN CachedDates ELSE Nothing

\* An answer by name is computed from the calendar of that name in one version.
Named(name, outcome) ==
  \E v \in 1 .. db : \E i \in DOMAIN Tables[v].dates :
    /\ Tables[v].name[i] = name
    /\ outcome = Dates([id \in {i} |-> Tables[v].dates[id]])

\* What a call may answer.
MayAnswer(b, outcome) ==
  \/ outcome.kind \notin {"ok", "error", "lost"} /\ outcome.content = Nothing
  \/ outcome = Outcome("error") /\ (NoFailure => call[b].fn \in {"by_id", "by_name"})
  \/ /\ outcome.kind = "ok"
     /\ \E ids \in SUBSET DOMAIN Content : outcome.content = [id \in ids |-> Content[id]]
     /\ call[b].fn = "by_name" => Named(call[b].name, outcome)

LEMMA FilledHolds ==
  ASSUME TypeOK, Clean, cache_filled
  PROVE  \E v \in 1 .. db :
           /\ v \in Version /\ Holds(v) /\ Content = Tables[v].dates
           /\ DOMAIN names = {Tables[v].name[id] : id \in DOMAIN Tables[v].dates}
<1>1. PICK v \in 1 .. db :
        Holds(v) /\ DOMAIN names = {Tables[v].name[id] : id \in DOMAIN Tables[v].dates}
  BY DEF Clean, NamesExact
<1>2. v \in Version
  BY TablesAssumption DEF TypeOK, OtherType, Version
<1>3. CachedDates = Tables[v].dates
  BY <1>1, <1>2, CachedOfVersion
<1> QED
  BY <1>1, <1>2, <1>3 DEF Content

LEMMA OutcomeAnswers ==
  ASSUME NEW b, NEW kind, kind \notin {"ok", "error", "lost"}
  PROVE  MayAnswer(b, Outcome(kind))
  BY DEF MayAnswer, Outcome

\* A reader that finds no filled cache finds it empty: no fill has left a part
\* of its work behind.
LEMMA UnfilledIsEmpty ==
  ASSUME LockDiscipline, Clean, NEW b \in Backend, pc[b] = "read", ~cache_filled
  PROVE  Empty
<1>1. ASSUME NEW c \in Backend PROVE pc[c] \notin Rows
  BY <1>1, Modes DEF LockDiscipline, Rows
<1> QED
  BY <1>1 DEF Clean

LEMMA ReportAnswers ==
  ASSUME TypeOK, LockDiscipline, Clean, NEW b \in Backend, Report(b)
  PROVE  \E outcome : Return(b, outcome) /\ MayAnswer(b, outcome)
<1>1. pc[b] = "read" /\ call[b].fn # "by_name"
  BY DEF Report
<1>2. 0 .. calendar_count - 1 \subseteq DOMAIN calendars /\ CachedDates = Content
  <2>1. CASE cache_filled
    BY <2>1, FilledHolds, CachedOfVersion DEF Content
  <2>2. CASE ~cache_filled
    <3>1. 0 .. calendar_count - 1 \subseteq DOMAIN calendars /\ Listed = {}
      BY <1>1, <2>2, UnfilledIsEmpty DEF Empty
    <3>3. {calendars[i].id : i \in Listed} = {}
      BY <3>1
    <3>4. CachedDates = Nothing
      BY <3>3 DEF CachedDates, Nothing
    <3> QED
      BY <2>2, <3>1, <3>4 DEF Content
  <2> QED
    BY <2>1, <2>2
<1>3. Return(b, Dates(Content))
  BY <1>2 DEF Report
<1>4. Content = [id \in DOMAIN Content |-> Content[id]]
  BY DEF Content, CachedDates, Nothing
<1>5. MayAnswer(b, Dates(Content))
  BY <1>1, <1>4 DEF MayAnswer, Dates
<1> QED
  BY <1>3, <1>5

\* The calendar that an index leads to in a filled cache.
LEMMA IndexedIsCached ==
  ASSUME TypeOK, cache_filled, NEW v \in Version, Holds(v), Content = Tables[v].dates,
         NEW i \in DOMAIN calendars, calendars[i].indexed
  PROVE  /\ calendars[i].id = Tables[v].min + i
         /\ calendars[i].id \in DOMAIN Content
         /\ calendars[i].dates = Content[calendars[i].id]
<1> DEFINE t == Tables[v]
<1>1. calendars[i] = IF t.min + i \in DOMAIN t.dates
                     THEN [id |-> t.min + i, dates |-> t.dates[t.min + i], indexed |-> TRUE]
                     ELSE Blank
  BY DEF Holds
<1>2. t.min + i \in DOMAIN t.dates
  <2>1. ~Blank.indexed
    BY DEF Blank
  <2> QED
    BY <1>1, <2>1
<1> QED
  BY <1>1, <1>2

LEMMA AddDaysAnswers ==
  ASSUME TypeOK, Clean, NEW b \in Backend, NEW id \in Int, AddDays(b, id), ~Crash,
         \/ call[b].fn = "by_id"
         \/ call[b].fn = "by_name" /\ call[b].name \in DOMAIN names /\ id = names[call[b].name]
  PROVE  \E outcome : Return(b, outcome) /\ MayAnswer(b, outcome)
<1> DEFINE i == get_calendar_index(id)
<1>1. CASE \E kind : kind \notin {"ok", "error", "lost"} /\ Return(b, Outcome(kind))
  BY <1>1, OutcomeAnswers
<1>2. CASE Raise(b)
  BY <1>2 DEF Raise, MayAnswer
<1>3. CASE /\ cache_filled /\ i \in DOMAIN calendars /\ calendars[i].indexed
           /\ Return(b, Dates([x \in {calendars[i].id} |-> calendars[i].dates]))
  <2> DEFINE own     == calendars[i].id
             outcome == Dates([x \in {own} |-> calendars[i].dates])
  <2>1. PICK v \in 1 .. db :
          /\ v \in Version /\ Holds(v) /\ Content = Tables[v].dates
          /\ DOMAIN names = {Tables[v].name[j] : j \in DOMAIN Tables[v].dates}
    BY <1>3, FilledHolds
  <2>2. own = Tables[v].min + i /\ own \in DOMAIN Content /\ calendars[i].dates = Content[own]
    BY <1>3, <2>1, IndexedIsCached
  <2>3. [x \in {own} |-> calendars[i].dates] = [x \in {own} |-> Content[x]]
    BY <2>2
  <2>4. call[b].fn = "by_name" => Named(call[b].name, outcome)
    <3> SUFFICES ASSUME call[b].fn = "by_name" PROVE Named(call[b].name, outcome)
      OBVIOUS
    <3>1. PICK j \in DOMAIN Tables[v].dates : call[b].name = Tables[v].name[j] /\ id = j
      BY <2>1 DEF Holds
    <3>2. own = j
      <4>1. min_calendar_id = Tables[v].min /\ Tables[v].min \in Int
        BY <2>1, TablesAssumption DEF Holds
      <4> QED
        BY <2>2, <3>1, <4>1 DEF get_calendar_index
    <3>3. outcome = Dates([x \in {j} |-> Tables[v].dates[x]])
      BY <2>1, <2>3, <3>2
    <3> QED
      BY <3>1, <3>3 DEF Named
  <2>5. outcome.kind = "ok" /\ outcome.content = [x \in {own} |-> Content[x]]
    BY <2>3 DEF Dates
  <2>6. {own} \in SUBSET DOMAIN Content
    BY <2>2
  <2>7. MayAnswer(b, outcome)
    BY <2>4, <2>5, <2>6 DEF MayAnswer
  <2> QED
    BY <1>3, <2>7
<1> QED
  BY <1>1, <1>2, <1>3 DEF AddDays

LEMMA AddDaysCallAnswers ==
  ASSUME TypeOK, Clean, NEW b \in Backend, AddDaysById(b) \/ AddDaysByName(b), ~Crash
  PROVE  \E outcome : Return(b, outcome) /\ MayAnswer(b, outcome)
<1>1. CASE AddDaysById(b)
  <2>1. call[b].id \in Int
    BY <1>1, TablesAssumption DEF AddDaysById, TypeOK, SessionType, Call
  <2> QED
    BY <1>1, <2>1, AddDaysAnswers DEF AddDaysById
<1>2. CASE AddDaysByName(b)
  <2>1. CASE Return(b, Outcome("not_found"))
    BY <2>1, OutcomeAnswers
  <2>2. CASE call[b].name \in DOMAIN names /\ AddDays(b, names[call[b].name])
    <3>1. names[call[b].name] \in Int
      BY <2>2 DEF TypeOK, CacheType
    <3> QED
      BY <1>2, <2>2, <3>1, AddDaysAnswers DEF AddDaysByName
  <2> QED
    BY <1>2, <2>1, <2>2 DEF AddDaysByName
<1> QED
  BY <1>1, <1>2

-----------------------------------------------------------------------------
(* What a step is to the callers *)

\* The step ends no call, and changes the cache only while it is not filled.
Internal(b) ==
  /\ UNCHANGED <<db, answer, call>>
  /\ UNCHANGED imcx \/ (~cache_filled /\ ~cache_filled')
  /\ pc[b] # "idle" /\ \E point : pc' = [pc EXCEPT ![b] = point]

Answers(b) ==
  /\ UNCHANGED <<db, imcx>> /\ pc[b] # "idle"
  /\ \E outcome : Return(b, outcome) /\ MayAnswer(b, outcome)

LEMMA GotoInternal ==
  ASSUME NEW b, NEW point, Goto(b, point), pc[b] # "idle", UNCHANGED <<db, imcx>>
  PROVE  Internal(b)
  BY DEF Goto, Internal

LEMMA EarlyAnswers ==
  ASSUME NEW b, EndsEarly(b), pc[b] # "idle"
  PROVE  Answers(b)
<1>1. MayAnswer(b, Outcome("error"))
  BY DEF EndsEarly, MayAnswer
<1> QED
  BY <1>1 DEF EndsEarly, Raise, Answers

LEMMA FillInternal ==
  ASSUME FailsEarly, TypeOK, LockDiscipline, FillInvariant, Clean, NEW b \in Backend,
         Fill(b), ~FinishFill(b)
  PROVE  Internal(b) \/ Answers(b)
<1>0. PICK v : v = snapshot[b]
  OBVIOUS
<1>1. pc[b] \in Filling /\ pc[b] # "idle" /\ ~cache_filled
  BY DEF Fill, QueryIds, QueryCounts, QueryEntries, CountsDone, InitCalendar, CopyCalendar, Filling,
         FillInvariant, Progress
<1>2. CASE QueryIds(b)
  BY <1>0, <1>1, <1>2, CleanQueryIds, EarlyAnswers DEF Goto, Internal
<1>3. CASE QueryCounts(b) \/ QueryEntries(b)
  BY <1>1, <1>3, CleanQuery, EarlyAnswers DEF GotoRows, Internal, imcx
<1>4. CASE CountsDone(b)
  BY <1>1, <1>4, GotoInternal DEF CountsDone
<1>5. ASSUME NEW id \in cursor[b], InitCalendar(b, id) \/ CopyCalendar(b, id)
      PROVE  Internal(b)
  <2>1. Advance(b, id) /\ UNCHANGED <<db, cache_filled>>
    BY <1>0, <1>5, CleanInitCalendar, CleanCopyCalendar
  <2>2. pc' = [pc EXCEPT ![b] = pc[b]]
    BY <2>1 DEF Advance, TypeOK, SessionType
  <2> QED
    BY <1>1, <2>1, <2>2 DEF Advance, Internal
<1> QED
  BY <1>2, <1>3, <1>4, <1>5 DEF Fill

LEMMA CleanStep ==
  ASSUME FailsEarly, TypeOK, LockDiscipline, FillInvariant, Clean, NEW b \in Backend, Step(b)
  PROVE  \/ Internal(b) \/ Answers(b) \/ FinishFill(b)
         \/ Crash /\ (AddDaysById(b) \/ AddDaysByName(b))
         \/ Invalidate(b) /\ cache_invalidate
<1>1. CASE CheckFilled(b) \/ LockToFill(b) \/ Recheck(b) \/ LockToRead(b) \/ LockToInvalidate(b)
  BY <1>1, GotoInternal DEF CheckFilled, LockToFill, Recheck, LockToRead, LockToInvalidate
<1>2. CASE Validate(b)
  BY <1>2, CleanValidate, GotoInternal, EarlyAnswers DEF Validate
<1>3. CASE Fill(b)
  BY <1>3, FillInternal
<1>4. CASE Info(b)
  BY <1>4, OutcomeAnswers DEF Info, Answers
<1>5. CASE Report(b)
  BY <1>5, ReportAnswers DEF Report, Answers
<1>6. CASE AddDaysById(b) \/ AddDaysByName(b)
  <2>1. Crash \/ UNCHANGED <<db, imcx>>
    BY <1>6 DEF AddDaysById, AddDaysByName, AddDays
  <2> QED
    BY <1>6, <2>1, AddDaysCallAnswers DEF AddDaysById, AddDaysByName, Answers
<1>7. CASE CheckToInvalidate(b)
  BY <1>7, OutcomeAnswers, GotoInternal DEF CheckToInvalidate, Answers
<1>8. CASE Invalidate(b)
  BY <1>8, OutcomeAnswers DEF Invalidate, Answers
<1> QED
  BY <1>1, <1>2, <1>3, <1>4, <1>5, <1>6, <1>7, <1>8 DEF Step, Read

-----------------------------------------------------------------------------
(* Every answer *)

\* A running call has not answered yet; one that has is no failed fill where none
\* can fail, and if it asked by name it was answered from one version.
Answered(b) ==
  /\ pc[b] # "idle" => answer[b] = Outcome("none")
  /\ NoFailure /\ answer[b].kind = "error" => call[b].fn \in {"by_id", "by_name"}
  /\ answer[b].kind = "ok" /\ call[b].fn = "by_name" => Named(call[b].name, answer[b])

AllAnswered == \A b \in Backend : Answered(b)

LEMMA SameAnswered ==
  ASSUME NEW b \in Backend, Answered(b), db \in Nat, db' \in Nat, db <= db',
         answer'[b] = answer[b], call'[b] = call[b], pc'[b] # "idle" => pc[b] # "idle"
  PROVE  Answered(b)'
<1>1. ASSUME answer[b].kind = "ok", call[b].fn = "by_name"
      PROVE  Named(call[b].name, answer[b])'
  <2>1. PICK v \in 1 .. db : \E i \in DOMAIN Tables[v].dates :
          /\ Tables[v].name[i] = call[b].name
          /\ answer[b] = Dates([id \in {i} |-> Tables[v].dates[id]])
    BY <1>1 DEF Answered, Named
  <2>2. v \in 1 .. db'
    BY <2>1
  <2>3. \E i \in DOMAIN Tables[v].dates :
          /\ Tables[v].name[i] = call'[b].name
          /\ answer'[b] = Dates([id \in {i} |-> Tables[v].dates[id]])
    BY <2>1
  <2> QED
    BY <2>2, <2>3 DEF Named
<1> QED
  BY <1>1 DEF Answered

LEMMA NoneAnswered ==
  ASSUME NEW b \in Backend, NEW kind, kind \notin {"ok", "error"}, answer'[b] = Outcome(kind),
         pc'[b] # "idle" => kind = "none"
  PROVE  Answered(b)'
  BY DEF Answered, Outcome

LEMMA OthersAnswered ==
  ASSUME TypeOK, AllAnswered, UNCHANGED db, NEW b \in Backend, Answered(b)',
         \A c \in Backend \ {b} : answer'[c] = answer[c] /\ call'[c] = call[c] /\ pc'[c] = pc[c]
  PROVE  AllAnswered'
<1>1. db \in Nat /\ db' \in Nat /\ db <= db'
  BY TablesAssumption DEF TypeOK, OtherType, Version
<1>2. ASSUME NEW c \in Backend \ {b} PROVE Answered(c)'
  BY <1>1, <1>2, SameAnswered DEF AllAnswered
<1> QED
  BY <1>2 DEF AllAnswered

LEMMA StepAnswered ==
  ASSUME FailsEarly, TypeOK, LockDiscipline, FillInvariant, Clean, AllAnswered,
         NEW b \in Backend, Step(b)
  PROVE  AllAnswered'
<1>0. db \in Nat
  BY TablesAssumption DEF TypeOK, OtherType, Version
<1>1. ASSUME pc[b] # "idle", UNCHANGED <<db, answer, call>>, NEW point, pc' = [pc EXCEPT ![b] = point]
      PROVE  AllAnswered'
  <2>1. \A c \in Backend : pc'[c] # "idle" => pc[c] # "idle"
    BY <1>1 DEF TypeOK, SessionType
  <2> QED
    BY <1>0, <1>1, <2>1, SameAnswered DEF AllAnswered
<1>2. CASE Internal(b)
  BY <1>1, <1>2 DEF Internal
<1>3. CASE FinishFill(b)
  BY <1>1, <1>3 DEF FinishFill, Goto
<1>4. ASSUME NEW outcome, Return(b, outcome)
      PROVE  /\ pc'[b] = "idle" /\ answer'[b] = outcome /\ call' = call
             /\ \A c \in Backend \ {b} : answer'[c] = answer[c] /\ call'[c] = call[c] /\ pc'[c] = pc[c]
  BY <1>4 DEF Return, TypeOK, SessionType
<1>5. CASE Answers(b)
  <2>1. PICK outcome : Return(b, outcome) /\ MayAnswer(b, outcome)
    BY <1>5 DEF Answers
  <2>2. NoFailure /\ outcome.kind = "error" => call[b].fn \in {"by_id", "by_name"}
    BY <2>1 DEF MayAnswer
  <2>3. outcome.kind = "ok" /\ call[b].fn = "by_name" => Named(call[b].name, outcome)
    BY <2>1 DEF MayAnswer, Outcome
  <2>4. Answered(b)'
    BY <1>4, <1>5, <2>1, <2>2, <2>3 DEF Answers, Answered, Named
  <2> QED
    BY <1>4, <1>5, <2>1, <2>4, OthersAnswered DEF Answers
<1>6. CASE Invalidate(b) /\ cache_invalidate
  <2>1. Return(b, Outcome("not_loaded")) \/ Return(b, Outcome("invalidated"))
    BY <1>6 DEF Invalidate
  <2>2. Answered(b)'
    BY <1>4, <2>1, NoneAnswered
  <2> QED
    BY <1>4, <1>6, <2>1, <2>2, OthersAnswered DEF Invalidate
<1>7. CASE Crash
  <2>1. ASSUME NEW c \in Backend PROVE answer'[c] = Outcome("lost") /\ pc'[c] = "idle"
    BY <1>7 DEF Crash
  <2> QED
    BY <2>1, NoneAnswered DEF AllAnswered
<1> QED
  BY <1>2, <1>3, <1>5, <1>6, <1>7, CleanStep

LEMMA NextAnswered ==
  ASSUME FailsEarly
  PROVE  TypeOK /\ LockDiscipline /\ FillInvariant /\ Clean /\ AllAnswered /\ [Next]_vars => AllAnswered'
<1> SUFFICES ASSUME TypeOK, LockDiscipline, FillInvariant, Clean, AllAnswered, [Next]_vars
             PROVE  AllAnswered'
  OBVIOUS
<1>0. db \in Nat
  BY TablesAssumption DEF TypeOK, OtherType, Version
<1>1. CASE UNCHANGED vars \/ Commit
  <2>1. UNCHANGED session /\ db' \in Nat /\ db <= db'
    BY <1>0, <1>1 DEF vars, Commit
  <2> QED
    BY <1>0, <2>1, SameAnswered DEF session, AllAnswered
<1>2. ASSUME NEW b \in Backend, NEW c \in Call, Begin(b, c)
      PROVE  AllAnswered'
  <2>1. /\ answer'[b] = Outcome("none") /\ db' = db
        /\ \A d \in Backend \ {b} : answer'[d] = answer[d] /\ call'[d] = call[d] /\ pc'[d] = pc[d]
    BY <1>2 DEF Begin, TypeOK, SessionType
  <2>2. Answered(b)'
    BY <2>1, NoneAnswered
  <2> QED
    BY <2>1, <2>2, OthersAnswered
<1> QED
  BY <1>1, <1>2, StepAnswered DEF Next

LEMMA InitAnswered == Init => AllAnswered
  BY DEF Init, AllAnswered, Answered, Outcome

LEMMA AnsweredInvariant ==
  ASSUME FailsEarly
  PROVE  Spec => [](TypeOK /\ LockDiscipline /\ FillInvariant /\ Clean /\ AllAnswered)
<1> QED
  BY InitAnswered, NextAnswered, CleanInvariant, PTL DEF Spec

\* Without failures no call but an addition of days raises an error: a fill
\* succeeds also after invalidations and changes of the tables, and no report
\* meets an array that a fill has left unfinished.
THEOREM FillsSucceed == ASSUME NoFailure PROVE Spec => []FillSucceeds
<1>1. AllAnswered => FillSucceeds
  BY DEF AllAnswered, Answered, FillSucceeds
<1>2. FailsEarly
  BY DEF NoFailure
<1> QED
  BY <1>1, <1>2, AnsweredInvariant, PTL

\* Where fills fail early or not at all, an answer by name is computed from the
\* dates of the calendar that bears the name in one committed version.
THEOREM ByNameCorrect == ASSUME FailsEarly PROVE Spec => []ByNameFromOneVersion
<1>1. AllAnswered => ByNameFromOneVersion
  BY DEF AllAnswered, Answered, Named, ByNameFromOneVersion
<1> QED
  BY <1>1, AnsweredInvariant, PTL

-----------------------------------------------------------------------------
(* The server goes down only where an invalidation is involved *)

NobodyInvalidates == \A b \in Backend : call[b].fn # "invalidate"

AskedExist == \A v \in Version : AskedId \subseteq DOMAIN Tables[v].dates

\* A call that has found or made the cache filled still finds it filled.
Safe ==
  /\ NeverLost
  /\ \A b \in Backend : pc[b] \in {"lock_read", "read"} => cache_filled
  /\ \A b \in Backend : pc[b] \in {"lock_invalidate", "invalidate"} => call[b].fn = "invalidate"

\* An index that add_calendar_days follows in a filled cache leads to a calendar
\* with its page map: the array is there, and the calendar is in it.
LEMMA AddDaysIsSafe ==
  ASSUME AskedExist, TypeOK, Clean, cache_filled, NEW b \in Backend, AddDaysById(b) \/ AddDaysByName(b)
  PROVE  \E outcome : Return(b, outcome) /\ outcome.kind # "lost"
<1>1. PICK v \in 1 .. db :
        /\ v \in Version /\ Holds(v)
        /\ DOMAIN names = {Tables[v].name[j] : j \in DOMAIN Tables[v].dates}
  BY FilledHolds
<1>2. ASSUME NEW id \in DOMAIN Tables[v].dates, AddDays(b, id)
      PROVE  \E outcome : Return(b, outcome) /\ outcome.kind # "lost"
  <2> DEFINE i == get_calendar_index(id)
  <2>1. /\ array /\ id \in Int /\ min_calendar_id = Tables[v].min /\ min_calendar_id \in Int
        /\ calendar_count = Tables[v].max - Tables[v].min + 1 /\ Tables[v].max \in Int
        /\ id \in Tables[v].min .. Tables[v].max
    BY <1>1, TablesAssumption DEF Holds
  <2>2. i \in 0 .. calendar_count - 1 /\ Tables[v].min + i = id
    BY <2>1 DEF get_calendar_index
  <2>3. i \in DOMAIN calendars /\ calendars[i].indexed
    BY <1>1, <2>2 DEF Holds
  <2>4. Return(b, Dates([x \in {calendars[i].id} |-> calendars[i].dates]))
    BY <1>2, <2>1, <2>3 DEF AddDays
  <2> QED
    BY <2>4 DEF Dates
<1>3. CASE AddDaysById(b)
  <2>1. call[b].id \in DOMAIN Tables[v].dates
    BY <1>1, <1>3 DEF AskedExist, AddDaysById, TypeOK, SessionType, Call
  <2> QED
    BY <1>2, <1>3, <2>1 DEF AddDaysById
<1>4. CASE AddDaysByName(b)
  <2>1. CASE Return(b, Outcome("not_found"))
    BY <2>1 DEF Outcome
  <2>2. CASE call[b].name \in DOMAIN names /\ AddDays(b, names[call[b].name])
    <3>1. names[call[b].name] \in DOMAIN Tables[v].dates
      BY <1>1, <2>2 DEF Holds
    <3> QED
      BY <1>2, <2>2, <3>1
  <2> QED
    BY <1>4, <2>1, <2>2 DEF AddDaysByName
<1> QED
  BY <1>3, <1>4

\* Only a call that finds or makes the cache filled goes on to read it.
LEMMA SafeEntry ==
  ASSUME TypeOK, Safe, cache_filled => cache_filled', NEW b \in Backend, call[b].fn # "invalidate",
         Step(b), ~Crash, pc'[b] \in {"lock_read", "read", "lock_invalidate", "invalidate"}, pc'[b] # pc[b]
  PROVE  cache_filled' /\ pc'[b] \notin {"lock_invalidate", "invalidate"}
<1>0. b \in DOMAIN pc
  BY DEF TypeOK, SessionType
<1>1. ASSUME NEW outcome, Return(b, outcome) PROVE FALSE
  BY <1>0, <1>1 DEF Return
<1>2. CASE CheckFilled(b) \/ Recheck(b) \/ LockToRead(b)
  BY <1>0, <1>2 DEF CheckFilled, Recheck, LockToRead, Goto, Safe, imcx
<1>3. CASE Validate(b) \/ LockToFill(b)
  BY <1>0, <1>1, <1>3 DEF Validate, LockToFill, Goto, Raise
<1>4. CASE FinishFill(b)
  BY <1>0, <1>4 DEF FinishFill, Goto
<1>5. CASE QueryIds(b) \/ CountsDone(b)
  BY <1>0, <1>1, <1>5 DEF QueryIds, QueryFails, CountsDone, Goto, Raise
<1>6. CASE QueryCounts(b) \/ QueryEntries(b)
  BY <1>0, <1>1, <1>6 DEF QueryCounts, QueryEntries, Query, QueryFails, GotoRows, Raise
<1>7. ASSUME NEW id \in cursor[b], InitCalendar(b, id) \/ CopyCalendar(b, id)
      PROVE  FALSE
  BY <1>0, <1>1, <1>7 DEF InitCalendar, CopyCalendar, pg_set_calendar_name, Advance, Raise
<1>8. CASE Info(b) \/ Report(b) \/ AddDaysById(b) \/ AddDaysByName(b)
  BY <1>0, <1>1, <1>8 DEF Info, Report, AddDaysById, AddDaysByName, AddDays, Raise
<1>9. CASE CheckToInvalidate(b) \/ LockToInvalidate(b) \/ Invalidate(b)
  BY <1>0, <1>1, <1>9 DEF CheckToInvalidate, LockToInvalidate, Invalidate, Safe
<1> QED
  BY <1>2, <1>3, <1>4, <1>5, <1>6, <1>7, <1>8, <1>9 DEF Step, Fill, Read

\* A step at which no call is lost and a filled cache stays filled.
LEMMA SafeStep ==
  ASSUME FailsEarly, AskedExist, NobodyInvalidates, TypeOK, LockDiscipline, FillInvariant, Clean, Safe,
         NEW b \in Backend, Step(b)
  PROVE  Safe'
<1>0. DOMAIN answer = Backend /\ call[b].fn # "invalidate"
  BY DEF TypeOK, SessionType, NobodyInvalidates
<1>1. /\ UNCHANGED answer \/ \E outcome : Return(b, outcome) /\ outcome.kind # "lost"
      /\ cache_filled => cache_filled'
  <2>1. CASE AddDaysById(b) \/ AddDaysByName(b)
    <3>1. cache_filled
      BY <2>1 DEF Safe, AddDaysById, AddDaysByName
    <3>2. PICK outcome : Return(b, outcome) /\ outcome.kind # "lost"
      BY <2>1, <3>1, AddDaysIsSafe
    <3>3. answer'[b] # Outcome("lost")
      BY <1>0, <3>2 DEF Return, Outcome
    <3>4. ~Crash
      BY <3>3 DEF Crash
    <3>5. UNCHANGED cache_filled
      BY <2>1, <3>4 DEF AddDaysById, AddDaysByName, AddDays, imcx
    <3> QED
      BY <3>2, <3>5
  <2>2. CASE Internal(b)
    BY <2>2 DEF Internal, imcx
  <2>3. CASE Answers(b)
    <3>1. PICK outcome : Return(b, outcome) /\ MayAnswer(b, outcome)
      BY <2>3 DEF Answers
    <3>2. outcome.kind # "lost"
      BY <3>1 DEF MayAnswer, Outcome
    <3> QED
      BY <2>3, <3>1, <3>2 DEF Answers, imcx
  <2>4. CASE FinishFill(b)
    BY <2>4 DEF FinishFill, Goto
  <2>5. ~Invalidate(b)
    BY <1>0 DEF Safe, Invalidate
  <2> QED
    BY <2>1, <2>2, <2>3, <2>4, <2>5, CleanStep
<1>2. NeverLost'
  BY <1>0, <1>1 DEF Safe, NeverLost, Return
<1>3. ~Crash
  BY <1>2 DEF NeverLost, Crash, Outcome
<1>4. ASSUME NEW c \in Backend, pc'[c] \in {"lock_read", "read", "lock_invalidate", "invalidate"}
      PROVE  cache_filled' /\ pc'[c] \notin {"lock_invalidate", "invalidate"}
  <2>1. CASE pc'[c] = pc[c]
    BY <1>1, <1>4, <2>1 DEF Safe, NobodyInvalidates
  <2>2. CASE pc'[c] # pc[c]
    <3>1. c = b
      BY <1>3, <2>2, OneMoves
    <3> QED
      BY <1>0, <1>1, <1>3, <1>4, <2>2, <3>1, SafeEntry
  <2> QED
    BY <2>1, <2>2
<1> QED
  BY <1>2, <1>4 DEF Safe

LEMMA NextSafe ==
  ASSUME FailsEarly, AskedExist
  PROVE  TypeOK /\ LockDiscipline /\ FillInvariant /\ Clean /\ NobodyInvalidates /\ Safe /\ [Next]_vars => Safe'
<1> SUFFICES ASSUME TypeOK, LockDiscipline, FillInvariant, Clean, NobodyInvalidates, Safe, [Next]_vars
             PROVE  Safe'
  OBVIOUS
<1>1. CASE UNCHANGED vars \/ Commit
  <2>1. UNCHANGED <<cache_filled, session>>
    BY <1>1 DEF vars, imcx, Commit
  <2> QED
    BY <2>1 DEF session, Safe, NeverLost
<1>2. ASSUME NEW b \in Backend, NEW c \in Call, Begin(b, c)
      PROVE  Safe'
  <2>1. /\ UNCHANGED cache_filled /\ pc'[b] = "check" /\ answer'[b] = Outcome("none")
        /\ \A d \in Backend \ {b} : answer'[d] = answer[d] /\ call'[d] = call[d] /\ pc'[d] = pc[d]
    BY <1>2 DEF Begin, TypeOK, SessionType, imcx
  <2> QED
    BY <2>1 DEF Safe, NeverLost, Outcome
<1> QED
  BY <1>1, <1>2, SafeStep DEF Next

LEMMA InitSafe == Init => Safe
  BY DEF Init, Safe, NeverLost, Outcome

\* Only invalidations can make a call take the server down: as long as nobody
\* invalidates, and fills fail early or not at all, a call for a calendar that exists
\* never follows the NULL array or an index out of it, whoever fills the cache
\* meanwhile.
THEOREM NeverLostUnlessInvalidated ==
  ASSUME FailsEarly, AskedExist
  PROVE  Spec /\ []NobodyInvalidates => []NeverLost
<1>1. Safe => NeverLost
  BY DEF Safe
<1> QED
  BY <1>1, InitSafe, NextSafe, CleanInvariant, PTL DEF Spec

-----------------------------------------------------------------------------
(* The refinement: the steps of the code as steps of CalendarCache *)

Replies == [b \in Backend |-> answer[b].content]

LEMMA InitRefines == Init => Promise!Init
<1> SUFFICES ASSUME Init PROVE Promise!Init
  OBVIOUS
<1>1. db = 1 /\ ~cache_filled /\ \A b \in Backend : answer[b].content = Nothing
  BY DEF Init, Cleared, Outcome
<1> QED
  BY <1>1 DEF Promise!Init, Promise!Nothing, Nothing

LEMMA SameContent ==
  ASSUME UNCHANGED imcx \/ (~cache_filled /\ ~cache_filled')
  PROVE  UNCHANGED Content
  BY DEF Content, CachedDates, Listed, get_calendar_index, imcx

LEMMA Stutters ==
  ASSUME UNCHANGED <<db, answer>>, UNCHANGED Content
  PROVE  UNCHANGED Promise!vars
  BY DEF Content, Promise!vars

LEMMA ReturnReplies ==
  ASSUME TypeOK, NEW b \in Backend, NEW outcome, answer' = [answer EXCEPT ![b] = outcome]
  PROVE  Replies' = [Replies EXCEPT ![b] = outcome.content]
  BY DEF Replies, TypeOK, SessionType

LEMMA Asks ==
  ASSUME TypeOK, NEW b \in Backend, NEW outcome, outcome.content = Nothing,
         answer' = [answer EXCEPT ![b] = outcome], UNCHANGED db, UNCHANGED Content
  PROVE  Promise!Ask(b)
  BY ReturnReplies DEF Promise!Ask, Promise!Nothing, Nothing, Replies, Content

LEMMA AnswersRefine ==
  ASSUME TypeOK, NEW b \in Backend, Answers(b)
  PROVE  Promise!Ask(b) \/ Promise!Reply(b)
<1>1. PICK outcome : Return(b, outcome) /\ MayAnswer(b, outcome)
  BY DEF Answers
<1>2. answer' = [answer EXCEPT ![b] = outcome] /\ UNCHANGED db /\ UNCHANGED Content
  BY <1>1, SameContent DEF Answers, Return
<1>3. CASE outcome.content = Nothing
  BY <1>2, <1>3, Asks
<1>4. CASE \E ids \in SUBSET DOMAIN Content : outcome.content = [id \in ids |-> Content[id]]
  <2>1. Replies' = [Replies EXCEPT ![b] = outcome.content]
    BY <1>2, ReturnReplies
  <2> QED
    BY <1>2, <1>4, <2>1 DEF Promise!Reply, Replies, Content
<1> QED
  BY <1>1, <1>3, <1>4 DEF MayAnswer, Outcome

LEMMA FinishRefines ==
  ASSUME TypeOK, LockDiscipline, FillInvariant, NEW b \in Backend, FinishFill(b),
         (\A v \in Version : Holds(v) => CachedDates = Tables[v].dates)'
  PROVE  Promise!Load
<1>1. PICK v : v = snapshot[b]
  OBVIOUS
<1>2. v \in 1 .. db /\ Holds(v)'
  BY <1>1, FinishHolds
<1>3. v \in Version
  BY <1>2, TablesAssumption DEF TypeOK, OtherType, Version
<1>4. ~cache_filled /\ cache_filled' /\ UNCHANGED <<db, answer>>
  BY DEF FinishFill, Goto, FillInvariant, Progress, Filling
<1>5. CachedDates' = Tables[v].dates
  BY <1>2, <1>3
<1> QED
  BY <1>2, <1>4, <1>5 DEF Promise!Load, Promise!Nothing, Nothing

LEMMA InvalidateRefines ==
  ASSUME TypeOK, AllAnswered, NEW b \in Backend, Invalidate(b), cache_invalidate
  PROVE  Promise!Drop
<1>1. answer[b] = Outcome("none") /\ UNCHANGED db /\ ~cache_filled'
  BY DEF Invalidate, cache_invalidate, AllAnswered, Answered
<1>2. PICK kind : answer' = [answer EXCEPT ![b] = Outcome(kind)]
  BY DEF Invalidate, Return
<1>3. Outcome(kind).content = Nothing /\ Outcome("none").content = Nothing
  BY DEF Outcome
<1>4. Replies' = [Replies EXCEPT ![b] = Nothing]
  BY <1>2, <1>3, ReturnReplies
<1>5. Replies' = Replies
  BY <1>1, <1>3, <1>4 DEF Replies
<1> QED
  BY <1>1, <1>5 DEF Promise!Drop, Promise!Nothing, Nothing, Replies

LEMMA CrashRefines == Crash => Promise!Restart
<1> SUFFICES ASSUME Crash PROVE Promise!Restart
  OBVIOUS
<1>1. ~cache_filled' /\ UNCHANGED db /\ \A b \in Backend : answer'[b].content = Nothing
  BY DEF Crash, Outcome
<1> QED
  BY <1>1 DEF Promise!Restart, Promise!Nothing, Nothing

LEMMA StepRefines ==
  ASSUME FailsEarly, TypeOK, LockDiscipline, FillInvariant, Clean, AllAnswered,
         (\A v \in Version : Holds(v) => CachedDates = Tables[v].dates)',
         NEW b \in Backend, Step(b)
  PROVE  [Promise!Next]_Promise!vars
<1>1. CASE Internal(b)
  BY <1>1, SameContent, Stutters DEF Internal
<1>2. CASE Answers(b)
  BY <1>2, AnswersRefine DEF Promise!Next
<1>3. CASE FinishFill(b)
  BY <1>3, FinishRefines DEF Promise!Next
<1>4. CASE Invalidate(b) /\ cache_invalidate
  BY <1>4, InvalidateRefines DEF Promise!Next
<1>5. CASE Crash
  BY <1>5, CrashRefines DEF Promise!Next
<1> QED
  BY <1>1, <1>2, <1>3, <1>4, <1>5, CleanStep

LEMMA NextRefines ==
  ASSUME FailsEarly
  PROVE  /\ TypeOK /\ LockDiscipline /\ FillInvariant /\ Clean /\ AllAnswered
         /\ (\A v \in Version : Holds(v) => CachedDates = Tables[v].dates)'
         /\ [Next]_vars
         => [Promise!Next]_Promise!vars
<1> SUFFICES ASSUME TypeOK, LockDiscipline, FillInvariant, Clean, AllAnswered,
                    (\A v \in Version : Holds(v) => CachedDates = Tables[v].dates)',
                    [Next]_vars
             PROVE  [Promise!Next]_Promise!vars
  OBVIOUS
<1>1. CASE UNCHANGED vars
  BY <1>1, SameContent, Stutters DEF vars, session
<1>2. CASE Commit
  <2>1. UNCHANGED Content /\ UNCHANGED answer
    BY <1>2, SameContent DEF Commit, session
  <2> QED
    BY <1>2, <2>1 DEF Commit, Promise!Next, Promise!Update, Content
<1>3. ASSUME NEW b \in Backend, NEW c \in Call, Begin(b, c)
      PROVE  Promise!Ask(b)
  <2>1. UNCHANGED Content
    BY <1>3, SameContent DEF Begin
  <2>2. Outcome("none").content = Nothing
    BY DEF Outcome
  <2> QED
    BY <1>3, <2>1, <2>2, Asks DEF Begin
<1> QED
  BY <1>1, <1>2, <1>3, StepRefines DEF Next, Promise!Next

\* Where fills fail early or not at all, the code implements CalendarCache: with
\* the structure read as what it caches, the cache is loaded and dropped as a
\* whole, and every answer is computed in one instant from what it then holds.
THEOREM Refines == ASSUME FailsEarly PROVE Spec => KeepsPromise
<1>1. \A v \in Version : Holds(v) => CachedDates = Tables[v].dates
  BY CachedOfVersion
<1> QED
  BY <1>1, InitRefines, NextRefines, AnsweredInvariant, PTL DEF Spec, KeepsPromise, Promise!Spec

=============================================================================
