------------------------- MODULE SharedCacheProofs -------------------------
(***************************************************************************)
(* What holds of SharedCache for every set of backends, every sequence of  *)
(* versions of the tables and every amount of memory.                      *)
(***************************************************************************)
EXTENDS SharedCache, TLAPS

-----------------------------------------------------------------------------
(* Types *)

\* What a running statement sees: the tables of its snapshot.
LEMMA SnapshotTables ==
  ASSUME TypeOK, NEW b \in Backend, pc[b] # "idle"
  PROVE  LET t == Tables[snapshot[b]] IN
         /\ snapshot[b] \in 1 .. db /\ db \in Version
         /\ t.min \in Int /\ t.max \in Int
         /\ DOMAIN t.dates \subseteq (t.min .. t.max) \ {0}
         /\ DOMAIN t.dates \subseteq Int
         /\ t.dates \in [DOMAIN t.dates -> Seq(Int) \ {<< >>}]
         /\ t.name \in [DOMAIN t.dates -> Name]
<1>1. snapshot[b] \in 1 .. db /\ db \in Version
  BY TablesAssumption DEF TypeOK, SessionType, OtherType, Version
<1>2. snapshot[b] \in Version
  BY <1>1, TablesAssumption DEF Version
<1> QED
  BY <1>1, <1>2, TablesAssumption

\* Memory that fits is there.
LEMMA FitsBound ==
  ASSUME shmem_free \in 0 .. ShmemUnits, NEW n \in Nat, Fits(n)
  PROVE  shmem_free - AllocCost * n \in 0 .. ShmemUnits
<1>1. CASE AllocCost = 0
  BY <1>1, TablesAssumption DEF Fits
<1>2. CASE AllocCost = 1
  BY <1>2, TablesAssumption DEF Fits
<1> QED
  BY <1>1, <1>2, TablesAssumption

\* The empty array and the empty hash table.
LEMMA EmptyType ==
  ASSUME NEW S
  PROVE  DOMAIN << >> = {} /\ << >> \in [{} -> S]
<1>1. DOMAIN << >> = {}
  OBVIOUS
<1>2. << >> = [i \in {} |-> << >>[i]]
  BY <1>1
<1> QED
  BY <1>1, <1>2

LEMMA BlankType == Blank \in Calendar
  BY DEF Blank, Calendar

LEMMA ZerosType == ASSUME NEW n \in Nat PROVE Zeros(n) \in Seq(Int)
  BY DEF Zeros


\* The cache as it is on a new segment.
LEMMA ClearedType == Cleared => CacheType
<1> SUFFICES ASSUME Cleared PROVE CacheType
  OBVIOUS
<1>1. DOMAIN calendars = {} /\ calendars \in [{} -> Calendar]
  BY EmptyType DEF Cleared
<1>2. DOMAIN names = {} /\ names \in [{} -> Int]
  BY EmptyType DEF Cleared
<1>3. array \in BOOLEAN /\ cache_filled \in BOOLEAN
  BY DEF Cleared
<1>4. shmem_free \in 0 .. ShmemUnits
  BY TablesAssumption DEF Cleared
<1>5. calendar_count \in Nat /\ entry_count \in Nat /\ min_calendar_id \in Int
  BY DEF Cleared
<1> QED
  BY <1>1, <1>2, <1>3, <1>4, <1>5 DEF CacheType

LEMMA TypeInit == Init => TypeOK
<1> SUFFICES ASSUME Init PROVE TypeOK
  OBVIOUS
<1>1. CacheType
  BY ClearedType DEF Init
<1>2. \A b \in Backend : answer[b].kind \in Kind /\ DOMAIN answer[b].content \subseteq Int
  BY DEF Init, Outcome, Nothing, Kind
<1>3. pc \in [Backend -> Point] /\ call \in [Backend -> Call] /\ cursor \in [Backend -> SUBSET Int]
  BY DEF Init, Point, Call
<1>4. snapshot \in [Backend -> 0 .. db] /\ DOMAIN answer = Backend
  BY DEF Init
<1>5. \A b \in Backend : pc[b] = "idle"
  BY DEF Init
<1>6. OtherType
  BY TablesAssumption DEF Init, OtherType, Version
<1> QED
  BY <1>1, <1>2, <1>3, <1>4, <1>5, <1>6 DEF SessionType, TypeOK

LEMMA SameCacheType == CacheType /\ UNCHANGED imcx => CacheType'
  BY DEF CacheType, imcx

\* The operators that move a backend keep the types of the sessions.
LEMMA GotoType ==
  ASSUME SessionType, db' = db, NEW b \in Backend, NEW point \in Point,
         pc[b] # "idle", point \notin {"q2_rows", "q3_rows"}, Goto(b, point)
  PROVE  SessionType'
  BY DEF SessionType, Goto

LEMMA GotoRowsType ==
  ASSUME TypeOK, db' = db, NEW b \in Backend, NEW point \in Point,
         pc[b] # "idle", GotoRows(b, point)
  PROVE  SessionType'
<1>1. DOMAIN Tables[snapshot[b]].dates \subseteq Int
  BY SnapshotTables
<1> QED
  BY <1>1 DEF TypeOK, SessionType, GotoRows

LEMMA ReturnType ==
  ASSUME SessionType, OtherType, db' = db, fresh_from' \in 0 .. db, NEW b \in Backend, NEW outcome,
         outcome.kind \in Kind, DOMAIN outcome.content \subseteq Int, Return(b, outcome)
  PROVE  SessionType' /\ OtherType'
<1>1. pc' \in [Backend -> Point] /\ pc'[b] = "idle"
  BY DEF SessionType, Return, Point
<1>2. snapshot' \in [Backend -> 0 .. db'] /\ cursor' \in [Backend -> SUBSET Int]
  BY TablesAssumption DEF SessionType, OtherType, Return, Version
<1>3. \A c \in Backend : pc'[c] # "idle" => snapshot'[c] # 0
  BY <1>1 DEF SessionType, Return
<1>4. DOMAIN answer' = Backend /\ \A c \in Backend :
        answer'[c].kind \in Kind /\ DOMAIN answer'[c].content \subseteq Int
  BY DEF SessionType, Return
<1>5. held' \in [Backend -> {"none", "shared", "exclusive"}]
  BY DEF OtherType, Return, Release
<1> QED
  BY <1>1, <1>2, <1>3, <1>4, <1>5 DEF SessionType, OtherType, Return

LEMMA OutcomeType ==
  ASSUME NEW kind \in Kind
  PROVE  Outcome(kind).kind \in Kind /\ DOMAIN Outcome(kind).content \subseteq Int
  BY DEF Outcome, Nothing

LEMMA DatesType ==
  ASSUME NEW content, DOMAIN content \subseteq Int
  PROVE  Dates(content).kind \in Kind /\ DOMAIN Dates(content).content \subseteq Int
  BY DEF Dates, Kind

LEMMA RaiseType ==
  ASSUME SessionType, OtherType, db' = db, fresh_from' \in 0 .. db, NEW b \in Backend, Raise(b)
  PROVE  SessionType' /\ OtherType'
<1>1. Outcome("error").kind \in Kind /\ DOMAIN Outcome("error").content \subseteq Int
  BY OutcomeType DEF Kind
<1> QED
  BY <1>1, ReturnType DEF Raise

LEMMA CrashType == ASSUME TypeOK, Crash PROVE TypeOK'
<1>0. Cleared'
  BY DEF Crash, Cleared
<1>1. CacheType'
  BY <1>0, ClearedType, PTL
<1>2. SessionType'
  BY OutcomeType, TablesAssumption DEF TypeOK, OtherType, Crash, SessionType, Point, Kind, Outcome, Nothing, Version
<1>3. OtherType'
  BY TablesAssumption DEF TypeOK, Crash, OtherType, Version
<1> QED
  BY <1>1, <1>2, <1>3 DEF TypeOK

\* A step that keeps the cache and either moves on, returns or raises.
LEMMA KeepsCacheType ==
  ASSUME TypeOK, UNCHANGED imcx, SessionType', OtherType'
  PROVE  TypeOK'
  BY SameCacheType DEF TypeOK

LEMMA GotoKeepsType ==
  ASSUME TypeOK, NEW b \in Backend, NEW point \in Point \ {"q2_rows", "q3_rows"},
         pc[b] # "idle", Goto(b, point),
         UNCHANGED <<db, fresh_from>>
  PROVE  SessionType' /\ (UNCHANGED held => OtherType')
  BY GotoType DEF TypeOK, OtherType

LEMMA RaiseKeepsType ==
  ASSUME TypeOK, NEW b \in Backend, Raise(b), UNCHANGED <<db, fresh_from>>
  PROVE  SessionType' /\ OtherType'
  BY RaiseType DEF TypeOK, OtherType

LEMMA ReturnKeepsType ==
  ASSUME TypeOK, NEW b \in Backend, NEW outcome, Return(b, outcome),
         outcome.kind \in Kind, DOMAIN outcome.content \subseteq Int,
         UNCHANGED <<db, fresh_from>>
  PROVE  SessionType' /\ OtherType'
  BY ReturnType DEF TypeOK, OtherType

LEMMA AcquireType ==
  ASSUME OtherType, NEW b \in Backend, NEW mode \in {"shared", "exclusive"}, Acquire(b, mode),
         UNCHANGED <<db, fresh_from>>
  PROVE  OtherType'
  BY DEF OtherType, Acquire

LEMMA ReleaseType ==
  ASSUME OtherType, NEW b \in Backend, Release(b), UNCHANGED <<db, fresh_from>>
  PROVE  OtherType'
  BY DEF OtherType, Release

\* The population of the cache, up to the loading queries.
LEMMA PopulateType ==
  ASSUME TypeOK, NEW b \in Backend,
         CheckFilled(b) \/ Validate(b) \/ LockToFill(b) \/ Recheck(b)
  PROVE  TypeOK'
<1>1. CASE CheckFilled(b)
  <2>1. SessionType' /\ OtherType'
    BY <1>1, GotoKeepsType DEF CheckFilled, Point
  <2> QED
    BY <1>1, <2>1, KeepsCacheType DEF CheckFilled
<1>2. CASE Validate(b)
  <2>1. UNCHANGED <<db, fresh_from>> /\ UNCHANGED imcx /\ pc[b] # "idle"
    BY <1>2 DEF Validate
  <2>2. CASE Goto(b, "lock_fill") /\ UNCHANGED held
    BY <2>1, <2>2, GotoKeepsType, KeepsCacheType DEF Point
  <2>3. CASE Raise(b)
    BY <2>1, <2>3, RaiseKeepsType, KeepsCacheType
  <2> QED
    BY <1>2, <2>2, <2>3 DEF Validate
<1>3. CASE LockToFill(b)
  <2>1. SessionType' /\ OtherType'
    BY <1>3, GotoKeepsType, AcquireType DEF LockToFill, Point, TypeOK
  <2> QED
    BY <1>3, <2>1, KeepsCacheType DEF LockToFill
<1>4. CASE Recheck(b)
  <2>1. UNCHANGED <<db, fresh_from>> /\ UNCHANGED imcx /\ pc[b] # "idle"
    BY <1>4 DEF Recheck
  <2>2. CASE Release(b) /\ Goto(b, "lock_read")
    BY <2>1, <2>2, GotoKeepsType, ReleaseType, KeepsCacheType DEF Point, TypeOK
  <2>3. CASE UNCHANGED held /\ Goto(b, "q1")
    BY <2>1, <2>3, GotoKeepsType, KeepsCacheType DEF Point
  <2> QED
    BY <1>4, <2>2, <2>3 DEF Recheck
<1> QED
  BY <1>1, <1>2, <1>3, <1>4

LEMMA QueryIdsType ==
  ASSUME TypeOK, NEW b \in Backend, QueryIds(b)
  PROVE  TypeOK'
<1> DEFINE t     == Tables[snapshot[b]]
           count == t.max - t.min + 1
<1>1. UNCHANGED <<db, fresh_from>> /\ pc[b] = "q1"
  BY DEF QueryIds
<1>2. t.min \in Int /\ t.max \in Int
  BY <1>1, SnapshotTables
<1>3. CASE Raise(b) /\ UNCHANGED imcx
  BY <1>1, <1>3, RaiseKeepsType, KeepsCacheType
<1>4. CASE /\ t.min <= t.max /\ Fits(count + 1)
           /\ pg_cache_init(t.min, count)
           /\ shmem_free' = shmem_free - AllocCost * (count + 1)
           /\ Goto(b, "q2")
           /\ UNCHANGED <<cache_filled, names, held>>
  <2>1. SessionType' /\ OtherType'
    BY <1>1, <1>4, GotoKeepsType DEF Point
  <2>2. count \in Nat /\ count + 1 \in Nat
    BY <1>2, <1>4
  <2>3. shmem_free' \in 0 .. ShmemUnits
    BY <1>4, <2>2, FitsBound DEF TypeOK, CacheType
  <2>4. /\ DOMAIN calendars' = 0 .. count - 1
        /\ calendars' \in [0 .. count - 1 -> Calendar]
    BY <1>4, BlankType DEF pg_cache_init
  <2>5. array' \in BOOLEAN
    BY <1>4 DEF pg_cache_init
  <2>6. calendar_count' \in Nat /\ entry_count' \in Nat /\ min_calendar_id' \in Int
    BY <1>2, <1>4, <2>2 DEF pg_cache_init
  <2>7. \A i \in 0 .. count - 1 : 0 .. i \subseteq 0 .. count - 1
    BY <2>2
  <2>8. cache_filled' \in BOOLEAN /\ names' \in [DOMAIN names' -> Int] /\ DOMAIN names' \subseteq Name
    BY <1>4 DEF TypeOK, CacheType
  <2>9. CacheType'
    BY <2>2, <2>3, <2>4, <2>5, <2>6, <2>7, <2>8 DEF CacheType
  <2> QED
    BY <2>1, <2>9 DEF TypeOK
<1>5. CASE /\ pg_cache_init_fails
           /\ shmem_free' = 0
           /\ Raise(b)
           /\ UNCHANGED <<cache_filled, names>>
  <2>1. SessionType' /\ OtherType'
    BY <1>1, <1>5, RaiseKeepsType
  <2>2. shmem_free \in Nat /\ array \in BOOLEAN
    BY TablesAssumption DEF TypeOK, CacheType
  <2>3. /\ calendars' \in [DOMAIN calendars' -> Calendar]
        /\ DOMAIN calendars' \subseteq Nat
        /\ \A i \in DOMAIN calendars' : 0 .. i \subseteq DOMAIN calendars'
    <3>1. CASE shmem_free > 0
      <4>1. calendars' = [i \in 0 .. shmem_free - 2 |-> Blank]
        BY <1>5, <3>1 DEF pg_cache_init_fails
      <4> QED
        BY <2>2, <4>1, BlankType
    <3>2. CASE ~(shmem_free > 0)
      BY <1>5, <3>2 DEF pg_cache_init_fails, TypeOK, CacheType
    <3> QED
      BY <3>1, <3>2
  <2>4. array' \in BOOLEAN
    BY <1>5, <2>2 DEF pg_cache_init_fails
  <2>5. /\ calendar_count' \in Nat /\ entry_count' \in Nat /\ min_calendar_id' \in Int
        /\ shmem_free' \in 0 .. ShmemUnits
    BY <1>5, TablesAssumption DEF pg_cache_init_fails, TypeOK, CacheType
  <2>6. cache_filled' \in BOOLEAN /\ names' \in [DOMAIN names' -> Int] /\ DOMAIN names' \subseteq Name
    BY <1>5 DEF TypeOK, CacheType
  <2> QED
    BY <2>1, <2>3, <2>4, <2>5, <2>6 DEF TypeOK, CacheType
<1> QED
  BY <1>3, <1>4, <1>5 DEF QueryIds, QueryFails

LEMMA QueryType ==
  ASSUME TypeOK, NEW b \in Backend, QueryCounts(b) \/ QueryEntries(b)
  PROVE  TypeOK'
<1>1. /\ UNCHANGED <<db, fresh_from>> /\ UNCHANGED imcx /\ pc[b] # "idle"
      /\ \/ Raise(b)
         \/ GotoRows(b, "q2_rows") /\ UNCHANGED held
         \/ GotoRows(b, "q3_rows") /\ UNCHANGED held
  BY DEF QueryCounts, QueryEntries, Query, QueryFails
<1>2. CASE Raise(b)
  BY <1>1, <1>2, RaiseKeepsType, KeepsCacheType
<1>3. ASSUME NEW rows \in {"q2_rows", "q3_rows"}, GotoRows(b, rows), UNCHANGED held
      PROVE  TypeOK'
  <2>1. SessionType'
    BY <1>1, <1>3, GotoRowsType DEF Point
  <2>2. OtherType'
    BY <1>1, <1>3 DEF TypeOK, OtherType
  <2> QED
    BY <1>1, <2>1, <2>2, KeepsCacheType
<1> QED
  BY <1>1, <1>2, <1>3

LEMMA AdvanceType ==
  ASSUME TypeOK, NEW b \in Backend, NEW id, Advance(b, id), UNCHANGED <<db, fresh_from>>
  PROVE  SessionType' /\ (UNCHANGED held => OtherType')
<1>1. cursor' \in [Backend -> SUBSET Int]
  BY DEF TypeOK, SessionType, Advance
<1> QED
  BY <1>1 DEF TypeOK, SessionType, OtherType, Advance

LEMMA FitsOne == ASSUME TypeOK, Fits(1) PROVE shmem_free - AllocCost \in 0 .. ShmemUnits
<1>1. shmem_free - AllocCost * 1 \in 0 .. ShmemUnits
  BY FitsBound DEF TypeOK, CacheType
<1> QED
  BY <1>1, TablesAssumption

\* What the rows of Q2 and Q3 do to the array.
LEMMA OverwriteType ==
  ASSUME CacheType, NEW i, NEW cal \in Calendar
  PROVE  LET new == [calendars EXCEPT ![i] = cal] IN
         new \in [DOMAIN calendars -> Calendar] /\ DOMAIN new = DOMAIN calendars
  BY DEF CacheType

LEMMA InitCalendarType ==
  ASSUME TypeOK, NEW b \in Backend, NEW id \in cursor[b], InitCalendar(b, id)
  PROVE  TypeOK'
<1> DEFINE size == Len(Tables[snapshot[b]].dates[id])
           name == Tables[snapshot[b]].name[id]
           new  == [id |-> id, dates |-> Zeros(size), indexed |-> FALSE]
<1>1. UNCHANGED <<db, fresh_from>> /\ pc[b] = "q2_rows"
  BY DEF InitCalendar
<1>2. CASE Raise(b) /\ UNCHANGED imcx
  BY <1>1, <1>2, RaiseKeepsType, KeepsCacheType
<1>3. CASE /\ Fits(1)
           /\ shmem_free' = shmem_free - AllocCost
           /\ calendars' = [calendars EXCEPT ![get_calendar_index(id)] = new]
           /\ entry_count' = entry_count + size
           /\ pg_set_calendar_name(b, name, id)
           /\ UNCHANGED <<array, calendar_count, min_calendar_id, cache_filled>>
  <2>1. id \in Int
    BY DEF TypeOK, SessionType
  <2>2. id \in DOMAIN Tables[snapshot[b]].dates
    BY <1>1 DEF TypeOK, SessionType
  <2>3. Tables[snapshot[b]].dates[id] \in Seq(Int) /\ name \in Name
    BY <1>1, <2>2, SnapshotTables
  <2>4. size \in Nat
    BY <2>3
  <2>5. new \in Calendar
    BY <2>1, <2>4, ZerosType DEF Calendar
  <2>6. calendars' \in [DOMAIN calendars -> Calendar] /\ DOMAIN calendars' = DOMAIN calendars
    BY <1>3, <2>5, OverwriteType DEF TypeOK
  <2>7. shmem_free' \in 0 .. ShmemUnits /\ entry_count' \in Nat
    <3>1. shmem_free' \in 0 .. ShmemUnits
      BY <1>3, FitsOne
    <3>2. entry_count \in Nat
      BY DEF TypeOK, CacheType
    <3>3. entry_count' \in Nat
      <4> HIDE DEF size
      <4> QED
        BY <1>3, <2>4, <3>2
    <3> QED
      BY <3>1, <3>3
  <2>8. names' \in [DOMAIN names' -> Int] /\ DOMAIN names' \subseteq Name
    <3>1. CASE names' = [n \in DOMAIN names \cup {name} |-> IF n = name THEN id ELSE names[n]]
      BY <2>1, <2>3, <3>1 DEF TypeOK, CacheType
    <3>2. CASE UNCHANGED names
      BY <3>2 DEF TypeOK, CacheType
    <3> QED
      BY <1>3, <3>1, <3>2 DEF pg_set_calendar_name
  <2>9. array' \in BOOLEAN /\ cache_filled' \in BOOLEAN
    BY <1>3 DEF TypeOK, CacheType
  <2>10. CacheType'
    BY <1>3, <2>6, <2>7, <2>8, <2>9 DEF TypeOK, CacheType
  <2>11. SessionType' /\ OtherType'
    <3>1. CASE Advance(b, id) /\ UNCHANGED held
      BY <1>1, <3>1, AdvanceType
    <3>2. CASE Raise(b)
      BY <1>1, <3>2, RaiseKeepsType
    <3> QED
      BY <1>3, <3>1, <3>2 DEF pg_set_calendar_name
  <2> QED
    BY <2>10, <2>11 DEF TypeOK
<1> QED
  BY <1>2, <1>3 DEF InitCalendar

LEMMA CopyCalendarType ==
  ASSUME TypeOK, NEW b \in Backend, NEW id \in cursor[b], CopyCalendar(b, id)
  PROVE  TypeOK'
<1> DEFINE i      == get_calendar_index(id)
           copied(indexed) == [id |-> calendars[i].id, dates |-> DatesRead(b, id), indexed |-> indexed]
<1>1. /\ UNCHANGED <<db, fresh_from>> /\ pc[b] = "q3_rows"
      /\ UNCHANGED <<array, calendar_count, entry_count, min_calendar_id, cache_filled, names>>
  BY DEF CopyCalendar
<1>2. DatesRead(b, id) \in Seq(Int)
  <2>1. id \in DOMAIN Tables[snapshot[b]].dates
    BY <1>1 DEF TypeOK, SessionType
  <2> QED
    BY <1>1, <2>1, SnapshotTables DEF DatesRead
<1>3. i \in DOMAIN calendars => copied(FALSE) \in Calendar /\ copied(TRUE) \in Calendar
  BY <1>2 DEF TypeOK, CacheType, Calendar
<1>4. \/ calendars' = [calendars EXCEPT ![i] = copied(FALSE)] /\ UNCHANGED shmem_free
      \/ /\ calendars' = [calendars EXCEPT ![i] = copied(TRUE)]
         /\ shmem_free' = shmem_free - AllocCost /\ Fits(1)
  BY DEF CopyCalendar
<1>5. calendars' \in [DOMAIN calendars -> Calendar] /\ DOMAIN calendars' = DOMAIN calendars
  <2>1. CASE i \in DOMAIN calendars
    <3>1. PICK cal \in Calendar : calendars' = [calendars EXCEPT ![i] = cal]
      BY <1>3, <1>4, <2>1
    <3>2. CacheType
      BY DEF TypeOK
    <3> QED
      BY <3>1, <3>2, OverwriteType
  <2>2. CASE i \notin DOMAIN calendars
    BY <1>4, <2>2 DEF TypeOK, CacheType
  <2> QED
    BY <2>1, <2>2
<1>6. shmem_free' \in 0 .. ShmemUnits
  BY <1>4, FitsOne DEF TypeOK, CacheType
<1>7. array' \in BOOLEAN /\ cache_filled' \in BOOLEAN
  BY <1>1 DEF TypeOK, CacheType
<1>8. CacheType'
  BY <1>1, <1>5, <1>6, <1>7 DEF TypeOK, CacheType
<1>9. SessionType' /\ OtherType'
  BY <1>1, RaiseKeepsType, AdvanceType DEF CopyCalendar
<1> QED
  BY <1>8, <1>9 DEF TypeOK

LEMMA FillType ==
  ASSUME TypeOK, NEW b \in Backend, Fill(b)
  PROVE  TypeOK'
<1>1. CASE CountsDone(b)
  BY <1>1, GotoKeepsType, KeepsCacheType DEF CountsDone, Point
<1>2. CASE FinishFill(b)
  <2>1. SessionType' /\ OtherType'
    BY <1>2, GotoKeepsType, ReleaseType DEF FinishFill, Point, TypeOK
  <2>2. array' \in BOOLEAN /\ cache_filled' \in BOOLEAN
    BY <1>2 DEF FinishFill, TypeOK, CacheType
  <2>3. CacheType'
    BY <1>2, <2>2 DEF FinishFill, TypeOK, CacheType
  <2> QED
    BY <2>1, <2>3 DEF TypeOK
<1> QED
  BY <1>1, <1>2, QueryIdsType, QueryType, InitCalendarType, CopyCalendarType DEF Fill

\* The calendars that the readers list and answer from have integer ids.
LEMMA CachedIds ==
  ASSUME TypeOK
  PROVE  /\ \A i \in DOMAIN calendars : calendars[i].id \in Int
         /\ DOMAIN CachedDates \subseteq Int
  BY DEF TypeOK, CacheType, Calendar, CachedDates, Listed

LEMMA AddDaysType ==
  ASSUME TypeOK, NEW b \in Backend, NEW id, AddDays(b, id)
  PROVE  TypeOK'
<1> DEFINE i == get_calendar_index(id)
<1>1. CASE Crash
  BY <1>1, CrashType
<1>2. ASSUME NEW kind \in Kind, Return(b, Outcome(kind)), UNCHANGED <<db, imcx, fresh_from>>
      PROVE  TypeOK'
  BY <1>2, OutcomeType, ReturnKeepsType, KeepsCacheType
<1>3. CASE /\ i \in DOMAIN calendars
           /\ Return(b, Dates([x \in {calendars[i].id} |-> calendars[i].dates]))
           /\ UNCHANGED <<db, imcx, fresh_from>>
  <2> DEFINE content == [x \in {calendars[i].id} |-> calendars[i].dates]
  <2>1. DOMAIN content \subseteq Int
    BY <1>3, CachedIds
  <2>2. Dates(content).kind \in Kind /\ DOMAIN Dates(content).content \subseteq Int
    BY <2>1, DatesType
  <2> QED
    BY <1>3, <2>2, ReturnKeepsType, KeepsCacheType
<1> QED
  BY <1>1, <1>2, <1>3 DEF AddDays, Raise, Kind

LEMMA ReadType ==
  ASSUME TypeOK, NEW b \in Backend, Read(b)
  PROVE  TypeOK'
<1>1. CASE LockToRead(b)
  <2>1. SessionType' /\ OtherType'
    BY <1>1, GotoKeepsType, AcquireType DEF LockToRead, Point, TypeOK
  <2> QED
    BY <1>1, <2>1, KeepsCacheType DEF LockToRead
<1>2. CASE Info(b)
  BY <1>2, OutcomeType, ReturnKeepsType, KeepsCacheType DEF Info, Kind
<1>3. CASE Report(b)
  <2>1. Dates(CachedDates).kind \in Kind /\ DOMAIN Dates(CachedDates).content \subseteq Int
    BY CachedIds, DatesType
  <2>2. Outcome("error").kind \in Kind /\ DOMAIN Outcome("error").content \subseteq Int
    BY OutcomeType DEF Kind
  <2> QED
    BY <1>3, <2>1, <2>2, ReturnKeepsType, KeepsCacheType DEF Report
<1>4. CASE AddDaysById(b)
  BY <1>4, AddDaysType DEF AddDaysById
<1>5. CASE AddDaysByName(b)
  BY <1>5, AddDaysType, OutcomeType, ReturnKeepsType, KeepsCacheType DEF AddDaysByName, Kind
<1> QED
  BY <1>1, <1>2, <1>3, <1>4, <1>5 DEF Read

LEMMA InvalidateType ==
  ASSUME TypeOK, NEW b \in Backend,
         CheckToInvalidate(b) \/ LockToInvalidate(b) \/ Invalidate(b)
  PROVE  TypeOK'
<1>0. \A kind \in Kind : Outcome(kind).kind \in Kind /\ DOMAIN Outcome(kind).content \subseteq Int
  BY OutcomeType
<1>1. CASE CheckToInvalidate(b)
  BY <1>0, <1>1, GotoKeepsType, ReturnKeepsType, KeepsCacheType DEF CheckToInvalidate, Point, Kind
<1>2. CASE LockToInvalidate(b)
  <2>1. SessionType' /\ OtherType'
    BY <1>2, GotoKeepsType, AcquireType DEF LockToInvalidate, Point, TypeOK
  <2> QED
    BY <1>2, <2>1, KeepsCacheType DEF LockToInvalidate
<1>3. CASE Invalidate(b)
  <2>1. CASE Return(b, Outcome("not_loaded")) /\ UNCHANGED <<imcx, fresh_from, db>>
    BY <1>0, <2>1, ReturnKeepsType, KeepsCacheType DEF Kind
  <2>2. CASE /\ cache_invalidate
             /\ fresh_from' = db /\ UNCHANGED db
             /\ Return(b, Outcome("invalidated"))
    <3>1. DOMAIN calendars' = {} /\ calendars' \in [{} -> Calendar]
      BY <2>2, EmptyType DEF cache_invalidate
    <3>2. DOMAIN names' = {} /\ names' \in [{} -> Int]
      BY <2>2, EmptyType DEF cache_invalidate
    <3>3. array' \in BOOLEAN /\ cache_filled' \in BOOLEAN
      BY <2>2 DEF cache_invalidate
    <3>4. CacheType'
      BY <2>2, <3>1, <3>2, <3>3 DEF cache_invalidate, TypeOK, CacheType
    <3>5. fresh_from' \in 0 .. db
      BY <2>2, TablesAssumption DEF TypeOK, OtherType, Version
    <3>6. SessionType' /\ OtherType'
      BY <1>0, <2>2, <3>5, ReturnType DEF TypeOK, Kind
    <3> QED
      BY <3>4, <3>6 DEF TypeOK
  <2> QED
    BY <1>3, <2>1, <2>2 DEF Invalidate
<1> QED
  BY <1>1, <1>2, <1>3

LEMMA TypeStep ==
  ASSUME TypeOK, NEW b \in Backend, Step(b)
  PROVE  TypeOK'
  BY PopulateType, FillType, ReadType, InvalidateType DEF Step

LEMMA BeginType ==
  ASSUME TypeOK, NEW b \in Backend, NEW c \in Call, Begin(b, c)
  PROVE  TypeOK'
<1>1. db \in 0 .. db /\ db # 0
  BY TablesAssumption DEF TypeOK, OtherType, Version
<1>2. Outcome("none").kind \in Kind /\ DOMAIN Outcome("none").content \subseteq Int
  BY OutcomeType DEF Kind
<1>3. \A d \in Backend : answer'[d].kind \in Kind /\ DOMAIN answer'[d].content \subseteq Int
  BY <1>2 DEF Begin, TypeOK, SessionType
<1>4. pc' \in [Backend -> Point] /\ call' \in [Backend -> Call] /\ snapshot' \in [Backend -> 0 .. db']
  BY <1>1 DEF Begin, TypeOK, SessionType, Point
<1>5. SessionType'
  BY <1>1, <1>3, <1>4 DEF Begin, TypeOK, SessionType
<1>6. OtherType'
  BY DEF Begin, TypeOK, OtherType
<1> QED
  BY <1>5, <1>6, KeepsCacheType DEF Begin

LEMMA CommitType ==
  ASSUME TypeOK, Commit
  PROVE  TypeOK'
<1>1. db' \in Version /\ fresh_from' \in 0 .. db' /\ 0 .. db \subseteq 0 .. db'
  BY TablesAssumption DEF Commit, TypeOK, OtherType, Version
<1>2. SessionType'
  BY <1>1 DEF Commit, TypeOK, SessionType, session
<1>3. OtherType'
  BY <1>1 DEF Commit, TypeOK, OtherType
<1> QED
  BY <1>2, <1>3, KeepsCacheType DEF Commit

LEMMA TypeNext == TypeOK /\ [Next]_vars => TypeOK'
<1> SUFFICES ASSUME TypeOK, [Next]_vars PROVE TypeOK'
  OBVIOUS
<1>1. CASE UNCHANGED vars
  BY <1>1 DEF vars, session, imcx, TypeOK, CacheType, SessionType, OtherType
<1> QED
  BY <1>1, CommitType, BeginType, TypeStep DEF Next

\* The variables keep their types: memory is never overdrawn, a running
\* statement has a snapshot, and the array of calendars has no holes.
THEOREM TypeCorrect == Spec => []TypeOK
  BY TypeInit, TypeNext, PTL DEF Spec

=============================================================================
