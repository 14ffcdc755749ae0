----------------------- MODULE SharedCacheFillProofs -----------------------
(***************************************************************************)
(* The lock discipline of the backends, and what follows from it: calls    *)
(* never wait for each other all at once, and a cache that is marked       *)
(* filled is the image of one version of the tables, entry count included, *)
(* for every set of backends, every sequence of versions, every failing    *)
(* query and every amount of memory.                                       *)
(***************************************************************************)
EXTENDS SharedCacheProofs, FiniteSetTheorems

-----------------------------------------------------------------------------
(* The lock *)

\* ModeAt, point by point.
LEMMA Modes ==
  /\ \A point \in {"recheck", "q1", "q2", "q2_rows", "q3", "q3_rows", "invalidate"} :
       ModeAt(point) = "exclusive"
  /\ ModeAt("read") = "shared"
  /\ \A point \in {"idle", "check", "validate", "lock_fill", "lock_read", "lock_invalidate"} :
       ModeAt(point) = "none"
  BY DEF ModeAt

\* A backend goes to a point where it holds what it held, nothing, or a mode
\* that was free.
LEMMA LockMove ==
  ASSUME TypeOK, LockDiscipline, NEW b \in Backend, NEW point,
         pc' = [pc EXCEPT ![b] = point], held' = [held EXCEPT ![b] = ModeAt(point)],
         ModeAt(point) \in {"none", held[b]} \/ Free(ModeAt(point))
  PROVE  LockDiscipline'
<1>1. \A c \in Backend : held'[c] = ModeAt(pc'[c])
  BY DEF TypeOK, SessionType, OtherType, LockDiscipline
<1>2. ASSUME NEW c \in Backend, NEW d \in Backend, held'[c] = "exclusive", held'[d] # "none"
      PROVE  c = d
  <2>1. CASE c = b /\ d = b
    BY <2>1
  <2>2. CASE c # b /\ d # b
    BY <1>2, <2>2 DEF TypeOK, OtherType, LockDiscipline
  <2>3. CASE c = b /\ d # b
    BY <1>2, <2>3 DEF TypeOK, OtherType, LockDiscipline, Free
  <2>4. CASE c # b /\ d = b
    BY <1>2, <2>4 DEF TypeOK, OtherType, LockDiscipline, Free
  <2> QED
    BY <2>1, <2>2, <2>3, <2>4
<1> QED
  BY <1>1, <1>2 DEF LockDiscipline, ModeAt

\* The moves of the actions.
LEMMA GotoKeepsLock ==
  ASSUME TypeOK, LockDiscipline, NEW b \in Backend, NEW point,
         pc' = [pc EXCEPT ![b] = point], UNCHANGED held, ModeAt(point) = ModeAt(pc[b])
  PROVE  LockDiscipline'
<1>1. held' = [held EXCEPT ![b] = ModeAt(point)] /\ ModeAt(point) = held[b]
  BY DEF TypeOK, OtherType, LockDiscipline
<1> QED
  BY <1>1, LockMove

LEMMA ReleaseKeepsLock ==
  ASSUME TypeOK, LockDiscipline, NEW b \in Backend, NEW point,
         pc' = [pc EXCEPT ![b] = point], Release(b), ModeAt(point) = "none"
  PROVE  LockDiscipline'
  BY LockMove DEF Release

LEMMA AcquireKeepsLock ==
  ASSUME TypeOK, LockDiscipline, NEW b \in Backend, NEW point,
         Goto(b, point), Acquire(b, ModeAt(point))
  PROVE  LockDiscipline'
  BY LockMove DEF Goto, Acquire

LEMMA ReturnKeepsLock ==
  ASSUME TypeOK, LockDiscipline, NEW b \in Backend, NEW outcome, Return(b, outcome)
  PROVE  LockDiscipline'
  BY ReleaseKeepsLock, Modes DEF Return

LEMMA CrashKeepsLock ==
  ASSUME Crash
  PROVE  LockDiscipline'
  BY Modes DEF Crash, LockDiscipline

LEMMA LockStep ==
  ASSUME TypeOK, LockDiscipline, NEW b \in Backend, Step(b)
  PROVE  LockDiscipline'
<1>1. CASE CheckFilled(b)
  BY <1>1, GotoKeepsLock, Modes DEF CheckFilled, Goto
<1>2. CASE Validate(b)
  BY <1>2, GotoKeepsLock, ReturnKeepsLock, Modes DEF Validate, Goto, Raise
<1>3. CASE LockToFill(b)
  BY <1>3, AcquireKeepsLock, Modes DEF LockToFill
<1>4. CASE Recheck(b)
  BY <1>4, GotoKeepsLock, ReleaseKeepsLock, Modes DEF Recheck, Goto
<1>5. CASE QueryIds(b)
  BY <1>5, GotoKeepsLock, ReturnKeepsLock, Modes DEF QueryIds, QueryFails, Goto, Raise
<1>6. CASE QueryCounts(b) \/ QueryEntries(b)
  BY <1>6, GotoKeepsLock, ReturnKeepsLock, Modes
     DEF QueryCounts, QueryEntries, Query, QueryFails, GotoRows, Raise
<1>7. CASE CountsDone(b)
  BY <1>7, GotoKeepsLock, Modes DEF CountsDone, Goto
<1>8. CASE FinishFill(b)
  BY <1>8, ReleaseKeepsLock, Modes DEF FinishFill, Goto
<1>9. ASSUME NEW id \in cursor[b], InitCalendar(b, id) \/ CopyCalendar(b, id)
      PROVE  LockDiscipline'
  <2>1. CASE Raise(b)
    BY <2>1, ReturnKeepsLock DEF Raise
  <2>2. CASE Advance(b, id) /\ UNCHANGED held
    BY <2>2 DEF Advance, LockDiscipline
  <2> QED
    BY <1>9, <2>1, <2>2 DEF InitCalendar, CopyCalendar, pg_set_calendar_name
<1>10. CASE LockToRead(b)
  BY <1>10, AcquireKeepsLock, Modes DEF LockToRead
<1>11. CASE Info(b) \/ Report(b)
  BY <1>11, ReturnKeepsLock DEF Info, Report
<1>12. CASE AddDaysById(b) \/ AddDaysByName(b)
  BY <1>12, ReturnKeepsLock, CrashKeepsLock DEF AddDaysById, AddDaysByName, AddDays, Raise
<1>13. CASE CheckToInvalidate(b)
  BY <1>13, GotoKeepsLock, ReturnKeepsLock, Modes DEF CheckToInvalidate, Goto
<1>14. CASE LockToInvalidate(b)
  BY <1>14, AcquireKeepsLock, Modes DEF LockToInvalidate
<1>15. CASE Invalidate(b)
  BY <1>15, ReturnKeepsLock DEF Invalidate
<1> QED
  BY <1>1, <1>2, <1>3, <1>4, <1>5, <1>6, <1>7, <1>8, <1>9, <1>10, <1>11, <1>12,
     <1>13, <1>14, <1>15 DEF Step, Fill, Read

LEMMA LockInit == Init => LockDiscipline
  BY Modes DEF Init, LockDiscipline

LEMMA LockNext == TypeOK /\ LockDiscipline /\ [Next]_vars => LockDiscipline'
<1> SUFFICES ASSUME TypeOK, LockDiscipline, [Next]_vars PROVE LockDiscipline'
  OBVIOUS
<1>1. CASE UNCHANGED vars
  BY <1>1 DEF vars, session, LockDiscipline
<1>2. CASE Commit
  BY <1>2 DEF Commit, session, LockDiscipline
<1>3. ASSUME NEW b \in Backend, NEW c \in Call, Begin(b, c)
      PROVE  LockDiscipline'
  BY <1>3, GotoKeepsLock, Modes DEF Begin
<1> QED
  BY <1>1, <1>2, <1>3, LockStep DEF Next

\* On every path the lock is held exactly where the code reads or writes the
\* cache, and a backend that fills or drops the cache is alone with it: no
\* early return and no error leaves the lock behind.
THEOREM LockCorrect == Spec => []LockDiscipline
<1>1. Init => TypeOK /\ LockDiscipline
  BY TypeInit, LockInit
<1>2. TypeOK /\ LockDiscipline /\ [Next]_vars => (TypeOK /\ LockDiscipline)'
  BY TypeNext, LockNext
<1> QED
  BY <1>1, <1>2, PTL DEF Spec

\* As long as calls are under way one of them can go on: who holds the lock
\* waits for no other, and where nobody holds it everybody may have it.
THEOREM SomeCallGoesOn == Spec => []NoLockDeadlock
<1>1. TypeOK /\ LockDiscipline => NoLockDeadlock
  <2> SUFFICES ASSUME TypeOK, LockDiscipline, NEW b \in Backend, pc[b] # "idle"
               PROVE  \E c \in Backend :
                        pc[c] # "idle" /\ \A mode \in {"shared", "exclusive"} : WaitsFor(c, mode) => Free(mode)
    BY DEF NoLockDeadlock
  <2>1. CASE \A c \in Backend : held[c] = "none"
    BY <2>1 DEF Free
  <2>2. ASSUME NEW c \in Backend, held[c] # "none"
        PROVE  pc[c] # "idle" /\ \A mode \in {"shared", "exclusive"} : ~WaitsFor(c, mode)
    BY <2>2, Modes DEF LockDiscipline, WaitsFor
  <2> QED
    BY <2>1, <2>2
<1> QED
  BY <1>1, LockCorrect, TypeCorrect, PTL

-----------------------------------------------------------------------------
(* The fill *)

Filling == {"q1", "q2", "q2_rows", "q3", "q3_rows"}

\* A calendar of the array in a fill: its dates have been copied, or only
\* counted, or there is none with this id.
CalendarIn(t, id, counted, copied) ==
  IF id \in copied THEN [id |-> id, dates |-> t.dates[id], indexed |-> TRUE]
  ELSE IF id \in counted THEN [id |-> id, dates |-> Zeros(Len(t.dates[id])), indexed |-> FALSE]
  ELSE Blank

\* The cache as a fill from t has built it, once Q2 has counted the dates of
\* some calendars, and Q3 has copied those of some.
Built(t, counted, copied) ==
  /\ array
  /\ min_calendar_id = t.min
  /\ t.min <= t.max
  /\ calendar_count = t.max - t.min + 1
  /\ DOMAIN calendars = 0 .. calendar_count - 1
  /\ \A i \in 0 .. calendar_count - 1 :
       calendars[i] = CalendarIn(t, t.min + i, counted, copied)
  /\ \A id \in counted : t.name[id] \in DOMAIN names /\ names[t.name[id]] = id

\* How far the fill of b is at each program point.
Progress(b) ==
  LET t    == Tables[snapshot[b]]
      ids  == DOMAIN t.dates
      done == ids \ cursor[b]
  IN
  /\ pc[b] \in Filling => ~cache_filled
  /\ pc[b] = "q2"      => Built(t, {}, {})
  /\ pc[b] = "q2_rows" => Built(t, done, {})
  /\ pc[b] = "q3"      => Built(t, ids, {})
  /\ pc[b] = "q3_rows" => Built(t, ids, done)

FillInvariant ==
  /\ FilledIsOneVersion
  /\ \A b \in Backend : Progress(b)

\* A backend that fills the cache is alone: no other backend is at a point
\* where the lock is held.
LEMMA FillerAlone ==
  ASSUME LockDiscipline, NEW b \in Backend, ModeAt(pc[b]) = "exclusive",
         NEW c \in Backend \ {b}
  PROVE  ModeAt(pc[c]) = "none"
  BY DEF LockDiscipline

LEMMA FillingIsExclusive ==
  ASSUME NEW b \in Backend, pc[b] \in Filling
  PROVE  ModeAt(pc[b]) = "exclusive"
  BY Modes DEF Filling

\* What a step leaves alone stays true.
LEMMA SameFilled ==
  ASSUME TypeOK, FilledIsOneVersion, UNCHANGED imcx, db' \in Nat, db <= db'
  PROVE  FilledIsOneVersion'
<1>1. db \in Nat
  BY TablesAssumption DEF TypeOK, OtherType, Version
<1>2. CASE ~cache_filled
  BY <1>2 DEF FilledIsOneVersion, imcx
<1>3. CASE cache_filled
  <2>1. PICK v \in 1 .. db : Holds(v)
    BY <1>3 DEF FilledIsOneVersion
  <2>2. v \in 1 .. db' /\ Holds(v)'
    BY <1>1, <2>1 DEF Holds, imcx
  <2> QED
    BY <2>2 DEF FilledIsOneVersion
<1> QED
  BY <1>2, <1>3

LEMMA SameProgress ==
  ASSUME NEW b \in Backend, Progress(b), UNCHANGED imcx,
         pc'[b] = pc[b], snapshot'[b] = snapshot[b], cursor'[b] = cursor[b]
  PROVE  Progress(b)'
  BY DEF Progress, Built, Filling, imcx

LEMMA NotFilling ==
  ASSUME NEW b \in Backend, pc'[b] \notin Filling
  PROVE  Progress(b)'
  BY DEF Progress, Filling

\* Backend b leaves the cache alone, and does not go on with a fill.
LEMMA KeepsFill ==
  ASSUME TypeOK, FillInvariant, NEW b \in Backend, NEW point, point \notin Filling \ {"q1"},
         UNCHANGED <<db, imcx>>, pc' = [pc EXCEPT ![b] = point],
         point = "q1" => ~cache_filled,
         \A c \in Backend \ {b} : snapshot'[c] = snapshot[c] /\ cursor'[c] = cursor[c]
  PROVE  FillInvariant'
<1>1. FilledIsOneVersion'
  BY SameFilled, TablesAssumption DEF FillInvariant, TypeOK, OtherType, Version
<1>2. ASSUME NEW c \in Backend \ {b}
      PROVE  Progress(c)'
  BY <1>2, SameProgress DEF FillInvariant, TypeOK, SessionType
<1>3. Progress(b)'
  <2>1. pc'[b] = point
    BY DEF TypeOK, SessionType
  <2> QED
    BY <2>1 DEF Progress, Filling, imcx
<1> QED
  BY <1>1, <1>2, <1>3 DEF FillInvariant

\* Backend b, alone with the cache, leaves it unfilled.
LEMMA FillStep ==
  ASSUME LockDiscipline, NEW b \in Backend, ModeAt(pc[b]) = "exclusive",
         ~cache_filled', \A c \in Backend \ {b} : pc'[c] = pc[c], Progress(b)'
  PROVE  FillInvariant'
<1>1. ASSUME NEW c \in Backend \ {b}
      PROVE  Progress(c)'
  <2>1. pc'[c] \notin Filling
    BY <1>1, FillerAlone, FillingIsExclusive
  <2> QED
    BY <2>1, NotFilling
<1>2. FilledIsOneVersion'
  BY DEF FilledIsOneVersion
<1> QED
  BY <1>1, <1>2 DEF FillInvariant

LEMMA CrashFill ==
  ASSUME Crash
  PROVE  FillInvariant'
  BY DEF Crash, FillInvariant, FilledIsOneVersion, Progress, Filling

LEMMA ReturnFill ==
  ASSUME TypeOK, FillInvariant, NEW b \in Backend, NEW outcome,
         Return(b, outcome), UNCHANGED <<db, imcx>>
  PROVE  FillInvariant'
  BY KeepsFill DEF Return, TypeOK, SessionType, Filling

LEMMA GotoFill ==
  ASSUME TypeOK, FillInvariant, NEW b \in Backend, NEW point, point \notin Filling \ {"q1"},
         point = "q1" => ~cache_filled,
         Goto(b, point), UNCHANGED <<db, imcx>>
  PROVE  FillInvariant'
  BY KeepsFill DEF Goto

\* A fill that raises an error leaves the cache unfilled.
LEMMA RaiseFill ==
  ASSUME TypeOK, LockDiscipline, NEW b \in Backend, ModeAt(pc[b]) = "exclusive",
         ~cache_filled', Raise(b)
  PROVE  FillInvariant'
<1>1. pc'[b] = "idle" /\ \A c \in Backend \ {b} : pc'[c] = pc[c]
  BY DEF Raise, Return, TypeOK, SessionType
<1>2. Progress(b)'
  BY <1>1, NotFilling DEF Filling
<1> QED
  BY <1>1, <1>2, FillStep

\* Q1 and pg_cache_init: the array of blank calendars.
LEMMA QueryIdsFill ==
  ASSUME TypeOK, LockDiscipline, FillInvariant, NEW b \in Backend, QueryIds(b)
  PROVE  FillInvariant'
<1>0. PICK v : v = snapshot[b]
  OBVIOUS
<1> DEFINE t     == Tables[v]
           count == t.max - t.min + 1
<1>1. pc[b] = "q1" /\ pc[b] \in Filling /\ ~cache_filled /\ ModeAt(pc[b]) = "exclusive"
  BY Modes DEF QueryIds, FillInvariant, Progress, Filling
<1>2. CASE Raise(b)
  <2>1. ~cache_filled'
    BY <1>1 DEF QueryIds, QueryFails, imcx
  <2> QED
    BY <1>1, <1>2, <2>1, RaiseFill
<1>3. CASE /\ t.min <= t.max
           /\ pg_cache_init(t.min, count)
           /\ Goto(b, "q2")
           /\ UNCHANGED cache_filled
  <2>1. /\ pc'[b] = "q2" /\ snapshot'[b] = v
        /\ \A c \in Backend \ {b} : pc'[c] = pc[c]
    BY <1>0, <1>3 DEF Goto, TypeOK, SessionType
  <2>2. Built(t, {}, {})'
    BY <1>3 DEF pg_cache_init, Built, CalendarIn
  <2>3. ~cache_filled'
    BY <1>1, <1>3
  <2>4. Progress(b)'
    BY <2>1, <2>2, <2>3 DEF Progress, Goto
  <2> QED
    BY <1>1, <2>1, <2>3, <2>4, FillStep
<1> QED
  BY <1>0, <1>2, <1>3 DEF QueryIds, QueryFails

\* Q2 and Q3: the rows are those of the snapshot.
LEMMA QueryFill ==
  ASSUME TypeOK, LockDiscipline, FillInvariant, NEW b \in Backend,
         QueryCounts(b) \/ QueryEntries(b)
  PROVE  FillInvariant'
<1>0. PICK v : v = snapshot[b]
  OBVIOUS
<1> DEFINE t == Tables[v]
<1>1. /\ pc[b] \in Filling /\ ~cache_filled /\ ModeAt(pc[b]) = "exclusive"
      /\ ~cache_filled' /\ UNCHANGED imcx
  <2>1. pc[b] \in {"q2", "q3"} /\ UNCHANGED imcx
    BY DEF QueryCounts, QueryEntries, Query, QueryFails
  <2>2. pc[b] \in Filling /\ ModeAt(pc[b]) = "exclusive"
    BY <2>1, Modes DEF Filling
  <2>3. ~cache_filled
    BY <2>2 DEF FillInvariant, Progress
  <2> QED
    BY <2>1, <2>2, <2>3 DEF imcx
<1>2. CASE Raise(b)
  BY <1>1, <1>2, RaiseFill
<1>3. ASSUME NEW rows, GotoRows(b, rows)
      PROVE  /\ pc'[b] = rows /\ snapshot'[b] = v /\ cursor'[b] = DOMAIN t.dates
             /\ \A c \in Backend \ {b} : pc'[c] = pc[c]
  BY <1>0, <1>3 DEF GotoRows, TypeOK, SessionType
<1>4. CASE pc[b] = "q2" /\ GotoRows(b, "q2_rows")
  <2>1. Built(t, {}, {})'
    BY <1>0, <1>1, <1>4 DEF FillInvariant, Progress, Built, imcx
  <2>2. DOMAIN t.dates \ cursor'[b] = {}
    BY <1>3, <1>4
  <2>3. Progress(b)'
    BY <1>1, <1>3, <1>4, <2>1, <2>2 DEF Progress
  <2> QED
    BY <1>1, <1>3, <1>4, <2>3, FillStep
<1>5. CASE pc[b] = "q3" /\ GotoRows(b, "q3_rows")
  <2>1. Built(t, DOMAIN t.dates, {})'
    BY <1>0, <1>1, <1>5 DEF FillInvariant, Progress, Built, imcx
  <2>2. DOMAIN t.dates \ cursor'[b] = {}
    BY <1>3, <1>5
  <2>3. Progress(b)'
    BY <1>1, <1>3, <1>5, <2>1, <2>2 DEF Progress
  <2> QED
    BY <1>1, <1>3, <1>5, <2>3, FillStep
<1> QED
  BY <1>2, <1>4, <1>5 DEF QueryCounts, QueryEntries, Query, QueryFails

LEMMA CountsDoneFill ==
  ASSUME TypeOK, LockDiscipline, FillInvariant, NEW b \in Backend, CountsDone(b)
  PROVE  FillInvariant'
<1>0. PICK v : v = snapshot[b]
  OBVIOUS
<1> DEFINE t == Tables[v]
<1>1. /\ pc[b] = "q2_rows" /\ ModeAt(pc[b]) = "exclusive"
      /\ ~cache_filled' /\ UNCHANGED imcx
  BY Modes DEF CountsDone, FillInvariant, Progress, Filling, imcx
<1>2. /\ pc'[b] = "q3" /\ snapshot'[b] = v
      /\ \A c \in Backend \ {b} : pc'[c] = pc[c]
  BY <1>0 DEF CountsDone, Goto, TypeOK, SessionType
<1>3. DOMAIN t.dates \ cursor[b] = DOMAIN t.dates
  BY DEF CountsDone
<1>4. Built(t, DOMAIN t.dates, {})
  BY <1>0, <1>1, <1>3 DEF FillInvariant, Progress
<1>5. Built(t, DOMAIN t.dates, {})'
  BY <1>1, <1>4 DEF Built, imcx
<1>6. Progress(b)'
  BY <1>1, <1>2, <1>5 DEF Progress
<1> QED
  BY <1>1, <1>2, <1>6, FillStep

\* The last row of Q3 has been read: the cache is the image of the snapshot.
LEMMA FinishHolds ==
  ASSUME TypeOK, FillInvariant, NEW b \in Backend, FinishFill(b), NEW v, v = snapshot[b]
  PROVE  v \in 1 .. db /\ Holds(v)'
<1> DEFINE t == Tables[v]
<1>1. pc[b] = "q3_rows" /\ pc[b] # "idle"
  BY DEF FinishFill
<1>2. v \in 1 .. db
  BY <1>1, SnapshotTables
<1>3. DOMAIN t.dates \ cursor[b] = DOMAIN t.dates
  BY DEF FinishFill
<1>4. Built(t, DOMAIN t.dates, DOMAIN t.dates)
  BY <1>1, <1>3 DEF FillInvariant, Progress
<1>5. calendars = [i \in 0 .. calendar_count - 1 |->
                     IF t.min + i \in DOMAIN t.dates
                     THEN [id |-> t.min + i, dates |-> t.dates[t.min + i], indexed |-> TRUE]
                     ELSE Blank]
  BY <1>4 DEF Built, CalendarIn, TypeOK, CacheType
<1>6. Holds(v)
  BY <1>4, <1>5 DEF Built, Holds
<1>7. UNCHANGED <<array, calendars, calendar_count, min_calendar_id, names>>
  BY DEF FinishFill
<1> QED
  BY <1>2, <1>6, <1>7 DEF Holds

LEMMA FinishFillFill ==
  ASSUME TypeOK, LockDiscipline, FillInvariant, NEW b \in Backend, FinishFill(b)
  PROVE  FillInvariant'
<1>1. PICK v : v = snapshot[b]
  OBVIOUS
<1>2. pc[b] = "q3_rows" /\ ModeAt(pc[b]) = "exclusive" /\ db' = db
  BY Modes DEF FinishFill
<1>3. FilledIsOneVersion'
  BY <1>1, <1>2, FinishHolds DEF FilledIsOneVersion
<1>4. ASSUME NEW c \in Backend PROVE pc'[c] \notin Filling
  <2>1. CASE c = b
    BY <2>1 DEF FinishFill, Goto, TypeOK, SessionType, Filling
  <2>2. CASE c # b
    BY <1>2, <2>2, FillerAlone, FillingIsExclusive DEF FinishFill, Goto, TypeOK, SessionType
  <2> QED
    BY <2>1, <2>2
<1> QED
  BY <1>3, <1>4, NotFilling DEF FillInvariant

LEMMA InvalidateFill ==
  ASSUME TypeOK, LockDiscipline, FillInvariant, NEW b \in Backend, Invalidate(b)
  PROVE  FillInvariant'
<1>1. CASE UNCHANGED imcx
  BY <1>1, ReturnFill DEF Invalidate
<1>2. CASE cache_invalidate
  <2>1. ~cache_filled' /\ ModeAt(pc[b]) = "exclusive"
    BY <1>2, Modes DEF cache_invalidate, Invalidate
  <2>2. pc'[b] = "idle" /\ \A c \in Backend \ {b} : pc'[c] = pc[c]
    BY DEF Invalidate, Return, TypeOK, SessionType
  <2>3. Progress(b)'
    BY <2>2, NotFilling DEF Filling
  <2> QED
    BY <2>1, <2>2, <2>3, FillStep
<1> QED
  BY <1>1, <1>2 DEF Invalidate

\* The calendar of a row that has not been read: where it is in the array.
LEMMA RowOf ==
  ASSUME TypeOK, NEW b \in Backend, pc[b] \in {"q2_rows", "q3_rows"}, NEW id \in cursor[b],
         NEW v, v = snapshot[b], NEW counted, NEW copied, Built(Tables[v], counted, copied)
  PROVE  /\ id \in DOMAIN Tables[v].dates /\ id \in Int
         /\ Tables[v].min \in Int /\ Tables[v].max \in Int
         /\ get_calendar_index(id) = id - Tables[v].min
         /\ get_calendar_index(id) \in 0 .. calendar_count - 1
<1>1. id \in DOMAIN Tables[v].dates
  BY DEF TypeOK, SessionType
<1>2. /\ DOMAIN Tables[v].dates \subseteq (Tables[v].min .. Tables[v].max) \ {0}
      /\ Tables[v].min \in Int /\ Tables[v].max \in Int
  BY SnapshotTables
<1>3. id \in Tables[v].min .. Tables[v].max
  BY <1>1, <1>2
<1> QED
  BY <1>1, <1>2, <1>3, SMTT(30) DEF Built, get_calendar_index

\* After the row of one more calendar.
LEMMA AdvanceDone ==
  ASSUME TypeOK, NEW b \in Backend, NEW id \in cursor[b], Advance(b, id),
         NEW ids, id \in ids
  PROVE  /\ ids \ cursor'[b] = (ids \ cursor[b]) \cup {id}
         /\ pc' = pc /\ snapshot' = snapshot
  BY DEF TypeOK, SessionType, Advance

LEMMA InitCalendarFill ==
  ASSUME TypeOK, LockDiscipline, FillInvariant, NEW b \in Backend, NEW id \in cursor[b],
         InitCalendar(b, id)
  PROVE  FillInvariant'
<1>0. PICK v, done : v = snapshot[b] /\ done = DOMAIN Tables[v].dates \ cursor[b]
  OBVIOUS
<1> DEFINE t    == Tables[v]
           ids  == DOMAIN t.dates
           i    == get_calendar_index(id)
           name == t.name[id]
           new  == [id |-> id, dates |-> Zeros(Len(t.dates[id])), indexed |-> FALSE]
<1>1. /\ pc[b] = "q2_rows" /\ ~cache_filled /\ ModeAt(pc[b]) = "exclusive"
  BY Modes DEF InitCalendar, FillInvariant, Progress, Filling
<1>2. ~cache_filled'
  BY <1>1 DEF InitCalendar, imcx
<1>3. CASE Raise(b)
  BY <1>1, <1>2, <1>3, RaiseFill
<1>4. CASE /\ calendars' = [calendars EXCEPT ![i] = new]
           /\ name \notin DOMAIN names
           /\ names' = [n \in DOMAIN names \cup {name} |-> IF n = name THEN id ELSE names[n]]
           /\ Advance(b, id)
           /\ UNCHANGED <<array, calendar_count, min_calendar_id>>
  <2>1. Built(t, done, {})
    BY <1>0, <1>1 DEF FillInvariant, Progress
  <2>2. /\ id \in ids /\ id \in Int /\ t.min \in Int /\ t.max \in Int
        /\ i = id - t.min /\ i \in 0 .. calendar_count - 1
    BY <1>0, <1>1, <2>1, RowOf
  <2>3. ids \ cursor'[b] = done \cup {id} /\ pc' = pc /\ snapshot' = snapshot
    BY <1>0, <1>4, <2>2, AdvanceDone
  <2>4. /\ array' /\ min_calendar_id' = t.min /\ t.min <= t.max
        /\ calendar_count' = t.max - t.min + 1
        /\ DOMAIN calendars' = 0 .. calendar_count' - 1
    BY <1>4, <2>1 DEF Built
  <2>5. ASSUME NEW j \in 0 .. calendar_count' - 1
        PROVE  calendars'[j] = CalendarIn(t, t.min + j, done \cup {id}, {})
    <3>1. j \in DOMAIN calendars /\ calendars[j] = CalendarIn(t, t.min + j, done, {})
      BY <1>4, <2>1, <2>5 DEF Built
    <3>2. CASE j = i
      <4>1. t.min + j = id
        BY <2>2, <3>2
      <4> QED
        BY <1>4, <3>1, <3>2, <4>1 DEF CalendarIn
    <3>3. CASE j # i
      <4>1. t.min + j # id
        BY <2>2, <3>3
      <4> QED
        BY <1>4, <3>1, <3>3, <4>1 DEF CalendarIn
    <3> QED
      BY <3>2, <3>3
  <2>6. \A other \in done \cup {id} :
          t.name[other] \in DOMAIN names' /\ names'[t.name[other]] = other
    BY <1>4, <2>1 DEF Built
  <2>7. Built(t, done \cup {id}, {})'
    BY <2>4, <2>5, <2>6 DEF Built
  <2>8. Progress(b)'
    <3>1. pc'[b] = "q2_rows" /\ snapshot'[b] = v
      BY <1>0, <1>1, <2>3
    <3> QED
      BY <1>2, <2>3, <2>7, <3>1 DEF Progress
  <2> QED
    BY <1>1, <1>2, <2>3, <2>8, FillStep
<1> QED
  BY <1>0, <1>3, <1>4 DEF InitCalendar, pg_set_calendar_name

LEMMA CopyCalendarFill ==
  ASSUME TypeOK, LockDiscipline, FillInvariant, NEW b \in Backend, NEW id \in cursor[b],
         CopyCalendar(b, id)
  PROVE  FillInvariant'
<1>0. PICK v, done : v = snapshot[b] /\ done = DOMAIN Tables[v].dates \ cursor[b]
  OBVIOUS
<1> DEFINE t    == Tables[v]
           ids  == DOMAIN t.dates
           i    == get_calendar_index(id)
           copied == [id |-> calendars[i].id, dates |-> t.dates[id], indexed |-> TRUE]
<1>1. /\ pc[b] = "q3_rows" /\ ~cache_filled /\ ModeAt(pc[b]) = "exclusive"
  BY Modes DEF CopyCalendar, FillInvariant, Progress, Filling
<1>2. ~cache_filled'
  BY <1>1 DEF CopyCalendar
<1>3. CASE Raise(b)
  BY <1>1, <1>2, <1>3, RaiseFill
<1>4. CASE /\ calendars' = [calendars EXCEPT ![i] = copied]
           /\ Advance(b, id)
           /\ UNCHANGED <<array, calendar_count, min_calendar_id, names>>
  <2>1. Built(t, ids, done)
    BY <1>0, <1>1 DEF FillInvariant, Progress
  <2>2. /\ id \in ids /\ id \in Int /\ t.min \in Int /\ t.max \in Int
        /\ i = id - t.min /\ i \in 0 .. calendar_count - 1
    BY <1>0, <1>1, <2>1, RowOf
  <2>3. ids \ cursor'[b] = done \cup {id} /\ pc' = pc /\ snapshot' = snapshot
    BY <1>0, <1>4, <2>2, AdvanceDone
  <2>4. /\ array' /\ min_calendar_id' = t.min /\ t.min <= t.max
        /\ calendar_count' = t.max - t.min + 1
        /\ DOMAIN calendars' = 0 .. calendar_count' - 1
    BY <1>4, <2>1 DEF Built
  <2>5. ASSUME NEW j \in 0 .. calendar_count' - 1
        PROVE  calendars'[j] = CalendarIn(t, t.min + j, ids, done \cup {id})
    <3>1. j \in DOMAIN calendars /\ calendars[j] = CalendarIn(t, t.min + j, ids, done)
      BY <1>4, <2>1, <2>5 DEF Built
    <3>2. CASE j = i
      <4>1. t.min + j = id /\ id \notin done
        BY <1>0, <2>2, <3>2
      <4>2. calendars[i] = [id |-> id, dates |-> Zeros(Len(t.dates[id])), indexed |-> FALSE]
        BY <2>2, <3>1, <3>2, <4>1 DEF CalendarIn
      <4>3. copied = [id |-> id, dates |-> t.dates[id], indexed |-> TRUE]
        BY <4>2
      <4>4. calendars'[i] = copied
        <5> HIDE DEF copied, i
        <5> QED
          BY <1>4, <3>1, <3>2
      <4> QED
        BY <3>2, <4>1, <4>3, <4>4 DEF CalendarIn
    <3>3. CASE j # i
      <4>1. t.min + j # id
        BY <2>2, <3>3
      <4> QED
        BY <1>4, <3>1, <3>3, <4>1 DEF CalendarIn
    <3> QED
      BY <3>2, <3>3
  <2>6. \A other \in ids : t.name[other] \in DOMAIN names' /\ names'[t.name[other]] = other
    BY <1>4, <2>1 DEF Built
  <2>7. Built(t, ids, done \cup {id})'
    BY <2>4, <2>5, <2>6 DEF Built
  <2>8. Progress(b)'
    <3>1. pc'[b] = "q3_rows" /\ snapshot'[b] = v
      BY <1>0, <1>1, <2>3
    <3> QED
      BY <1>2, <2>3, <2>7, <3>1 DEF Progress
  <2> QED
    BY <1>1, <1>2, <2>3, <2>8, FillStep
<1> QED
  BY <1>0, <1>3, <1>4 DEF CopyCalendar, DatesRead

\* Only a fill, an invalidation and a crash change the cache.
LEMMA ChangesCache ==
  ASSUME NEW b \in Backend, Step(b)
  PROVE  \/ UNCHANGED imcx
         \/ pc[b] \in Filling
         \/ Invalidate(b) /\ pc[b] = "invalidate" /\ ~cache_filled'
         \/ Crash
<1>1. CASE Fill(b)
  BY <1>1 DEF Fill, QueryIds, QueryCounts, QueryEntries, CountsDone, InitCalendar,
              CopyCalendar, FinishFill, Filling
<1>2. CASE Read(b)
  BY <1>2 DEF Read, LockToRead, Info, Report, AddDaysById, AddDaysByName, AddDays
<1>3. CASE Invalidate(b)
  BY <1>3 DEF Invalidate, cache_invalidate
<1>4. CASE \/ CheckFilled(b) \/ Validate(b) \/ LockToFill(b) \/ Recheck(b)
           \/ CheckToInvalidate(b) \/ LockToInvalidate(b)
  BY <1>4 DEF CheckFilled, Validate, LockToFill, Recheck, CheckToInvalidate, LockToInvalidate
<1> QED
  BY <1>1, <1>2, <1>3, <1>4 DEF Step

\* The population of the cache up to the second test.
LEMMA PopulateFill ==
  ASSUME TypeOK, FillInvariant, NEW b \in Backend,
         CheckFilled(b) \/ Validate(b) \/ LockToFill(b) \/ Recheck(b)
  PROVE  FillInvariant'
<1>1. CASE CheckFilled(b)
  BY <1>1, GotoFill DEF CheckFilled, Filling
<1>2. CASE Validate(b)
  BY <1>2, GotoFill, ReturnFill DEF Validate, Raise, Filling
<1>3. CASE LockToFill(b)
  BY <1>3, GotoFill DEF LockToFill, Filling
<1>4. CASE Recheck(b)
  BY <1>4, GotoFill DEF Recheck, Filling
<1> QED
  BY <1>1, <1>2, <1>3, <1>4

LEMMA ReadFill ==
  ASSUME TypeOK, FillInvariant, NEW b \in Backend, Read(b)
  PROVE  FillInvariant'
<1>1. CASE LockToRead(b)
  BY <1>1, GotoFill DEF LockToRead, Filling
<1>2. CASE Info(b) \/ Report(b)
  BY <1>2, ReturnFill DEF Info, Report
<1>3. CASE AddDaysById(b) \/ AddDaysByName(b)
  BY <1>3, ReturnFill, CrashFill DEF AddDaysById, AddDaysByName, AddDays, Raise
<1> QED
  BY <1>1, <1>2, <1>3 DEF Read

LEMMA StepFill ==
  ASSUME TypeOK, LockDiscipline, FillInvariant, NEW b \in Backend, Step(b)
  PROVE  FillInvariant'
<1>1. CASE Fill(b)
  BY <1>1, QueryIdsFill, QueryFill, CountsDoneFill, InitCalendarFill, CopyCalendarFill,
     FinishFillFill DEF Fill
<1>2. CASE CheckToInvalidate(b)
  BY <1>2, GotoFill, ReturnFill DEF CheckToInvalidate, Filling
<1>3. CASE LockToInvalidate(b)
  BY <1>3, GotoFill DEF LockToInvalidate, Filling
<1> QED
  BY <1>1, <1>2, <1>3, PopulateFill, ReadFill, InvalidateFill DEF Step

LEMMA InitFill == Init => FillInvariant
  BY DEF Init, Cleared, FillInvariant, FilledIsOneVersion, Progress, Filling

LEMMA NextFill == TypeOK /\ LockDiscipline /\ FillInvariant /\ [Next]_vars => FillInvariant'
<1> SUFFICES ASSUME TypeOK, LockDiscipline, FillInvariant, [Next]_vars PROVE FillInvariant'
  OBVIOUS
<1>0. db \in Nat
  BY TablesAssumption DEF TypeOK, OtherType, Version
<1>1. ASSUME UNCHANGED <<imcx, session>>, db' \in Nat, db <= db'
      PROVE  FillInvariant'
  BY <1>1, SameFilled, SameProgress DEF FillInvariant, session
<1>2. CASE UNCHANGED vars
  BY <1>0, <1>1, <1>2 DEF vars
<1>3. CASE Commit
  BY <1>0, <1>1, <1>3 DEF Commit
<1>4. ASSUME NEW b \in Backend, NEW c \in Call, Begin(b, c)
      PROVE  FillInvariant'
  BY <1>4, KeepsFill DEF Begin, Filling, TypeOK, SessionType
<1> QED
  BY <1>2, <1>3, <1>4, StepFill DEF Next

\* The inductive invariant.
LEMMA Invariant == Spec => [](TypeOK /\ LockDiscipline /\ FillInvariant)
<1>1. Init => TypeOK /\ LockDiscipline /\ FillInvariant
  BY TypeInit, LockInit, InitFill
<1>2. TypeOK /\ LockDiscipline /\ FillInvariant /\ [Next]_vars
        => (TypeOK /\ LockDiscipline /\ FillInvariant)'
  BY TypeNext, LockNext, NextFill
<1> QED
  BY <1>1, <1>2, PTL DEF Spec

\* A cache that is marked filled is the complete image of one committed
\* version of the tables, whatever fills failed, at whichever row, and however
\* fills, invalidations and commits interleave.
THEOREM FillCorrect == Spec => []FilledIsOneVersion
<1>1. FillInvariant => FilledIsOneVersion
  BY DEF FillInvariant
<1> QED
  BY <1>1, Invariant, PTL

\* While a reader keeps the lock no step changes the cache.
THEOREM ReadersUndisturbed == Spec => StableWhileRead
<1>1. ASSUME LockDiscipline, [Next]_vars,
             NEW r \in Backend, held[r] = "shared", held'[r] = "shared"
      PROVE  UNCHANGED imcx
  <2>1. ASSUME NEW b \in Backend, Step(b)
        PROVE  UNCHANGED imcx
    <3>1. pc[b] # "invalidate" /\ pc[b] \notin Filling
      BY <1>1, <2>1, Modes, FillingIsExclusive DEF LockDiscipline
    <3>2. ~Crash
      BY <1>1 DEF Crash
    <3> QED
      BY <2>1, <3>1, <3>2, ChangesCache
  <2> QED
    BY <1>1, <2>1 DEF Next, Commit, Begin, vars
<1>2. LockDiscipline /\ [Next]_vars
        => [(\E b \in Backend : held[b] = "shared" /\ held'[b] = "shared") => UNCHANGED imcx]_vars
  BY <1>1
<1> QED
  BY <1>2, LockCorrect, PTL DEF Spec, StableWhileRead

\* A filled cache is never changed in place: a backend that waited to fill it
\* finds it filled, and an invalidation drops it whole.
THEOREM NeverRefilled == Spec => FilledOnlyDropped
<1>1. ASSUME FillInvariant, [Next]_vars, cache_filled, cache_filled'
      PROVE  UNCHANGED imcx
  <2>1. ASSUME NEW b \in Backend, Step(b)
        PROVE  UNCHANGED imcx
    <3>1. pc[b] \notin Filling
      BY <1>1 DEF FillInvariant, Progress
    <3>2. ~Crash
      BY <1>1 DEF Crash
    <3> QED
      BY <1>1, <2>1, <3>1, <3>2, ChangesCache
  <2> QED
    BY <1>1, <2>1 DEF Next, Commit, Begin, vars
<1>2. FillInvariant /\ [Next]_vars => [cache_filled /\ cache_filled' => UNCHANGED imcx]_vars
  BY <1>1
<1> QED
  BY <1>2, Invariant, PTL DEF Spec, FilledOnlyDropped

\* Only the end of a fill marks the cache as filled.
LEMMA FilledByFinish ==
  ASSUME NEW b \in Backend, Step(b), ~cache_filled, cache_filled'
  PROVE  FinishFill(b)
<1>1. ~UNCHANGED imcx /\ ~Crash
  BY DEF imcx, Crash
<1>2. CASE Fill(b)
  BY <1>1, <1>2 DEF Fill, QueryIds, QueryCounts, QueryEntries, Query, QueryFails, CountsDone,
                    InitCalendar, CopyCalendar, imcx
<1>3. CASE Read(b)
  BY <1>1, <1>3 DEF Read, LockToRead, Info, Report, AddDaysById, AddDaysByName, AddDays
<1>4. CASE Invalidate(b)
  BY <1>4 DEF Invalidate, cache_invalidate, imcx
<1>5. CASE \/ CheckFilled(b) \/ Validate(b) \/ LockToFill(b) \/ Recheck(b)
           \/ CheckToInvalidate(b) \/ LockToInvalidate(b)
  BY <1>1, <1>5 DEF CheckFilled, Validate, LockToFill, Recheck, CheckToInvalidate, LockToInvalidate
<1> QED
  BY <1>2, <1>3, <1>4, <1>5 DEF Step

\* Whoever marks the cache as filled leaves in it the version that its own
\* statement sees.
THEOREM FillsOwn == Spec => FillsFromOwnSnapshot
<1>1. ASSUME TypeOK, FillInvariant, [Next]_vars, ~cache_filled, cache_filled'
      PROVE  \E b \in Backend :
               pc[b] = "q3_rows" /\ pc'[b] = "lock_read" /\ Holds(snapshot[b])'
  <2>1. PICK b \in Backend : Step(b)
    BY <1>1 DEF Next, Commit, Begin, vars, imcx
  <2>2. FinishFill(b)
    BY <1>1, <2>1, FilledByFinish
  <2>3. PICK v : v = snapshot[b]
    OBVIOUS
  <2>4. Holds(v)'
    BY <1>1, <2>2, <2>3, FinishHolds
  <2>5. pc[b] = "q3_rows" /\ pc'[b] = "lock_read" /\ snapshot'[b] = v
    BY <1>1, <2>2, <2>3 DEF FinishFill, Goto, TypeOK, SessionType
  <2>6. Holds(snapshot[b])'
    BY <2>4, <2>5 DEF Holds
  <2> QED
    BY <2>5, <2>6
<1>2. TypeOK /\ FillInvariant /\ [Next]_vars
        => [~cache_filled /\ cache_filled' =>
              \E b \in Backend : pc[b] = "q3_rows" /\ pc'[b] = "lock_read" /\ Holds(snapshot[b])']_vars
  BY <1>1
<1> QED
  BY <1>2, Invariant, PTL DEF Spec, FillsFromOwnSnapshot

\* A step of a backend moves no other, but for a crash.
LEMMA OneMoves ==
  ASSUME TypeOK, NEW b \in Backend, Step(b), NEW c \in Backend, pc'[c] # pc[c], ~Crash
  PROVE  c = b
<1>1. ASSUME NEW point, Goto(b, point) PROVE c = b
  BY <1>1 DEF Goto, TypeOK, SessionType
<1>2. ASSUME NEW outcome, Return(b, outcome) PROVE c = b
  BY <1>2 DEF Return, TypeOK, SessionType
<1>3. ASSUME NEW rows, GotoRows(b, rows) PROVE c = b
  BY <1>3 DEF GotoRows, TypeOK, SessionType
<1>4. CASE CheckFilled(b) \/ Validate(b) \/ LockToFill(b) \/ Recheck(b)
  BY <1>1, <1>2, <1>4 DEF CheckFilled, Validate, LockToFill, Recheck, Raise
<1>5. CASE Fill(b)
  BY <1>1, <1>2, <1>3, <1>5 DEF Fill, QueryIds, QueryCounts, QueryEntries, Query, QueryFails, CountsDone,
     InitCalendar, CopyCalendar, FinishFill, pg_set_calendar_name, Advance, Raise
<1>6. CASE Read(b)
  BY <1>1, <1>2, <1>6 DEF Read, LockToRead, Info, Report, AddDaysById, AddDaysByName, AddDays, Raise
<1>7. CASE CheckToInvalidate(b) \/ LockToInvalidate(b) \/ Invalidate(b)
  BY <1>1, <1>2, <1>7 DEF CheckToInvalidate, LockToInvalidate, Invalidate
<1> QED
  BY <1>4, <1>5, <1>6, <1>7 DEF Step

\* What a report lists of a cache that holds version v.
LEMMA CachedOfVersion ==
  ASSUME NEW v \in Version, Holds(v)
  PROVE  /\ 0 .. calendar_count - 1 \subseteq DOMAIN calendars
         /\ CachedDates = Tables[v].dates
<1> DEFINE t == Tables[v]
<1>1. /\ t.min \in Int /\ t.max \in Int /\ DOMAIN t.dates \subseteq (t.min .. t.max) \ {0}
      /\ t.dates = [id \in DOMAIN t.dates |-> t.dates[id]]
  BY TablesAssumption
<1>2. /\ min_calendar_id = t.min /\ calendar_count = t.max - t.min + 1
      /\ DOMAIN calendars = 0 .. calendar_count - 1
  BY DEF Holds
<1>3. ASSUME NEW i \in DOMAIN calendars
      PROVE  calendars[i] = IF t.min + i \in DOMAIN t.dates
                            THEN [id |-> t.min + i, dates |-> t.dates[t.min + i], indexed |-> TRUE]
                            ELSE Blank
  BY <1>2 DEF Holds
<1>4. ASSUME NEW i \in Listed
      PROVE  calendars[i].id \in DOMAIN t.dates
  <2>1. i \in DOMAIN calendars /\ calendars[i].id # 0
    BY DEF Listed
  <2> QED
    BY <1>3, <2>1 DEF Blank
<1>5. ASSUME NEW id \in DOMAIN t.dates
      PROVE  /\ id - t.min \in Listed /\ calendars[id - t.min].id = id
             /\ get_calendar_index(id) = id - t.min /\ calendars[id - t.min].dates = t.dates[id]
  <2>1. id \in Int /\ id # 0 /\ id - t.min \in 0 .. calendar_count - 1 /\ t.min + (id - t.min) = id
    BY <1>1, <1>2
  <2>2. calendars[id - t.min] = [id |-> id, dates |-> t.dates[id], indexed |-> TRUE]
    <3> DEFINE i == id - t.min
    <3>1. i \in DOMAIN calendars /\ t.min + i = id
      BY <1>2, <2>1
    <3> HIDE DEF i, t
    <3>2. calendars[i] = IF t.min + i \in DOMAIN t.dates
                         THEN [id |-> t.min + i, dates |-> t.dates[t.min + i], indexed |-> TRUE]
                         ELSE Blank
      BY <1>3, <3>1
    <3>3. calendars[i] = [id |-> id, dates |-> t.dates[id], indexed |-> TRUE]
      BY <3>1, <3>2
    <3> QED
      BY <3>3 DEF i
  <2>3. id - t.min \in Listed
    BY <1>2, <2>1, <2>2 DEF Listed
  <2> QED
    BY <1>2, <2>2, <2>3 DEF get_calendar_index
<1>6. {calendars[i].id : i \in Listed} = DOMAIN t.dates
  BY <1>4, <1>5
<1>7. CachedDates = [id \in DOMAIN t.dates |-> t.dates[id]]
  BY <1>5, <1>6 DEF CachedDates
<1> QED
  BY <1>1, <1>2, <1>7

\* A report made while the cache is filled lists the calendars of one committed
\* version, all of them, with their dates.
THEOREM ReportsWhole == Spec => ReportOfFilledCache
<1>1. ASSUME TypeOK, FillInvariant, [Next]_vars, NEW b \in Backend, pc[b] = "read",
             call[b].fn = "report", pc'[b] = "idle", cache_filled, cache_filled'
      PROVE  \E v \in 1 .. db : answer'[b] = Dates(Tables[v].dates)
  <2>1. PICK c \in Backend : Step(c)
    BY <1>1 DEF Next, Commit, Begin, vars, session, TypeOK, SessionType
  <2>2. c = b
    BY <1>1, <2>1, OneMoves DEF Crash
  <2>3. Report(b)
    BY <1>1, <2>1, <2>2 DEF Step, Fill, Read, CheckFilled, Validate, LockToFill, Recheck,
       QueryIds, QueryCounts, QueryEntries, CountsDone, InitCalendar, CopyCalendar, FinishFill,
       LockToRead, Info, AddDaysById, AddDaysByName, CheckToInvalidate, LockToInvalidate, Invalidate
  <2>4. PICK v \in 1 .. db : Holds(v)
    BY <1>1 DEF FillInvariant, FilledIsOneVersion
  <2>5. v \in Version
    BY <1>1, <2>4, TablesAssumption DEF TypeOK, OtherType, Version
  <2>6. answer'[b] = Dates(Tables[v].dates)
    BY <1>1, <2>3, <2>4, <2>5, CachedOfVersion DEF Report, Return, TypeOK, SessionType
  <2> QED
    BY <2>6
<1>2. TypeOK /\ FillInvariant /\ [Next]_vars
        => [\A b \in Backend :
              pc[b] = "read" /\ call[b].fn = "report" /\ pc'[b] = "idle" /\ cache_filled /\ cache_filled' =>
                \E v \in 1 .. db : answer'[b] = Dates(Tables[v].dates)]_vars
  BY <1>1
<1> QED
  BY <1>2, Invariant, PTL DEF Spec, ReportOfFilledCache

-----------------------------------------------------------------------------
(* The number of entries *)

\* entry_count after Q2 has announced the dates of some calendars.
Announces(v, ids) ==
  IsFiniteSet(Entries(v, ids)) /\ entry_count = Cardinality(Entries(v, ids))

Counting == {"q2", "q2_rows", "q3", "q3_rows"}

\* How far the fill of b has counted at each program point.
CountProgress(b) ==
  LET v   == snapshot[b]
      ids == DOMAIN Tables[v].dates
  IN
  /\ pc[b] = "q2"             => entry_count = 0
  /\ pc[b] = "q2_rows"        => Announces(v, ids \ cursor[b])
  /\ pc[b] \in {"q3", "q3_rows"} => Announces(v, ids)

CountInvariant ==
  /\ EntryCountExact
  /\ \A b \in Backend : CountProgress(b)

LEMMA NoEntries ==
  ASSUME NEW v
  PROVE  IsFiniteSet(Entries(v, {})) /\ Cardinality(Entries(v, {})) = 0
<1>1. Entries(v, {}) = {}
  BY DEF Entries
<1> QED
  BY <1>1, FS_EmptySet

LEMMA UpTo ==
  ASSUME NEW n \in Nat
  PROVE  IsFiniteSet(1 .. n) /\ Cardinality(1 .. n) = n
  BY FS_Interval

\* The entries of one more calendar.
LEMMA MoreEntries ==
  ASSUME NEW v \in Version, NEW id \in DOMAIN Tables[v].dates, NEW done, id \notin done,
         IsFiniteSet(Entries(v, done))
  PROVE  /\ IsFiniteSet(Entries(v, done \cup {id}))
         /\ Cardinality(Entries(v, done \cup {id}))
              = Cardinality(Entries(v, done)) + Len(Tables[v].dates[id])
<1> DEFINE size == Len(Tables[v].dates[id])
           new  == {id} \X DOMAIN Tables[v].dates[id]
<1>1. size \in Nat /\ DOMAIN Tables[v].dates[id] = 1 .. size
  BY TablesAssumption
<1>2. Entries(v, done \cup {id}) = Entries(v, done) \cup new
  BY Zenon DEF Entries
<1>3. Entries(v, done) \cap new = {}
  <2>1. \A e \in Entries(v, done) : e[1] \in done
    BY DEF Entries
  <2>2. \A e \in new : e[1] = id
    OBVIOUS
  <2> QED
    BY <2>1, <2>2
<1>4. IsFiniteSet(new) /\ Cardinality(new) = size
  <2>1. IsFiniteSet(DOMAIN Tables[v].dates[id]) /\ Cardinality(DOMAIN Tables[v].dates[id]) = size
    BY <1>1, UpTo
  <2>2. IsFiniteSet({id}) /\ Cardinality({id}) = 1
    BY FS_Singleton
  <2>3. IsFiniteSet(new) /\ Cardinality(new) = Cardinality({id}) * Cardinality(DOMAIN Tables[v].dates[id])
    BY <2>1, <2>2, FS_Product
  <2> QED
    BY <1>1, <2>1, <2>2, <2>3
<1> HIDE DEF new
<1> DEFINE old == Entries(v, done)
<1>5. /\ IsFiniteSet(old \cup new)
      /\ Cardinality(old \cup new) = Cardinality(old) + Cardinality(new) - Cardinality({})
  <2>1. IsFiniteSet(old) /\ IsFiniteSet(new) /\ old \cap new = {}
    BY <1>3, <1>4
  <2> HIDE DEF old
  <2> QED
    BY <2>1, FS_Union
<1>6. Cardinality({}) = 0 /\ Cardinality(Entries(v, done)) \in Nat
  BY FS_EmptySet, FS_CardinalityType
<1>7. Cardinality(Entries(v, done) \cup new) = Cardinality(Entries(v, done)) + size
  BY <1>1, <1>4, <1>5, <1>6
<1> QED
  BY <1>2, <1>5, <1>7, Zenon

LEMMA SameCount ==
  ASSUME TypeOK, EntryCountExact, UNCHANGED imcx, db' \in Nat, db <= db'
  PROVE  EntryCountExact'
<1>1. db \in Nat
  BY TablesAssumption DEF TypeOK, OtherType, Version
<1>2. CASE ~cache_filled
  BY <1>2 DEF EntryCountExact, imcx
<1>3. CASE cache_filled
  <2>1. PICK v \in 1 .. db : Holds(v) /\ entry_count = Cardinality(Entries(v, DOMAIN Tables[v].dates))
    BY <1>3 DEF EntryCountExact
  <2>2. v \in 1 .. db' /\ Holds(v)' /\ entry_count' = Cardinality(Entries(v, DOMAIN Tables[v].dates))
    BY <1>1, <2>1 DEF Holds, imcx
  <2> QED
    BY <2>2 DEF EntryCountExact, Entries
<1> QED
  BY <1>2, <1>3

LEMMA SameCountProgress ==
  ASSUME NEW b \in Backend, CountProgress(b), UNCHANGED imcx,
         pc'[b] = pc[b], snapshot'[b] = snapshot[b], cursor'[b] = cursor[b]
  PROVE  CountProgress(b)'
  BY DEF CountProgress, Announces, Entries, imcx

LEMMA NotCounting ==
  ASSUME NEW b \in Backend, pc'[b] \notin Counting
  PROVE  CountProgress(b)'
  BY DEF CountProgress, Counting

\* Backend b, alone with the cache, leaves it unfilled.
LEMMA CountStep ==
  ASSUME LockDiscipline, NEW b \in Backend, ModeAt(pc[b]) = "exclusive",
         ~cache_filled', \A c \in Backend \ {b} : pc'[c] = pc[c], CountProgress(b)'
  PROVE  CountInvariant'
<1>1. ASSUME NEW c \in Backend \ {b}
      PROVE  CountProgress(c)'
  <2>1. pc'[c] \notin Counting
    BY <1>1, FillerAlone, FillingIsExclusive DEF Filling, Counting
  <2> QED
    BY <2>1, NotCounting
<1>2. EntryCountExact'
  BY DEF EntryCountExact
<1> QED
  BY <1>1, <1>2 DEF CountInvariant

LEMMA RaiseCount ==
  ASSUME TypeOK, LockDiscipline, NEW b \in Backend, ModeAt(pc[b]) = "exclusive",
         ~cache_filled', NEW outcome, Return(b, outcome)
  PROVE  CountInvariant'
<1>1. pc'[b] = "idle" /\ \A c \in Backend \ {b} : pc'[c] = pc[c]
  BY DEF Return, TypeOK, SessionType
<1>2. CountProgress(b)'
  BY <1>1, NotCounting DEF Counting
<1> QED
  BY <1>1, <1>2, CountStep

LEMMA CrashCount ==
  ASSUME Crash
  PROVE  CountInvariant'
<1>1. \A b \in Backend : pc'[b] \notin Counting
  BY DEF Crash, Counting
<1> QED
  BY <1>1, NotCounting DEF Crash, CountInvariant, EntryCountExact

\* Q1: no calendar has been counted.
LEMMA QueryIdsCount ==
  ASSUME TypeOK, LockDiscipline, FillInvariant, NEW b \in Backend, QueryIds(b)
  PROVE  CountInvariant'
<1>1. pc[b] = "q1" /\ ~cache_filled' /\ ModeAt(pc[b]) = "exclusive"
  <2>1. pc[b] = "q1" /\ ModeAt(pc[b]) = "exclusive" /\ UNCHANGED cache_filled
    BY Modes DEF QueryIds, QueryFails, imcx
  <2>2. ~cache_filled
    BY <2>1 DEF FillInvariant, Progress, Filling
  <2> QED
    BY <2>1, <2>2
<1>2. CASE Raise(b)
  BY <1>1, <1>2, RaiseCount DEF Raise
<1>3. CASE Goto(b, "q2") /\ entry_count' = 0
  <2>1. pc'[b] = "q2" /\ \A c \in Backend \ {b} : pc'[c] = pc[c]
    BY <1>3 DEF Goto, TypeOK, SessionType
  <2>2. CountProgress(b)'
    BY <1>3, <2>1 DEF CountProgress
  <2> QED
    BY <1>1, <2>1, <2>2, CountStep
<1> QED
  BY <1>2, <1>3 DEF QueryIds, QueryFails, pg_cache_init

\* Q2 and Q3, and what lies between their rows, count nothing.
LEMMA QueryCount ==
  ASSUME TypeOK, LockDiscipline, FillInvariant, CountInvariant, NEW b \in Backend,
         QueryCounts(b) \/ QueryEntries(b) \/ CountsDone(b)
  PROVE  CountInvariant'
<1>0. PICK v : v = snapshot[b]
  OBVIOUS
<1> DEFINE ids == DOMAIN Tables[v].dates
<1>1. pc[b] \in Filling /\ ~cache_filled' /\ ModeAt(pc[b]) = "exclusive" /\ UNCHANGED imcx
  <2>1. pc[b] \in {"q2", "q2_rows", "q3"} /\ UNCHANGED imcx
    BY DEF QueryCounts, QueryEntries, Query, QueryFails, CountsDone
  <2> QED
    BY <2>1, Modes DEF FillInvariant, Progress, Filling, imcx
<1>2. CASE Raise(b)
  BY <1>1, <1>2, RaiseCount DEF Raise
<1>3. ASSUME NEW point, GotoRows(b, point)
      PROVE  /\ pc'[b] = point /\ snapshot'[b] = v /\ cursor'[b] = ids
             /\ \A c \in Backend \ {b} : pc'[c] = pc[c]
  BY <1>0, <1>3 DEF GotoRows, TypeOK, SessionType
<1>4. CASE pc[b] = "q2" /\ GotoRows(b, "q2_rows")
  <2>1. ids \ cursor'[b] = {} /\ entry_count' = 0
    BY <1>1, <1>3, <1>4 DEF CountInvariant, CountProgress, imcx
  <2>2. Announces(v, {})'
    BY <2>1, NoEntries DEF Announces, Entries
  <2>3. CountProgress(b)'
    BY <1>3, <1>4, <2>1, <2>2 DEF CountProgress
  <2> QED
    BY <1>1, <1>3, <1>4, <2>3, CountStep
<1>5. CASE pc[b] = "q3" /\ GotoRows(b, "q3_rows")
  <2>1. Announces(v, ids)
    BY <1>0, <1>5 DEF CountInvariant, CountProgress
  <2>2. Announces(v, ids)'
    BY <1>1, <2>1 DEF Announces, Entries, imcx
  <2>3. CountProgress(b)'
    BY <1>3, <1>5, <2>2 DEF CountProgress
  <2> QED
    BY <1>1, <1>3, <1>5, <2>3, CountStep
<1>6. CASE CountsDone(b)
  <2>1. pc'[b] = "q3" /\ snapshot'[b] = v /\ \A c \in Backend \ {b} : pc'[c] = pc[c]
    BY <1>0, <1>6 DEF CountsDone, Goto, TypeOK, SessionType
  <2>2. ids \ cursor[b] = ids /\ pc[b] = "q2_rows"
    BY <1>6 DEF CountsDone
  <2>3. Announces(v, ids)
    BY <1>0, <2>2 DEF CountInvariant, CountProgress
  <2>4. Announces(v, ids)'
    BY <1>1, <2>3 DEF Announces, Entries, imcx
  <2>5. CountProgress(b)'
    BY <2>1, <2>4 DEF CountProgress
  <2> QED
    BY <1>1, <2>1, <2>5, CountStep
<1> QED
  BY <1>2, <1>4, <1>5, <1>6 DEF QueryCounts, QueryEntries, Query, QueryFails

\* A row of Q2 adds the entries of its calendar, which no row before it had.
LEMMA InitCalendarCount ==
  ASSUME TypeOK, LockDiscipline, FillInvariant, CountInvariant, NEW b \in Backend,
         NEW id \in cursor[b], InitCalendar(b, id)
  PROVE  CountInvariant'
<1>0. PICK v, done : v = snapshot[b] /\ done = DOMAIN Tables[v].dates \ cursor[b]
  OBVIOUS
<1> DEFINE ids == DOMAIN Tables[v].dates
<1>1. pc[b] = "q2_rows" /\ ~cache_filled' /\ ModeAt(pc[b]) = "exclusive"
  <2>1. pc[b] = "q2_rows" /\ ModeAt(pc[b]) = "exclusive" /\ UNCHANGED cache_filled
    BY Modes DEF InitCalendar, imcx
  <2>2. ~cache_filled
    BY <2>1 DEF FillInvariant, Progress, Filling
  <2> QED
    BY <2>1, <2>2
<1>2. CASE Raise(b)
  BY <1>1, <1>2, RaiseCount DEF Raise
<1>3. CASE entry_count' = entry_count + Len(Tables[v].dates[id]) /\ Advance(b, id)
  <2>1. id \in ids /\ id \notin done
    BY <1>0, <1>1 DEF TypeOK, SessionType
  <2>2. v \in Version
    BY <1>0, <1>1, SnapshotTables, TablesAssumption DEF Version
  <2>3. Announces(v, done)
    BY <1>0, <1>1 DEF CountInvariant, CountProgress
  <2>4. /\ IsFiniteSet(Entries(v, done \cup {id}))
        /\ entry_count' = Cardinality(Entries(v, done \cup {id}))
    BY <1>3, <2>1, <2>2, <2>3, MoreEntries DEF Announces
  <2>5. ids \ cursor'[b] = done \cup {id} /\ pc' = pc /\ snapshot' = snapshot
    BY <1>0, <1>3, <2>1, AdvanceDone
  <2>6. Announces(v, done \cup {id})'
    BY <2>4 DEF Announces, Entries
  <2>7. CountProgress(b)'
    <3>1. pc'[b] = "q2_rows" /\ snapshot'[b] = v
      BY <1>0, <1>1, <2>5
    <3> QED
      BY <2>5, <2>6, <3>1 DEF CountProgress
  <2> QED
    BY <1>1, <2>5, <2>7, CountStep
<1> QED
  BY <1>0, <1>2, <1>3 DEF InitCalendar, pg_set_calendar_name

LEMMA CopyCalendarCount ==
  ASSUME TypeOK, LockDiscipline, FillInvariant, CountInvariant, NEW b \in Backend,
         NEW id \in cursor[b], CopyCalendar(b, id)
  PROVE  CountInvariant'
<1>0. PICK v : v = snapshot[b]
  OBVIOUS
<1>1. pc[b] = "q3_rows" /\ ~cache_filled' /\ ModeAt(pc[b]) = "exclusive"
      /\ entry_count' = entry_count
  BY Modes DEF CopyCalendar, FillInvariant, Progress, Filling
<1>2. CASE Raise(b)
  BY <1>1, <1>2, RaiseCount DEF Raise
<1>3. CASE Advance(b, id)
  <2>1. pc' = pc /\ snapshot' = snapshot
    BY <1>3 DEF Advance
  <2>2. Announces(v, DOMAIN Tables[v].dates)
    BY <1>0, <1>1 DEF CountInvariant, CountProgress
  <2>3. Announces(v, DOMAIN Tables[v].dates)'
    BY <1>1, <2>2 DEF Announces, Entries
  <2>4. CountProgress(b)'
    BY <1>0, <1>1, <2>1, <2>3 DEF CountProgress
  <2> QED
    BY <1>1, <2>1, <2>4, CountStep
<1> QED
  BY <1>2, <1>3 DEF CopyCalendar

LEMMA FinishFillCount ==
  ASSUME TypeOK, LockDiscipline, FillInvariant, CountInvariant, NEW b \in Backend, FinishFill(b)
  PROVE  CountInvariant'
<1>1. PICK v : v = snapshot[b]
  OBVIOUS
<1>2. pc[b] = "q3_rows" /\ ModeAt(pc[b]) = "exclusive" /\ UNCHANGED <<db, entry_count>>
  BY Modes DEF FinishFill
<1>3. v \in 1 .. db /\ Holds(v)'
  BY <1>1, FinishHolds
<1>4. entry_count' = Cardinality(Entries(v, DOMAIN Tables[v].dates))
  BY <1>1, <1>2 DEF CountInvariant, CountProgress, Announces
<1>5. EntryCountExact'
  BY <1>2, <1>3, <1>4 DEF EntryCountExact, Entries
<1>6. ASSUME NEW c \in Backend PROVE pc'[c] \notin Counting
  <2>1. CASE c = b
    BY <2>1 DEF FinishFill, Goto, TypeOK, SessionType, Counting
  <2>2. CASE c # b
    BY <1>2, <2>2, FillerAlone, FillingIsExclusive
       DEF FinishFill, Goto, TypeOK, SessionType, Counting, Filling
  <2> QED
    BY <2>1, <2>2
<1> QED
  BY <1>5, <1>6, NotCounting DEF CountInvariant

\* A step that is not one of a fill leads to none of its points after Q1.
LEMMA OutsideFill ==
  ASSUME TypeOK, NEW b \in Backend, Step(b), pc[b] \notin Filling, ~Crash
  PROVE  /\ pc'[b] \notin Counting /\ UNCHANGED db
         /\ \A c \in Backend \ {b} :
              pc'[c] = pc[c] /\ snapshot'[c] = snapshot[c] /\ cursor'[c] = cursor[c]
<1> DEFINE Moved(point) ==
             /\ pc'[b] = point
             /\ \A c \in Backend \ {b} :
                  pc'[c] = pc[c] /\ snapshot'[c] = snapshot[c] /\ cursor'[c] = cursor[c]
<1>1. ASSUME NEW point, Goto(b, point) PROVE Moved(point)
  BY <1>1 DEF Goto, TypeOK, SessionType
<1>2. ASSUME NEW outcome, Return(b, outcome) PROVE Moved("idle")
  BY <1>2 DEF Return, TypeOK, SessionType
<1>3. ~Fill(b)
  BY DEF Fill, QueryIds, QueryCounts, QueryEntries, CountsDone, InitCalendar, CopyCalendar,
         FinishFill, Filling
<1> HIDE DEF Moved
<1>4. UNCHANGED db /\ \E point : point \notin Counting /\ Moved(point)
  <2>1. CASE CheckFilled(b) \/ Validate(b) \/ LockToFill(b) \/ Recheck(b)
    BY <1>1, <1>2, <2>1 DEF CheckFilled, Validate, LockToFill, Recheck, Raise, Counting
  <2>2. CASE Read(b)
    BY <1>1, <1>2, <2>2
       DEF Read, LockToRead, Info, Report, AddDaysById, AddDaysByName, AddDays, Raise, Counting
  <2>3. CASE CheckToInvalidate(b) \/ LockToInvalidate(b) \/ Invalidate(b)
    BY <1>1, <1>2, <2>3 DEF CheckToInvalidate, LockToInvalidate, Invalidate, Counting
  <2> QED
    BY <1>3, <2>1, <2>2, <2>3 DEF Step
<1> QED
  BY <1>4 DEF Moved

LEMMA StepCount ==
  ASSUME TypeOK, LockDiscipline, FillInvariant, CountInvariant, NEW b \in Backend, Step(b)
  PROVE  CountInvariant'
<1>1. CASE Fill(b)
  BY <1>1, QueryIdsCount, QueryCount, InitCalendarCount, CopyCalendarCount, FinishFillCount DEF Fill
<1>2. CASE Invalidate(b) /\ ~cache_filled'
  BY <1>2, RaiseCount, Modes DEF Invalidate
<1>3. CASE UNCHANGED imcx /\ pc[b] \notin Filling /\ ~Crash
  <2>1. EntryCountExact'
    BY <1>3, OutsideFill, SameCount, TablesAssumption DEF CountInvariant, TypeOK, OtherType, Version
  <2>2. CountProgress(b)'
    BY <1>3, OutsideFill, NotCounting
  <2>3. ASSUME NEW c \in Backend \ {b} PROVE CountProgress(c)'
    BY <1>3, <2>3, OutsideFill, SameCountProgress DEF CountInvariant
  <2> QED
    BY <2>1, <2>2, <2>3 DEF CountInvariant
<1>4. pc[b] \in Filling => Fill(b)
  BY DEF Step, CheckFilled, Validate, LockToFill, Recheck, Read, LockToRead, Info, Report,
     AddDaysById, AddDaysByName, CheckToInvalidate, LockToInvalidate, Invalidate, Filling
<1> QED
  BY <1>1, <1>2, <1>3, <1>4, CrashCount, ChangesCache

LEMMA NextCount ==
  TypeOK /\ LockDiscipline /\ FillInvariant /\ CountInvariant /\ [Next]_vars => CountInvariant'
<1> SUFFICES ASSUME TypeOK, LockDiscipline, FillInvariant, CountInvariant, [Next]_vars
             PROVE  CountInvariant'
  OBVIOUS
<1>0. db \in Nat
  BY TablesAssumption DEF TypeOK, OtherType, Version
<1>1. ASSUME UNCHANGED <<imcx, session>>, db' \in Nat, db <= db'
      PROVE  CountInvariant'
  BY <1>1, SameCount, SameCountProgress DEF CountInvariant, session
<1>2. CASE UNCHANGED vars
  BY <1>0, <1>1, <1>2 DEF vars
<1>3. CASE Commit
  BY <1>0, <1>1, <1>3 DEF Commit
<1>4. ASSUME NEW b \in Backend, NEW c \in Call, Begin(b, c)
      PROVE  CountInvariant'
  <2>1. EntryCountExact'
    BY <1>0, <1>4, SameCount DEF Begin, CountInvariant
  <2>2. CountProgress(b)'
    BY <1>4, NotCounting DEF Begin, TypeOK, SessionType, Counting
  <2>3. ASSUME NEW d \in Backend \ {b} PROVE CountProgress(d)'
    BY <1>4, <2>3, SameCountProgress DEF Begin, CountInvariant, TypeOK, SessionType
  <2> QED
    BY <2>1, <2>2, <2>3 DEF CountInvariant
<1> QED
  BY <1>2, <1>3, <1>4, StepCount DEF Next

\* entry_count, to which every row of Q2 adds, is the number of entries of the
\* version the cache holds, whatever failed fills counted before: pg_cache_init
\* starts again from nothing.
THEOREM EntryCountCorrect == Spec => []EntryCountExact
<1>1. Init => CountInvariant
  BY DEF Init, Cleared, CountInvariant, EntryCountExact, CountProgress
<1>2. CountInvariant => EntryCountExact
  BY DEF CountInvariant
<1> QED
  BY <1>1, <1>2, Invariant, NextCount, PTL DEF Spec

-----------------------------------------------------------------------------
(* The answers *)

\* ByIdFromOneVersion for one backend.
Genuine(b) ==
  answer[b].kind = "ok" /\ call[b].fn = "by_id" =>
    \E v \in 1 .. db :
      /\ call[b].id \in DOMAIN Tables[v].dates
      /\ answer[b] = Dates([id \in {call[b].id} |-> Tables[v].dates[id]])

LEMMA SameGenuine ==
  ASSUME NEW b \in Backend, Genuine(b), db \in Nat, db' \in Nat, db <= db',
         answer'[b] = answer[b], call'[b] = call[b]
  PROVE  Genuine(b)'
<1>1. \A v \in 1 .. db : v \in 1 .. db'
  OBVIOUS
<1> QED
  BY <1>1, Zenon DEF Genuine

\* Any answer to another function than kq_add_days_by_id.
LEMMA OtherGenuine ==
  ASSUME TypeOK, \A c \in Backend : Genuine(c), NEW b \in Backend, UNCHANGED db,
         \A c \in Backend \ {b} : answer'[c] = answer[c] /\ call'[c] = call[c],
         answer'[b].kind # "ok" \/ call'[b].fn # "by_id"
  PROVE  \A c \in Backend : Genuine(c)'
<1>1. db \in Nat /\ db' \in Nat /\ db <= db'
  BY TablesAssumption DEF TypeOK, OtherType, Version
<1>2. Genuine(b)'
  BY DEF Genuine
<1>3. ASSUME NEW c \in Backend \ {b} PROVE Genuine(c)'
  BY <1>1, <1>3, SameGenuine
<1> QED
  BY <1>2, <1>3

LEMMA ReturnGenuine ==
  ASSUME TypeOK, \A c \in Backend : Genuine(c), NEW b \in Backend, UNCHANGED db,
         NEW outcome, Return(b, outcome), outcome.kind # "ok" \/ call[b].fn # "by_id"
  PROVE  \A c \in Backend : Genuine(c)'
<1>1. answer'[b] = outcome /\ call' = call /\ \A c \in Backend \ {b} : answer'[c] = answer[c]
  BY DEF Return, TypeOK, SessionType
<1> QED
  BY <1>1, OtherGenuine

LEMMA CrashGenuine ==
  ASSUME Crash
  PROVE  \A c \in Backend : Genuine(c)'
  BY DEF Crash, Genuine, Outcome

\* The calendar that an id leads to in a filled cache is its own.
LEMMA IndexedIsOwn ==
  ASSUME TypeOK, FilledIsOneVersion, cache_filled, NEW id \in Int,
         get_calendar_index(id) \in DOMAIN calendars,
         calendars[get_calendar_index(id)].indexed
  PROVE  \E v \in 1 .. db :
           /\ id \in DOMAIN Tables[v].dates
           /\ calendars[get_calendar_index(id)].id = id
           /\ calendars[get_calendar_index(id)].dates = Tables[v].dates[id]
<1> DEFINE i == get_calendar_index(id)
<1>1. PICK v \in 1 .. db : Holds(v)
  BY DEF FilledIsOneVersion
<1>2. Tables[v].min \in Int
  BY TablesAssumption DEF TypeOK, OtherType, Version
<1>3. i \in 0 .. calendar_count - 1 /\ Tables[v].min + i = id
  BY <1>1, <1>2 DEF Holds, get_calendar_index
<1>4. id \in DOMAIN Tables[v].dates
  <2>1. ~Blank.indexed
    BY DEF Blank
  <2> QED
    BY <1>1, <1>3, <2>1 DEF Holds
<1>5. calendars[i] = [id |-> id, dates |-> Tables[v].dates[id], indexed |-> TRUE]
  BY <1>1, <1>3, <1>4 DEF Holds
<1> QED
  BY <1>4, <1>5

LEMMA StepGenuine ==
  ASSUME TypeOK, FilledIsOneVersion, \A c \in Backend : Genuine(c),
         NEW b \in Backend, Step(b)
  PROVE  \A c \in Backend : Genuine(c)'
<1>1. ASSUME UNCHANGED <<db, answer, call>>
      PROVE  \A c \in Backend : Genuine(c)'
  BY <1>1 DEF Genuine
<1>2. \A kind : kind # "ok" => Outcome(kind).kind # "ok"
  BY DEF Outcome
<1>3. CASE CheckFilled(b) \/ Validate(b) \/ LockToFill(b) \/ Recheck(b)
  BY <1>1, <1>2, <1>3, ReturnGenuine
     DEF CheckFilled, Validate, LockToFill, Recheck, Goto, Raise
<1>4. CASE QueryIds(b)
  BY <1>1, <1>2, <1>4, ReturnGenuine DEF QueryIds, QueryFails, Goto, Raise
<1>5. CASE QueryCounts(b) \/ QueryEntries(b)
  BY <1>1, <1>2, <1>5, ReturnGenuine
     DEF QueryCounts, QueryEntries, Query, QueryFails, GotoRows, Raise
<1>6. CASE CountsDone(b) \/ FinishFill(b)
  BY <1>1, <1>6 DEF CountsDone, FinishFill, Goto
<1>7. ASSUME NEW id \in cursor[b], InitCalendar(b, id) \/ CopyCalendar(b, id)
      PROVE  \A c \in Backend : Genuine(c)'
  BY <1>1, <1>2, <1>7, ReturnGenuine
     DEF InitCalendar, CopyCalendar, pg_set_calendar_name, Advance, Raise
<1>8. CASE LockToRead(b)
  BY <1>1, <1>8 DEF LockToRead, Goto
<1>9. CASE Info(b) \/ Report(b)
  BY <1>9, ReturnGenuine DEF Info, Report
<1>10. CASE AddDaysByName(b)
  BY <1>10, ReturnGenuine, CrashGenuine DEF AddDaysByName, AddDays, Raise
<1>11. CASE AddDaysById(b)
  <2> DEFINE id == call[b].id
             i  == get_calendar_index(id)
  <2>1. CASE Crash
    BY <2>1, CrashGenuine
  <2>2. ASSUME NEW kind, kind # "ok", Return(b, Outcome(kind)), UNCHANGED db
        PROVE  \A c \in Backend : Genuine(c)'
    BY <1>2, <2>2, ReturnGenuine
  <2>3. CASE /\ cache_filled /\ i \in DOMAIN calendars /\ calendars[i].indexed
             /\ Return(b, Dates([x \in {calendars[i].id} |-> calendars[i].dates]))
             /\ UNCHANGED db
    <3>1. id \in Int /\ call[b].fn = "by_id"
      BY <1>11, TablesAssumption DEF AddDaysById, TypeOK, SessionType, Call
    <3>2. PICK v \in 1 .. db : /\ id \in DOMAIN Tables[v].dates
                               /\ calendars[i].id = id
                               /\ calendars[i].dates = Tables[v].dates[id]
      BY <2>3, <3>1, IndexedIsOwn
    <3>3. [x \in {calendars[i].id} |-> calendars[i].dates] = [x \in {id} |-> Tables[v].dates[x]]
      BY <3>2
    <3>4. /\ answer'[b] = Dates([x \in {id} |-> Tables[v].dates[x]])
          /\ call' = call /\ \A c \in Backend \ {b} : answer'[c] = answer[c]
      BY <2>3, <3>3 DEF Return, TypeOK, SessionType
    <3>5. Genuine(b)'
      BY <2>3, <3>2, <3>4 DEF Genuine
    <3>6. ASSUME NEW c \in Backend \ {b} PROVE Genuine(c)'
      BY <2>3, <3>4 DEF Genuine
    <3> QED
      BY <3>5, <3>6
  <2> QED
    BY <1>11, <2>1, <2>2, <2>3 DEF AddDaysById, AddDays, Raise
<1>12. CASE CheckToInvalidate(b) \/ LockToInvalidate(b) \/ Invalidate(b)
  BY <1>1, <1>2, <1>12, ReturnGenuine DEF CheckToInvalidate, LockToInvalidate, Invalidate, Goto
<1> QED
  BY <1>3, <1>4, <1>5, <1>6, <1>7, <1>8, <1>9, <1>10, <1>11, <1>12 DEF Step, Fill, Read

LEMMA NextGenuine ==
  TypeOK /\ FilledIsOneVersion /\ ByIdFromOneVersion /\ [Next]_vars => ByIdFromOneVersion'
<1> SUFFICES ASSUME TypeOK, FilledIsOneVersion, ByIdFromOneVersion, [Next]_vars
             PROVE  ByIdFromOneVersion'
  OBVIOUS
<1>0. \A c \in Backend : Genuine(c)
  BY DEF ByIdFromOneVersion, Genuine
<1>1. CASE UNCHANGED <<answer, call>> /\ db' \in Nat /\ db <= db'
  <2>1. db \in Nat
    BY TablesAssumption DEF TypeOK, OtherType, Version
  <2> QED
    BY <1>0, <1>1, <2>1, SameGenuine DEF Genuine, ByIdFromOneVersion
<1>2. CASE UNCHANGED vars \/ Commit
  BY <1>1, <1>2, TablesAssumption DEF vars, session, Commit, TypeOK, OtherType, Version
<1>3. ASSUME NEW b \in Backend, NEW c \in Call, Begin(b, c)
      PROVE  ByIdFromOneVersion'
  <2>1. answer'[b].kind # "ok" /\ \A d \in Backend \ {b} : answer'[d] = answer[d] /\ call'[d] = call[d]
    BY <1>3 DEF Begin, Outcome, TypeOK, SessionType
  <2> QED
    BY <1>0, <1>3, <2>1, OtherGenuine DEF Begin, Genuine, ByIdFromOneVersion
<1>4. ASSUME NEW b \in Backend, Step(b)
      PROVE  ByIdFromOneVersion'
  BY <1>0, <1>4, StepGenuine DEF Genuine, ByIdFromOneVersion
<1> QED
  BY <1>2, <1>3, <1>4 DEF Next

\* An answer by id is computed from the dates of that very calendar in one
\* committed version, also for ids at the ends of the array, after failed
\* fills, and for every interleaving of readers, fills and invalidations.
THEOREM ByIdCorrect == Spec => []ByIdFromOneVersion
<1>1. Init => ByIdFromOneVersion
  BY DEF Init, ByIdFromOneVersion, Outcome
<1>2. FillInvariant => FilledIsOneVersion
  BY DEF FillInvariant
<1> QED
  BY <1>1, <1>2, Invariant, NextGenuine, PTL DEF Spec

=============================================================================
