---------------------------- MODULE SharedCache ----------------------------
(***************************************************************************)
(* The In-Memory Calendar Extension: the cache in PostgreSQL shared memory *)
(* (the IMCX struct and the hash table of names), the LWLock that guards   *)
(* it and the backends that run the SQL functions of kq_imcx.c.            *)
(*                                                                         *)
(* A backend is at a program point pc[b]; each action below is the code    *)
(* between two points at which another backend can observe or change the   *)
(* shared state: an unlocked read of cache_filled, a wait for the LWLock,  *)
(* a query.  The loop bodies that fill the cache under the exclusive lock  *)
(* are one action per calendar.                                            *)
(*                                                                         *)
(* The tables plan.calendar and plan.calendar_date are external: version v *)
(* of them is committed, and Tables[v] is what the loading queries return  *)
(* on a snapshot of it.                                                    *)
(***************************************************************************)
EXTENDS Integers, Sequences, FiniteSets

CONSTANTS
  Backend,       \* the server processes
  Name,          \* calendar names, as LOWER() leaves them
  MaxVersion,    \* bound: the committed states of the calendar tables
  Tables,        \* Tables[v]: the answers of the queries on version v
  AskedId,       \* the calendar ids kq_add_days_by_id is called with
  AskedName,     \* the calendar names kq_add_days is called with
  ShmemUnits,    \* the ShmemAlloc requests that shared memory can satisfy
  AllocCost,     \* what one request takes of them: 1, or 0 to leave exhaustion out
  FailingQuery   \* the queries ("q0" .. "q3") that may raise an SQL error

Version == 1 .. MaxVersion

(***************************************************************************)
(* Q0 says whether the tables exist; Q1 returns min and max of the ids; Q2 *)
(* and Q3 return, for every calendar that has dates, its name and its      *)
(* dates.  calendar_date.calendar_id references calendar.id, a SERIAL key. *)
(***************************************************************************)
ASSUME TablesAssumption ==
  /\ MaxVersion \in Nat \ {0}
  /\ ShmemUnits \in Nat /\ AllocCost \in {0, 1}
  /\ \A v \in Version :
       /\ Tables[v].valid \in BOOLEAN
       /\ Tables[v].min \in Int /\ Tables[v].max \in Int
       /\ DOMAIN Tables[v].dates \subseteq (Tables[v].min .. Tables[v].max) \ {0}
       /\ Tables[v].dates \in [DOMAIN Tables[v].dates -> Seq(Int) \ {<< >>}]
       /\ Tables[v].name \in [DOMAIN Tables[v].dates -> Name]
  /\ AskedId \subseteq Int

VARIABLES
  db,               \* the committed version of the calendar tables
  array,            \* imcx->calendars # NULL
  calendars,        \* index -> Calendar, for the non-NULL imcx->calendars[i]
  calendar_count,   \* imcx->calendar_count
  entry_count,      \* imcx->entry_count
  min_calendar_id,  \* imcx->min_calendar_id
  cache_filled,     \* imcx->cache_filled
  names,            \* imcx->pg_calendar_name_hashtable: name -> calendar id
  shmem_free,       \* the ShmemAlloc requests still possible
  held,             \* held[b]: the mode in which b holds shared_memory_ptr->lock
  pc,               \* pc[b]: where b is in the function it executes
  call,             \* call[b]: the SQL function and its argument
  snapshot,         \* snapshot[b]: the version the statement of b sees
  cursor,           \* cursor[b]: the calendars of the result rows not yet read
  answer,           \* answer[b]: what the last call of b returned
  fresh_from        \* history: the version committed at the last invalidation

imcx    == <<array, calendars, calendar_count, entry_count, min_calendar_id,
             cache_filled, names, shmem_free>>
session == <<pc, call, snapshot, cursor, answer>>
vars    == <<db, imcx, held, session, fresh_from>>

-----------------------------------------------------------------------------
(* Types *)

Call == [fn : {"info", "report", "invalidate"}]
          \cup [fn : {"by_id"}, id : AskedId]
          \cup [fn : {"by_name"}, name : AskedName]

Point == {"idle", "check", "validate", "lock_fill", "recheck",
          "q1", "q2", "q2_rows", "q3", "q3_rows",
          "lock_read", "read", "lock_invalidate", "invalidate"}

Calendar == [id : Int, dates : Seq(Int), indexed : BOOLEAN]

\* A Calendar struct as memset leaves it: no id, no dates, page_size 0.
Blank == [id |-> 0, dates |-> << >>, indexed |-> FALSE]

\* An answer is the outcome and the dates it was computed from, by calendar.
Nothing == [id \in {} |-> << >>]
Outcome(kind) == [kind |-> kind, content |-> Nothing]
Dates(content) == [kind |-> "ok", content |-> content]

Kind == {"none", "ok", "available", "unavailable", "not_found", "not_ready",
         "error", "undefined", "not_loaded", "invalidated", "lost"}

-----------------------------------------------------------------------------
(* The LWLock *)

Free_ReadersEnter(mode) ==
  \A c \in Backend : held[c] = "none" \/ mode = "shared"

\* LWLockAcquire returns when no other backend holds a conflicting mode.
Free(mode) ==
  \A c \in Backend : held[c] = "none" \/ (mode = "shared" /\ held[c] = "shared")

Acquire(b, mode) == /\ Free(mode)
                    /\ held' = [held EXCEPT ![b] = mode]

Release(b) == held' = [held EXCEPT ![b] = "none"]

(* Control flow of a backend *)

Goto(b, point) == /\ pc' = [pc EXCEPT ![b] = point]
                  /\ UNCHANGED <<call, snapshot, cursor, answer>>

GotoRows_NewSnapshot(b, point) ==
  /\ pc' = [pc EXCEPT ![b] = point]
  /\ snapshot' = [snapshot EXCEPT ![b] = db]
  /\ cursor' = [cursor EXCEPT ![b] = DOMAIN Tables[db].dates]
  /\ UNCHANGED <<call, answer>>

\* The rows of a query result are the calendars of the snapshot: SPI_execute
\* with read_only uses the snapshot of the calling statement.
GotoRows(b, point) ==
  /\ pc' = [pc EXCEPT ![b] = point]
  /\ cursor' = [cursor EXCEPT ![b] = DOMAIN Tables[snapshot[b]].dates]
  /\ UNCHANGED <<call, snapshot, answer>>

\* The function returns, or raises an error: the transaction abort that
\* follows an error releases every LWLock of the backend, as the code does
\* on its other returns.  The statement and its snapshot end.
Return(b, outcome) ==
  /\ pc' = [pc EXCEPT ![b] = "idle"]
  /\ answer' = [answer EXCEPT ![b] = outcome]
  /\ cursor' = [cursor EXCEPT ![b] = {}]
  /\ snapshot' = [snapshot EXCEPT ![b] = 0]
  /\ UNCHANGED call
  /\ Release(b)

Raise(b) == Return(b, Outcome("error"))

\* init_shared_memory on a new segment: it is zeroed, the hash table is empty.
Cleared ==
  /\ array = FALSE
  /\ calendars = << >>
  /\ calendar_count = 0
  /\ entry_count = 0
  /\ min_calendar_id = 0
  /\ cache_filled = FALSE
  /\ names = << >>
  /\ shmem_free = ShmemUnits

\* A backend dies of a signal: the postmaster ends every session and starts
\* again on a new segment.
Crash ==
  /\ array' = FALSE
  /\ calendars' = << >>
  /\ calendar_count' = 0
  /\ entry_count' = 0
  /\ min_calendar_id' = 0
  /\ cache_filled' = FALSE
  /\ names' = << >>
  /\ shmem_free' = ShmemUnits
  /\ held' = [b \in Backend |-> "none"]
  /\ pc' = [b \in Backend |-> "idle"]
  /\ answer' = [b \in Backend |-> Outcome("lost")]
  /\ cursor' = [b \in Backend |-> {}]
  /\ snapshot' = [b \in Backend |-> 0]
  /\ fresh_from' = 0
  /\ UNCHANGED <<db, call>>

Init ==
  /\ db = 1
  /\ Cleared
  /\ held = [b \in Backend |-> "none"]
  /\ pc = [b \in Backend |-> "idle"]
  /\ call \in [Backend -> [fn : {"info"}]]
  /\ snapshot = [b \in Backend |-> 0]
  /\ cursor = [b \in Backend |-> {}]
  /\ answer = [b \in Backend |-> Outcome("none")]
  /\ fresh_from = 0

\* Another client commits a change of the calendar tables.
Commit == /\ db < MaxVersion
          /\ db' = db + 1
          /\ UNCHANGED <<imcx, held, session, fresh_from>>

\* A statement begins: it takes its snapshot and calls the function.
Begin(b, c) ==
  /\ pc[b] = "idle"
  /\ pc' = [pc EXCEPT ![b] = "check"]
  /\ call' = [call EXCEPT ![b] = c]
  /\ snapshot' = [snapshot EXCEPT ![b] = db]
  /\ answer' = [answer EXCEPT ![b] = Outcome("none")]
  /\ UNCHANGED <<db, imcx, held, cursor, fresh_from>>

-----------------------------------------------------------------------------
(* ensure_cache_populated *)

\* The first test of cache_filled, without the lock.
CheckFilled(b) ==
  /\ pc[b] = "check" /\ call[b].fn # "invalidate"
  /\ Goto(b, IF cache_filled THEN "lock_read" ELSE "validate")
  /\ UNCHANGED <<db, imcx, held, fresh_from>>

\* validate_compatible_db: Q0 finds both tables, or an error is raised.
Validate(b) ==
  /\ pc[b] = "validate"
  /\ \/ /\ Tables[snapshot[b]].valid
        /\ Goto(b, "lock_fill")
        /\ UNCHANGED held
     \/ /\ ~Tables[snapshot[b]].valid \/ "q0" \in FailingQuery
        /\ Raise(b)
  /\ UNCHANGED <<db, imcx, fresh_from>>

LockToFill_Shared(b) ==
  /\ pc[b] = "lock_fill"
  /\ Acquire(b, "shared")
  /\ Goto(b, "recheck")
  /\ UNCHANGED <<db, imcx, fresh_from>>

LockToFill(b) ==
  /\ pc[b] = "lock_fill"
  /\ Acquire(b, "exclusive")
  /\ Goto(b, "recheck")
  /\ UNCHANGED <<db, imcx, fresh_from>>

Recheck_NoRelease(b) ==
  /\ pc[b] = "recheck"
  /\ Goto(b, IF cache_filled THEN "lock_read" ELSE "q1")
  /\ UNCHANGED <<db, imcx, held, fresh_from>>

Recheck_NoTest(b) ==
  /\ pc[b] = "recheck"
  /\ Goto(b, "q1")
  /\ UNCHANGED <<db, imcx, held, fresh_from>>

\* The second test, under the lock: another backend may have filled the cache.
Recheck(b) ==
  /\ pc[b] = "recheck"
  /\ \/ cache_filled /\ Release(b) /\ Goto(b, "lock_read")
     \/ ~cache_filled /\ UNCHANGED held /\ Goto(b, "q1")
  /\ UNCHANGED <<db, imcx, fresh_from>>

QueryFails(b, query) ==
  /\ query \in FailingQuery
  /\ Raise(b)
  /\ UNCHANGED imcx

Fits_Unchecked(n) == TRUE

\* ShmemAlloc succeeds n times; it raises an error when memory runs out.
Fits(n) == AllocCost * n <= shmem_free

pg_cache_init_KeepsCount(min, count) ==
  /\ array' = TRUE
  /\ calendars' = [i \in 0 .. count - 1 |-> Blank]
  /\ calendar_count' = count
  /\ min_calendar_id' = min
  /\ UNCHANGED entry_count

\* The array and each Calendar are allocated and zeroed, and the control
\* variables are set.
pg_cache_init(min, count) ==
  /\ array' = TRUE
  /\ calendars' = [i \in 0 .. count - 1 |-> Blank]
  /\ calendar_count' = count
  /\ entry_count' = 0
  /\ min_calendar_id' = min

\* Memory runs out at one of those requests: what was allocated before stays.
pg_cache_init_fails ==
  /\ array' = (array \/ shmem_free > 0)
  /\ calendars' = IF shmem_free > 0
                  THEN [i \in 0 .. shmem_free - 2 |-> Blank]
                  ELSE calendars
  /\ UNCHANGED <<calendar_count, entry_count, min_calendar_id>>

\* Q1 and pg_cache_init.
QueryIds(b) ==
  LET t     == Tables[snapshot[b]]
      count == t.max - t.min + 1
  IN
  /\ pc[b] = "q1"
  /\ \/ QueryFails(b, "q1")
     \/ t.min > t.max /\ Raise(b) /\ UNCHANGED imcx
     \/ /\ t.min <= t.max /\ Fits(count + 1)
        /\ pg_cache_init(t.min, count)
        /\ shmem_free' = shmem_free - AllocCost * (count + 1)
        /\ Goto(b, "q2")
        /\ UNCHANGED <<cache_filled, names, held>>
     \/ /\ t.min <= t.max /\ ~Fits(count + 1)
        /\ pg_cache_init_fails
        /\ shmem_free' = 0
        /\ Raise(b)
        /\ UNCHANGED <<cache_filled, names>>
  /\ UNCHANGED <<db, fresh_from>>

\* Q2 and Q3 are refused when they return no row.
Query(b, query, rows) ==
  /\ \/ QueryFails(b, query)
     \/ /\ DOMAIN Tables[snapshot[b]].dates = {}
        /\ Raise(b)
        /\ UNCHANGED imcx
     \/ /\ DOMAIN Tables[snapshot[b]].dates # {}
        /\ GotoRows(b, rows)
        /\ UNCHANGED <<imcx, held>>
  /\ UNCHANGED <<db, fresh_from>>

QueryCounts(b)  == pc[b] = "q2" /\ Query(b, "q2", "q2_rows")
QueryEntries(b) == pc[b] = "q3" /\ Query(b, "q3", "q3_rows")

\* The rows come in ascending order of calendar id.
NextRow(b, id) == id \in cursor[b] /\ \A other \in cursor[b] : id <= other

Advance(b, id) == /\ cursor' = [cursor EXCEPT ![b] = @ \ {id}]
                  /\ UNCHANGED <<pc, call, snapshot, answer>>

get_calendar_index(id) == id - min_calendar_id

Zeros(n) == [i \in 1 .. n |-> 0]

\* pg_set_calendar_name enters the name in the hash table, and refuses a
\* name that is there already.
pg_set_calendar_name(b, name, id) ==
  \/ /\ name \notin DOMAIN names
     /\ names' = [n \in DOMAIN names \cup {name} |-> IF n = name THEN id ELSE names[n]]
     /\ Advance(b, id)
     /\ UNCHANGED held
  \/ /\ name \in DOMAIN names
     /\ Raise(b)
     /\ UNCHANGED names

\* A row of Q2: pg_calendar_init, then pg_set_calendar_name.
InitCalendar(b, id) ==
  LET size == Len(Tables[snapshot[b]].dates[id]) IN
  /\ pc[b] = "q2_rows" /\ NextRow(b, id)
  /\ \/ ~Fits(1) /\ Raise(b) /\ UNCHANGED imcx
     \/ /\ Fits(1)
        /\ shmem_free' = shmem_free - AllocCost
        /\ calendars' = [calendars EXCEPT ![get_calendar_index(id)] =
                           [id |-> id, dates |-> Zeros(size), indexed |-> FALSE]]
        /\ entry_count' = entry_count + size
        /\ pg_set_calendar_name(b, Tables[snapshot[b]].name[id], id)
        /\ UNCHANGED <<array, calendar_count, min_calendar_id, cache_filled>>
  /\ UNCHANGED <<db, fresh_from>>

CountsDone(b) ==
  /\ pc[b] = "q2_rows" /\ cursor[b] = {}
  /\ Goto(b, "q3")
  /\ UNCHANGED <<db, imcx, held, fresh_from>>

DatesRead_NoReset(b, id) ==
  LET dates == Tables[snapshot[b]].dates IN
  IF \A other \in DOMAIN dates : id <= other THEN dates[id] ELSE Zeros(Len(dates[id]))

\* What the rows of Q3 of one calendar leave in its array, from index 0 on.
DatesRead(b, id) == Tables[snapshot[b]].dates[id]

\* The rows of Q3 of one calendar: its dates are copied; with the last of
\* them, pg_init_page_size allocates and builds the page map.
CopyCalendar(b, id) ==
  LET i == get_calendar_index(id)
      Copied(indexed) == [calendars EXCEPT ![i] =
        [id |-> calendars[i].id, dates |-> DatesRead(b, id), indexed |-> indexed]]
  IN
  /\ pc[b] = "q3_rows" /\ NextRow(b, id)
  /\ \/ /\ ~Fits(1)
        /\ calendars' = Copied(FALSE)
        /\ Raise(b)
        /\ UNCHANGED shmem_free
     \/ /\ Fits(1)
        /\ calendars' = Copied(TRUE)
        /\ shmem_free' = shmem_free - AllocCost
        /\ Advance(b, id)
        /\ UNCHANGED held
  /\ UNCHANGED <<db, array, calendar_count, entry_count, min_calendar_id,
                 cache_filled, names, fresh_from>>

FinishFill_RowEarly(b) ==
  /\ pc[b] = "q3_rows" /\ Cardinality(cursor[b]) <= 1
  /\ cache_filled' = TRUE
  /\ Release(b)
  /\ Goto(b, "lock_read")
  /\ UNCHANGED <<db, array, calendars, calendar_count, entry_count,
                 min_calendar_id, names, shmem_free, fresh_from>>

FinishFill(b) ==
  /\ pc[b] = "q3_rows" /\ cursor[b] = {}
  /\ cache_filled' = TRUE
  /\ Release(b)
  /\ Goto(b, "lock_read")
  /\ UNCHANGED <<db, array, calendars, calendar_count, entry_count,
                 min_calendar_id, names, shmem_free, fresh_from>>

Fill(b) ==
  \/ QueryIds(b) \/ QueryCounts(b) \/ CountsDone(b)
  \/ \E id \in cursor[b] : InitCalendar(b, id) \/ CopyCalendar(b, id)
  \/ QueryEntries(b) \/ FinishFill(b)

-----------------------------------------------------------------------------
(* The readers: they hold the lock shared and test cache_filled no more,   *)
(* but for add_calendar_days.                                              *)

LockToRead(b) ==
  /\ pc[b] = "lock_read"
  /\ Acquire(b, "shared")
  /\ Goto(b, "read")
  /\ UNCHANGED <<db, imcx, fresh_from>>

\* calendar_info reports the control variables.
Info(b) ==
  /\ pc[b] = "read" /\ call[b].fn = "info"
  /\ Return(b, Outcome(IF cache_filled THEN "available" ELSE "unavailable"))
  /\ UNCHANGED <<db, imcx, fresh_from>>

Listed_OneLess ==
  {i \in 0 .. calendar_count - 2 : i \in DOMAIN calendars /\ calendars[i].id # 0}

\* The calendars a report lists: those that have been given an id.
Listed == {i \in 0 .. calendar_count - 1 : i \in DOMAIN calendars /\ calendars[i].id # 0}

CachedDates == [id \in {calendars[i].id : i \in Listed} |->
                  calendars[get_calendar_index(id)].dates]

\* calendar_report walks the array and stops at a NULL calendar.
Report(b) ==
  /\ pc[b] = "read" /\ call[b].fn = "report"
  /\ Return(b, IF 0 .. calendar_count - 1 \subseteq DOMAIN calendars
               THEN Dates(CachedDates) ELSE Outcome("error"))
  /\ UNCHANGED <<db, imcx, fresh_from>>

\* pg_get_calendar and add_calendar_days, up to the dates the answer is
\* computed from.  pg_get_calendar reads the array before cache_filled is
\* tested: after an invalidation it follows a NULL pointer.  In a calendar
\* without dates page_size is 0, and the division raises an error or, where
\* the processor does not trap, a NULL pointer is followed.  An id out of
\* the array's range yields whatever lies beyond it.
AddDays(b, id) ==
  LET i == get_calendar_index(id) IN
  \/ ~array /\ Crash
  \/ /\ array /\ ~cache_filled
     /\ Return(b, Outcome("not_ready"))
     /\ UNCHANGED <<db, imcx, fresh_from>>
  \/ /\ array /\ cache_filled /\ i \in DOMAIN calendars /\ calendars[i].indexed
     /\ Return(b, Dates([x \in {calendars[i].id} |-> calendars[i].dates]))
     /\ UNCHANGED <<db, imcx, fresh_from>>
  \/ /\ array /\ cache_filled /\ i \in DOMAIN calendars /\ ~calendars[i].indexed
     /\ \/ Raise(b) /\ UNCHANGED <<db, imcx, fresh_from>>
        \/ Crash
  \/ /\ array /\ cache_filled /\ i \notin DOMAIN calendars
     /\ \/ Return(b, Outcome("undefined")) /\ UNCHANGED <<db, imcx, fresh_from>>
        \/ Crash

AddDaysById(b) ==
  /\ pc[b] = "read" /\ call[b].fn = "by_id"
  /\ AddDays(b, call[b].id)

AddDaysByName(b) ==
  /\ pc[b] = "read" /\ call[b].fn = "by_name"
  /\ \/ /\ call[b].name \notin DOMAIN names
        /\ Return(b, Outcome("not_found"))
        /\ UNCHANGED <<db, imcx, fresh_from>>
     \/ /\ call[b].name \in DOMAIN names
        /\ AddDays(b, names[call[b].name])

Read(b) == LockToRead(b) \/ Info(b) \/ Report(b) \/ AddDaysById(b) \/ AddDaysByName(b)

-----------------------------------------------------------------------------
(* calendar_invalidate *)

CheckToInvalidate(b) ==
  /\ pc[b] = "check" /\ call[b].fn = "invalidate"
  /\ \/ ~cache_filled /\ Return(b, Outcome("not_loaded"))
     \/ cache_filled /\ Goto(b, "lock_invalidate") /\ UNCHANGED held
  /\ UNCHANGED <<db, imcx, fresh_from>>

LockToInvalidate(b) ==
  /\ pc[b] = "lock_invalidate"
  /\ Acquire(b, "exclusive")
  /\ Goto(b, "invalidate")
  /\ UNCHANGED <<db, imcx, fresh_from>>

cache_invalidate_KeepsNames ==
  /\ array' = FALSE
  /\ calendars' = << >>
  /\ calendar_count' = 0
  /\ entry_count' = 0
  /\ cache_filled' = FALSE
  /\ UNCHANGED <<names, min_calendar_id, shmem_free>>

cache_invalidate_SkipsName ==
  /\ array' = FALSE
  /\ calendars' = << >>
  /\ calendar_count' = 0
  /\ entry_count' = 0
  /\ cache_filled' = FALSE
  /\ \E skipped \in DOMAIN names : names' = [n \in {skipped} |-> names[n]]
  /\ UNCHANGED <<min_calendar_id, shmem_free>>

\* The names are removed and the pointers cleared; nothing that ShmemAlloc
\* gave is returned, and min_calendar_id keeps its value.  (A filled cache
\* has at least one calendar: the branch for none of them is not reached.)
cache_invalidate ==
  /\ array' = FALSE
  /\ calendars' = << >>
  /\ calendar_count' = 0
  /\ entry_count' = 0
  /\ cache_filled' = FALSE
  /\ names' = << >>
  /\ UNCHANGED <<min_calendar_id, shmem_free>>

Invalidate(b) ==
  /\ pc[b] = "invalidate"
  /\ \/ /\ ~cache_filled
        /\ Return(b, Outcome("not_loaded"))
        /\ UNCHANGED <<imcx, fresh_from>>
     \/ /\ cache_filled
        /\ cache_invalidate
        /\ fresh_from' = db
        /\ Return(b, Outcome("invalidated"))
  /\ UNCHANGED db

-----------------------------------------------------------------------------
Step(b) ==
  \/ CheckFilled(b) \/ Validate(b) \/ LockToFill(b) \/ Recheck(b)
  \/ Fill(b) \/ Read(b)
  \/ CheckToInvalidate(b) \/ LockToInvalidate(b) \/ Invalidate(b)

Next == \/ Commit
        \/ \E b \in Backend : Step(b) \/ \E c \in Call : Begin(b, c)

Spec == Init /\ [][Next]_vars

\* A backend that can go on does; clients need not call, nor tables change.
FairSpec == Spec /\ \A b \in Backend : WF_vars(Step(b))

-----------------------------------------------------------------------------
(* Properties *)

CacheType ==
  /\ array \in BOOLEAN /\ cache_filled \in BOOLEAN
  /\ calendars \in [DOMAIN calendars -> Calendar]
  /\ DOMAIN calendars \subseteq Nat
  /\ \A i \in DOMAIN calendars : 0 .. i \subseteq DOMAIN calendars
  /\ calendar_count \in Nat /\ entry_count \in Nat /\ min_calendar_id \in Int
  /\ shmem_free \in 0 .. ShmemUnits
  /\ names \in [DOMAIN names -> Int] /\ DOMAIN names \subseteq Name

SessionType ==
  /\ pc \in [Backend -> Point]
  /\ call \in [Backend -> Call]
  /\ snapshot \in [Backend -> 0 .. db]
  /\ \A b \in Backend : pc[b] # "idle" => snapshot[b] # 0
  /\ cursor \in [Backend -> SUBSET Int]
  /\ \A b \in Backend : pc[b] \in {"q2_rows", "q3_rows"} =>
       cursor[b] \subseteq DOMAIN Tables[snapshot[b]].dates
  /\ DOMAIN answer = Backend
  /\ \A b \in Backend : answer[b].kind \in Kind /\ DOMAIN answer[b].content \subseteq Int

OtherType ==
  /\ db \in Version /\ fresh_from \in 0 .. db
  /\ held \in [Backend -> {"none", "shared", "exclusive"}]

\* The variables have their types; memory is never overdrawn (ShmemAlloc), a
\* statement has a snapshot while it runs and reads its rows from it, and the
\* array has no holes (the loops of pg_cache_init).
TypeOK == CacheType /\ SessionType /\ OtherType

\* The mode in which the lock is held at each program point.
ModeAt(point) ==
  CASE point \in {"recheck", "q1", "q2", "q2_rows", "q3", "q3_rows", "invalidate"} -> "exclusive"
    [] point = "read" -> "shared"
    [] OTHER -> "none"

\* On every path - the early returns after the second test, the errors
\* raised inside a query or a loop, the normal ends - the lock is held where
\* the code reads or writes the cache and released when the function is left;
\* and a backend that fills or drops the cache is alone with it.
LockDiscipline ==
  /\ \A b \in Backend : held[b] = ModeAt(pc[b])
  /\ \A b, c \in Backend :
       held[b] = "exclusive" /\ held[c] # "none" => b = c

\* The calls never wait for each other all at once: as long as some are under
\* way there is one that waits for no lock, or for one that nobody keeps from
\* it.  Every path between two locks has given the first one back.
WaitsFor(b, mode) == pc[b] \in (IF mode = "shared" THEN {"lock_read"}
                                ELSE {"lock_fill", "lock_invalidate"})
NoLockDeadlock ==
  (\E b \in Backend : pc[b] # "idle") =>
    \E b \in Backend :
      pc[b] # "idle" /\ \A mode \in {"shared", "exclusive"} : WaitsFor(b, mode) => Free(mode)

\* The structure that version v of the tables yields when it is loaded whole.
Holds(v) ==
  LET t == Tables[v] IN
  /\ array
  /\ min_calendar_id = t.min
  /\ calendar_count = t.max - t.min + 1
  /\ calendars = [i \in 0 .. calendar_count - 1 |->
                    IF t.min + i \in DOMAIN t.dates
                    THEN [id |-> t.min + i, dates |-> t.dates[t.min + i], indexed |-> TRUE]
                    ELSE Blank]
  /\ \A id \in DOMAIN t.dates :
       t.name[id] \in DOMAIN names /\ names[t.name[id]] = id

\* Whatever failed fills, invalidations and races came before, a cache that
\* is marked filled is the complete image of one committed version: every
\* calendar with its own dates, page map and name, and none of another.
FilledIsOneVersion == cache_filled => \E v \in 1 .. db : Holds(v)

\* The entries of some calendars of version v.
Entries(v, ids) == UNION {{id} \X DOMAIN Tables[v].dates[id] : id \in ids}

\* entry_count, which every pg_calendar_init adds to, is exact when filled.
EntryCountExact ==
  cache_filled => \E v \in 1 .. db :
    Holds(v) /\ entry_count = Cardinality(Entries(v, DOMAIN Tables[v].dates))

\* The hash table knows the names of the loaded version and no other.
NamesExact ==
  cache_filled => \E v \in 1 .. db :
    Holds(v) /\ DOMAIN names = {Tables[v].name[id] : id \in DOMAIN Tables[v].dates}

\* An answer by id is computed from the dates of that very calendar in one
\* committed version, however fills and invalidations interleave.
ByIdFromOneVersion ==
  \A b \in Backend : answer[b].kind = "ok" /\ call[b].fn = "by_id" =>
    \E v \in 1 .. db :
      /\ call[b].id \in DOMAIN Tables[v].dates
      /\ answer[b] = Dates([id \in {call[b].id} |-> Tables[v].dates[id]])

\* The same for an answer by name: the calendar bears the name in the version
\* its dates come from.
ByNameFromOneVersion ==
  \A b \in Backend : answer[b].kind = "ok" /\ call[b].fn = "by_name" =>
    \E v \in 1 .. db : \E i \in DOMAIN Tables[v].dates :
      /\ Tables[v].name[i] = call[b].name
      /\ answer[b] = Dates([id \in {i} |-> Tables[v].dates[id]])

\* Whoever marks the cache as filled leaves in it the version that its own
\* statement sees, though other backends commit, fill and invalidate between its
\* tests and its queries: a caller never reads rows older than its snapshot
\* from a cache it has filled itself.
FillsFromOwnSnapshot ==
  [][~cache_filled /\ cache_filled' =>
       \E b \in Backend : pc[b] = "q3_rows" /\ pc'[b] = "lock_read" /\ Holds(snapshot[b])']_vars

\* A report made while the cache is filled lists the calendars of one committed
\* version, all of them, with their dates, although calendar_report_concrete
\* neither tests cache_filled nor knows which elements of the array were filled.
ReportOfFilledCache ==
  [][\A b \in Backend :
       pc[b] = "read" /\ call[b].fn = "report" /\ pc'[b] = "idle" /\ cache_filled /\ cache_filled' =>
         \E v \in 1 .. db : answer'[b] = Dates(Tables[v].dates)]_vars

\* While a reader keeps the lock no step changes the cache.
StableWhileRead ==
  [][(\E b \in Backend : held[b] = "shared" /\ held'[b] = "shared")
       => UNCHANGED imcx]_vars

\* A filled cache is never changed in place: it is dropped whole, and a
\* backend that waited to fill it finds it filled (the second test).
FilledOnlyDropped == [][cache_filled /\ cache_filled' => UNCHANGED imcx]_vars

\* When no query fails and memory suffices, the fill of a compatible
\* database succeeds, also after invalidations and changes of the tables.
FillSucceeds ==
  \A b \in Backend : answer[b].kind = "error" => call[b].fn \in {"by_id", "by_name"}

\* Every call returns, once clients stop issuing new ones: nobody keeps the
\* lock and nobody waits for ever.  (The LWLock lets a later reader pass a
\* waiting writer, so that a writer may starve while calls keep arriving.)
NoNewCall == [][\A b \in Backend : pc[b] = "idle" => pc'[b] = "idle"]_vars
CallsReturn == <>NoNewCall => \A b \in Backend : <>[](pc[b] = "idle")

\* The code implements what CalendarCache promises: with the structure read
\* as what it caches, every step is a step of CalendarCache or a stutter.
Promise == INSTANCE CalendarCache WITH
             content <- IF cache_filled THEN CachedDates ELSE Nothing,
             reply   <- [b \in Backend |-> answer[b].content]
KeepsPromise == Promise!Spec

-----------------------------------------------------------------------------
(* What the documentation says and the code does not do *)

\* "Thread safe." (README.md:70): no call for a calendar that exists takes the
\* server down.
NeverLost == \A b \in Backend : answer[b].kind # "lost"

\* "... automatically load the slices in memory if not already loaded or failed"
\* (README.md:137-138): a fill that follows a failed one finds every name free.
RetryFindsNamesFree ==
  \A b \in Backend : pc[b] = "q2_rows" =>
    \A id \in cursor[b] : Tables[snapshot[b]].name[id] \notin DOMAIN names

\* "After the function is executed, a fresh cache is available."
\* (README.md:207-208): what is cached after an invalidation was committed
\* when it was executed, or later.
FreshAfterInvalidate ==
  cache_filled => \E v \in 1 .. db : v >= fresh_from /\ Holds(v)

\* "List the cached calendars." (README.md:133): a report lists the calendars
\* of one committed version with their dates, or no calendar.  The code walks
\* the array also where a fill has failed after the first test of cache_filled.
ReportsCachedCalendars ==
  \A b \in Backend : answer[b].kind = "ok" /\ call[b].fn = "report" =>
    answer[b] = Dates(Nothing) \/ \E v \in 1 .. db : answer[b] = Dates(Tables[v].dates)

=============================================================================
