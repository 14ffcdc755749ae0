# A TLA+ verification of the In-Memory Calendar Extension (IMCX)

IMCX keeps *calendars* - sorted lists of dates, such as the first days of
weeks or quarters - in PostgreSQL shared memory, and answers
`kq_add_days(date, n, calendar)`: the date `n` entries away from the entry
closest to `date` from the left.  The cache is filled from two tables by the
first call that finds it empty, is shared by all backends, and is dropped by
`kq_invalidate_calendar_cache()`.

This directory holds TLA+ modules of the cache, of its loading, of its arithmetic,
of the locks around it and of the project's concurrency test, the TLC
configurations that model-check them, and proofs that TLAPS checks.  Paths
are relative to `src/src/imcx/`, except where they start with `src/`.

## 1. Inventory

| component | state | operations | interacts through |
|---|---|---|---|
| cache population: `ensure_cache_populated`, `validate_compatible_db` (`pgxs/kq_imcx.c:157-382`) | none of its own | test `cache_filled`, check that the tables exist (Q0), take the LWLock exclusive, test again, Q1, `pg_cache_init`, Q2 with `pg_calendar_init` and `pg_set_calendar_name` per row, Q3 with the copy of the dates and `pg_init_page_size`, set `cache_filled`, release | LWLock, SPI queries, shared memory |
| cache structure (`include/common.h:43-66`, `calendar/cache.c`) | `IMCX` (array of calendars, counts, `min_calendar_id`, `cache_filled`) and the hash table of names | the functions above, `pg_get_calendar_id_by_name`, `pg_get_calendar`, `cache_invalidate` | shared memory: `ShmemAlloc` never gives back |
| readers (`kq_imcx.c:412-506`, `540-802`) | none | `calendar_info`, `calendar_report`, `add_calendar_days_by_id`, `add_calendar_days_by_name` | population first, then the LWLock shared |
| invalidation (`kq_imcx.c:509-538`, `cache.c:195-224`) | none | test `cache_filled`, LWLock exclusive, test again, `cache_invalidate` | LWLock |
| calendar arithmetic (`cache.c:110-193`, `calendar/math.c`) | one `Calendar`: dates, page map | `pg_init_page_size`, `get_closest_index_from_left`, `left_binary_search`, `add_calendar_days` | called under the lock |
| start-up: `_PG_init`, `init_shared_memory`, `pg_init_hashtable` | the segment | zero the struct, create the hash table and the LWLock | hooks of the postmaster |
| settings: `init_gucs` (`kq_imcx.c:64-111`) | the query texts | bind settings to variables | read by the population |
| calendar tables | `plan.calendar`, `plan.calendar_date` | committed changes of other clients | MVCC snapshots, table locks |
| concurrency test XSCT (`src/concurrency-test/xsct`) | latch, shared status | start fifty threads, report | Python threads |
| SQL mapping, string helpers, unit tests (disabled), template, build files | - | - | not behaviour of the system |

What is hard here:

* **Races** - `cache_filled` is read without the lock, and the shared lock of a
  reader is taken some time after the cache was found or made filled; an
  invalidation may come in between.
* **Failure in the middle** - a fill runs four queries and thousands of writes
  under the exclusive lock.  Any query, any name that is there already and any
  `ShmemAlloc` may raise an error.  PostgreSQL then releases the lock, but what
  was written stays.
* **Snapshots** - ids, names and dates come from three queries of one statement,
  which may have begun long before it gets the lock.
* **Numeric edges** - pages of days before 2000-01-01, an inclusive and an
  exclusive end of one interval, a negative index with two meanings.
* **Waiting** - every call takes the lock, and must return; a fill waits for table
  locks while it has the LWLock, and no one detector sees both.
* **Foreign input** - the texts of the queries are settings that each session may
  change for itself, and the loops over their rows trust what they return.

What makes each part correct: a cache marked filled is the image of *one*
version of the tables; readers see it whole or not at all; nobody keeps the
lock; an answer comes from the calendar that was asked for; the page map and
the search find the closest date from the left; the loops over the rows never
write beyond the memory a calendar was given; no cycle of waits goes through the
LWLock; a call returns; the concurrency test prints DONE when, and only when, its
threads are done.

## 2. Modules

| module | what it is |
|---|---|
| `SharedCache` | population, structure, readers, invalidation, crash and restart: the core |
| `CalendarCache` | the abstract specification that `SharedCache` implements |
| `Loading` | the loops over the rows of Q1, Q2 and Q3, and the settings that hold the query texts |
| `TableLocks` | transactions of several statements, their table locks, the LWLock, the deadlock detector |
| `CalendarIndex` | one calendar: page map, search, `add_calendar_days` |
| `Xsct` | the concurrency test: threads, latch, status and notifier |
| `MC*` | table versions, databases, workloads and days for TLC |
| `SharedCacheProofs` | type correctness of `SharedCache` |
| `SharedCacheFillProofs` | lock discipline, consistency of the fill, the number of entries, stability for readers, answers by id, reports, no deadlock on the LWLock |
| `SharedCacheCleanProofs` | names, answers by name, lost calls and the refinement, where fills fail early or not at all |
| `LoadedWholeProofs` | what the loops over the rows leave is the image of the queries |
| `LoadingProofs`, `TableLocksProofs`, `CalendarIndexProofs`, `XsctProofs` | the theorems about those modules |

`Loading` and `TableLocks` look at the fill of `SharedCache` from two sides.  In
`SharedCache` a version of the tables is a function from ids to dates, an action
copies a whole calendar, and the races and failures around it are what matters;
`Loading` opens that action: one row per step, with the locals of the loop, NULLs
and queries that return anything, by a session that is alone with the cache
(the proof of `LockDiscipline` in `SharedCacheFillProofs` says it is).
`TableLocks` keeps of the cache only `cache_filled`, and adds what a session
holds besides the LWLock.

### SharedCache and the code

The variables `array` .. `names` are the fields of `IMCX` and its hash table;
`held[b]` is the LWLock as backend `b` holds it, `pc[b]`, `call[b]`,
`snapshot[b]` and `cursor[b]` are its place in the code, its arguments, its
statement's snapshot and the rows of a query it has not read.  `answer[b]`
is the outcome of its last call, with the dates the outcome was computed from.

An action is the code between two points where another backend can be
observed:

| code | actions |
|---|---|
| start of a statement | `Begin` |
| `kq_imcx.c:185-196`, 157-183 | `CheckFilled`, `Validate` |
| `kq_imcx.c:197-211` | `LockToFill`, `Recheck` |
| Q1 and `pg_cache_init` | `QueryIds` |
| Q2 and its rows | `QueryCounts`, `InitCalendar` (one per calendar), `CountsDone` |
| Q3 and its rows | `QueryEntries`, `CopyCalendar` (one per calendar), `FinishFill` |
| the readers | `LockToRead`, `Info`, `Report`, `AddDaysById`, `AddDaysByName` |
| `calendar_invalidate` | `CheckToInvalidate`, `LockToInvalidate`, `Invalidate` |
| another client's transaction | `Commit` |

An error is `Raise`: the transaction aborts, PostgreSQL releases the LWLocks,
and shared memory stays as it is.  `Crash` is a backend that follows the NULL
array, or divides by a page size of 0 and then follows a NULL page map: the
postmaster ends all sessions and starts on a new segment.  It is no action
of its own, but an outcome of the actions that can bring it about.

Choices:

* Statements run at READ COMMITTED and in a transaction of their own, so that
  a call has one snapshot; the read-only SPI queries all use it.  That is what
  makes ids, names and dates of one fill agree (the mutant of `GotoRows` takes
  a new snapshot per query, and `ByNameFromOneVersion` fails).
* `Tables[v]` is the answer of the queries on version `v`.  Calendars
  without dates are in the range of Q1 but not in Q2 and Q3.  NULLs are in
  `Loading`.  Calendar ids are not 0 (a SERIAL key).
* `ShmemAlloc` requests count one unit each, whatever their size; entries of
  the hash table are not counted, since the first hundred are reserved at start.
* A calendar is its id, its dates and whether its page map has been built.  How the
  map works is in `CalendarIndex`; here an answer is "the dates it was computed from".
* An id outside the array reads whatever lies there, and
  the answer is then `"undefined"`, or the server crashes.
* The LWLock is external.  `Free` allows a reader whenever no writer holds
  it: PostgreSQL lets a later reader pass a waiting writer.
* Assertions are those of a release build: none is evaluated.
* In `cache_invalidate` the branch for a calendar count of 0 is not reached:
  a filled cache has at least one calendar.
* `calendar_info`, `calendar_report`: what they report, not how it is formatted.

### CalendarIndex and the code

`InitPageSize`, `MapDate`, `MapDone` are `pg_init_page_size`
(`cache.c:110-148`), one `MapDate` per date.  `AddCalendarDays` is the head of
`add_calendar_days` and `get_closest_index_from_left` (`math.c:22-43`),
`Search` one iteration of `left_binary_search`, `SearchEnds` its return, and
`Answer` the rest of `add_calendar_days`.  `/` is C's division, which
truncates (`Quotient`); a sum that overflows an `int32` may wrap or not
(`Sum32`); the memory behind `dates[]` holds any value of `Beyond`.
`binary_search` is called by nobody and is left out.

### Loading and the code

`text[s]` holds the three C variables of session `s` (`kq_imcx.c:59-62`; that of
the validation query cannot change and is left out), `Set` is a client's `SET`,
and `BoundTo` the binding of settings to variables in `init_gucs`: two settings
share the variable of Q3.  `Begin` is `ensure_cache_populated` once it has the
lock (`kq_imcx.c:205-221`), `LoadIds` the row of Q1 and `pg_cache_init`, `CountRow`
one round of the loop over Q2 with `pg_calendar_init` and `pg_set_calendar_name`,
`EntryRow` one round of the loop over Q3 with the test whether the calendar is
complete and the errors of `pg_init_page_size`, `Finish` the end.  A text is what
it answers on the database of the behaviour: a sequence of rows of integers,
names and NULLs.  `Column` and `Int32` are `SPI_getbinval` and the conversion of a
Datum: a column that is missing, or NULL, counts as 0, as the code does not look
at `entry_is_null` (but for the ids of Q2).

A write outside the array, the dates or the page map, or through a NULL
pointer, is `Stray`: the behaviour goes to `"undefined"`, and from there to a new
server.  That is where the code has no defined outcome, and `RoomForEntries` says
when it cannot happen.  Ids are not so large that an `int32` overflows.

### TableLocks and the code

`lwlock`, `granted` and `queue` are the LWLock, the table locks and the queues of
the lock manager; `pc` is the place in `ensure_cache_populated`, in a reading
function or in `calendar_invalidate`.  The queries of a fill take `AccessShareLock` on
`plan.calendar` (Q1) and `plan.calendar_date` (Q2, Q3; Q2 locks both, and
`plan.calendar` is locked already), and keep it to the end of the transaction:
`FinishFill` releases the LWLock only.  `LockTable` stands for every statement of
another client that locks a table exclusively (`ALTER TABLE`, `TRUNCATE`,
`LOCK TABLE`).  The lock manager is external: requests queue, one is granted when
nobody before it and no holder conflicts, and `DetectDeadlock` aborts one session
of a minimal cycle of waits for *tables*.  `Fails` is any error, or a cancelled
`LOCK TABLE`.  Neither a wait for the LWLock nor the wait of a fill for a table can be
cancelled: PostgreSQL holds off interrupts in the former, and as long as the backend has
the LWLock.  The deadlock detector can abort a fill, since it raises an error.

### Xsct and the code

An action is what a thread does between two accesses to the shared fields of
`StatusUpdate` and `StatusNotifier`, which are not locked; Python may switch
threads there.  `Emit` .. `Note` are `StatusUpdate.emit`, `StatusNotifier` and
`Observable.notify_observers` with the observer of `suite.py`; `Connecting` ..
`countdown` is `__thread_main_target`; `Starting` .. `wait` is `main`.  A thread has one
connection in one transaction that is never rolled back, so that after one
failing statement every later one fails (`Statement`).  `__abort`, `__init_db`
and the creating and dropping of the extension are called by nobody.

## 3. Runs

All passing runs are exhaustive.

| run | instance | properties |
|---|---|---|
| `concurrent` | 2 backends, 2 versions of the tables with different ids, names and dates and a gap in the ids; no failures; 129,340 states | `FilledIsOneVersion`, `NamesExact`, `ByIdFromOneVersion`, `ByNameFromOneVersion`, `FillSucceeds`, `FilledOnlyDropped`, `FillsFromOwnSnapshot`, `ReportOfFilledCache`, `KeepsPromise` |
| `failing` | 2 backends, 3 versions (one with a name twice, one without tables), every query may fail, 14 allocations; 990,880 states | `TypeOK`, `LockDiscipline`, `FilledIsOneVersion`, `EntryCountExact`, `StableWhileRead` |
| `progress` | 2 backends, 3 versions (one empty, one whose minimum id is above the maximum), Q3 may fail; 269,796 states | `NoLockDeadlock`, `CallsReturn` |
| `index` | every sorted calendar of 1 to 4 entries of 9 days, every input of 16 days and interval of 6; `int32` of -128..127; 276,888 states | `TypeOK`, `PageMapExact`, `ReadsEntries`, `ClosestUpToLast`, `AnswerAsDocumented`, `SearchReturns` |
| `loading` | 2 sessions, 6 databases (a gap, one entry each, a NULL date, NULL ids, a NULL and an equal name, empty tables), 7 query texts and 7 settings of them; 578,963 states | `TypeOK`, `RoomForEntries`, `LoadedWhole` |
| `locks` | 3 sessions of 3 statements each, 4 workloads that keep calls, invalidations and table locks apart; 209,578 states | `TypeOK`, `NoHiddenDeadlock`, `TransactionsEnd` |
| `xsct` | 2 threads with 1 repetition and the main thread; the first may fail to connect and in each statement; 364,902 states | `TypeOK`, `DoneIsLast`, `NoLostWakeup`, `ChangeNotifiedOnce`, `MainReturns` |

Why the bounds suffice.  A race of the cache has a filler or an invalidator
and one more backend; every action of a third would be like that of the
second, and what holds of any number of backends is proved (section 5).  Two
versions tell old from new; two calendars tell the first row from the last.
14 allocations suffice for one fill (version 1 takes 8) and not for a second;
failed fills take memory too, so that it runs out at every kind of request.
The days of `index` lie on both sides of day 0 and of page boundaries of
16 and 32 days, give both page sizes, empty pages and equal dates; 4 entries
give the binary search three rounds.  The databases of `loading` have up to
three rows of Q3: a calendar that changes in the middle, one that ends, one
that has a row too many when Q2 or Q3 is replaced; two sessions, since one
sets what the other is then served.  In `locks` a deadlock has a filler, a
session with an exclusive lock and one that waits for either; three
statements are enough for a transaction that fills, reads and ends.  A race of
`Xsct` is between two callers of `emit`; the main thread is a third.

`locks` and `xsct` may stop: a session uses up its statements, a thread may
die of a refused connection.  In the other passing runs TLC checks for deadlock.

### Violation runs: what the documents say and the code does not do

| run | finding |
|---|---|
| `lost` | Backend 1 fills the cache, backend 2 invalidates it before backend 1 has the shared lock, and `kq_add_days_by_id` indexes the NULL array (`kq_imcx.c:688`, `cache.c:58`): the server restarts.  `README.md:70`: "Thread safe." |
| `retry` | A fill that fails after the first row of Q2 leaves names in the hash table; nothing removes them (invalidation refuses a cache that is not filled), so each later fill fails on "name already exists".  `README.md:137-138` says that a call loads the cache when an earlier load failed. |
| `index_future` | For an input after the last page and a positive interval the answer is the first date, not infinity (`include/cache.h:113`). |
| `locks_hidden` | In one transaction p1 has filled the cache, still locks `plan.calendar`, and waits for the shared LWLock (`kq_imcx.c:677`).  Meanwhile p2 has invalidated the cache and fills it again: it has the LWLock and its query queues behind the exclusive request of d1, which waits for p1.  p1 and p2 cannot be cancelled; only when d1 gives up its request does this end.  `README.md:70`: "Thread safe."  (With the workload `LockThenCall`, a session that has locked a table and then calls a function does the same with two sessions, neither of which can be cancelled.) |
| `validation_setting` | `kq.calendar.q_schema_validation` is bound to the variable of Q3 (`kq_imcx.c:104`): a session that sets it to a query that validates the schema loads that query's row into the cache of all sessions.  `kq_imcx.c:102` calls it the "Query to validate the existence of the required schemas." |

Six more disagreements are stated in the modules, without a run of their own; a
configuration with the property and these constants shows each:

| property | constants | what it shows |
|---|---|---|
| `FreshAfterInvalidate` (`SharedCache`) | those of `concurrent` | A statement that began before a commit fills the cache after the invalidation that followed the commit: the old dates are cached.  `README.md:207-208`: "After the function is executed, a fresh cache is available." |
| `ReportsCachedCalendars` (`SharedCache`) | those of `concurrent`, with `FailingQuery = {"q3"}` | A cache is filled, invalidated, and the next fill fails in Q3; a report that had found the first cache filled lists the remains, with the zeroed dates of `pg_calendar_init`.  `README.md:133`: "List the cached calendars." |
| `ByNameFromOneVersion` (`SharedCache`) | those of `retry` with two versions and `Tables <- RenamedVersions` | The names of a failed fill lead to a calendar that bears another name in the version that was filled later. |
| `ClosestFromLeft` (`CalendarIndex`) | those of `index_future` | For an input after the last date, on the last page, the search compares `dates[dates_size]` and may return an index after the last. |
| `BeforeFirstIsShifted` (`CalendarIndex`) | those of `index_future` | For an input before the first date and a positive interval the answer is the first date, whatever the interval: with one date and the interval 2 it is that date, where `include/cache.h:99-101` promises `INT32_MAX` for an interval that "is bigger and cannot be calculated", and with two dates and the interval 2 it is not the second.  The code treats every negative index as one that a negative interval has led to (`cache.c:174-179`). |
| `CompletionsPrinted` (`Xsct`) | those of `xsct` | Between the assignment of a thread's completion line and its printing another thread overwrites it: the line is lost.  `src/README.md:254-255` takes `stdout` for the summary. |

Disagreements that one step shows: the readers do not
test `cache_filled` again under the lock, so that in the window of `lost`
`calendar_info` reports an empty cache and `add_calendar_days_by_name` "does not
exist"; an invalidation does not load the cache again and frees no memory
(`kq_imcx--0.1.sql:14`); an id that is in no table is answered with an error,
a crash or the contents of other memory; an interval so large that the sum
overflows yields the first date; an answer on the left of the first date has the status
`RET_SUCCESS` where `include/cache.h:111` promises `RET_ADD_DAYS_NEGATIVE` (`cache.c:191`), which
no caller looks at; a thread of the concurrency test whose
connection is refused never counts the latch down (`imcx.py:102`), and the test
does not end.

### Properties

`FilledIsOneVersion` says that a filled cache is exactly what one committed
version yields when loaded whole; `NamesExact` and `EntryCountExact` add the
names and the count of entries (the pairs of a calendar and one of its dates) that
remain from earlier loads if anything is not reset.
`FillsFromOwnSnapshot` and `ReportOfFilledCache` tie a step to the version it
must be about: who marks the cache filled leaves its own snapshot in it, and a
report of a filled cache lists one version, though the report tests neither
`cache_filled` nor which elements of the array were filled.
`FillSucceeds`: without failing queries, and with memory, no legal sequence of
calls and commits makes a fill of a compatible database fail.
`NoLockDeadlock`: whatever calls are under way, one of them waits for no lock, or for
one that is free; it is the safety half of `CallsReturn`, which TLAPS can prove.
`StableWhileRead`, `FilledOnlyDropped`: action properties.  `KeepsPromise` is the
refinement of `CalendarCache`, with `content` the dates of a filled cache and
`reply[b]` the dates an answer came from.  It is checked without failures: with
them a report may show a half-loaded cache (`ReportsCachedCalendars`).

`ReadsEntries`, `ClosestUpToLast` and `AnswerAsDocumented` of `CalendarIndex` are restricted
to inputs up to the last date, for beyond it the code does what `ClosestFromLeft` and
`FutureIsInfinite` show.  `Shifted` is the promise of `include/cache.h:99-103`, which makes no
exception for an input before the first date; the code does, and so `AnswerAsDocumented`
leaves out the positive intervals there (`BeforeFirstIsShifted`).  Of the
statuses it checks that `RET_ADD_DAYS_POSITIVE` is returned exactly where the interval leads beyond the last date; the
other two the code does not return as documented.

`RoomForEntries`: as long as the three queries *fit together* (each calendar of
Q2 once, with a name and within Q1's range; Q3 with no more rows of a calendar in
a row than Q2 counted, in ascending order), no row makes the load write astray.
`LoadedWhole` compares what the loops leave with the image of the queries, said
without loops, where Q2 and Q3 also agree on the number of rows.  Both speak of all
earlier loads, failed or not, and of every setting; the databases `NullDate`,
`NullId`, `NullName` are there to show that the precondition is needed, and say
nothing else: what the code does with NULLs and with surplus rows no property excludes.

`NoHiddenDeadlock`: among any sessions that wait for each other, through the
LWLock or for tables, there are some that wait for each other for tables alone, so
that the detector sees them.  `TransactionsEnd`: every transaction ends, also where a
fill waits for a table, fails, or is the detector's victim.

`DoneIsLast` and `MainReturns` say that the latch, which tells the main thread only
a number, does so neither early nor never; `NoLostWakeup`, the safety half of
`MainReturns`, that it never waits for a notification that has gone by.  `ChangeNotifiedOnce` is about a
flag that is set without the mutex and cleared under it.

### Fairness

`FairSpec` of `SharedCache`: a backend that can go on does (weak fairness of
`Step(b)`); clients need not call, and tables need not change.  PostgreSQL
wakes the waiters of a released LWLock, and a query returns or fails.  The
LWLock does not queue readers behind a waiting writer, so a writer may starve
while calls keep arriving; `CallsReturn` therefore says: once no new call is
issued, every call returns and all backends stay idle.  `CalendarIndex` waits
for nothing: weak fairness of `Compute`.

`FairSpec` of `TableLocks`: weak fairness of each session's `Step` - the server
goes on with a statement, the lock manager grants what it can, and a client
that has nothing more to do ends its transaction - and of `DetectDeadlock`,
which PostgreSQL runs after `deadlock_timeout`.  No fairness of failing, of
cancelling or of beginning a statement.  A session has a bounded number of
statements, so that nobody starves behind ever new calls.

`FairSpec` of `Xsct`: weak fairness of each thread; the operating system runs every
thread that can run, and the mutex is held for a moment only.

## 4. Mutants

Each property of a passing run has a mutant: an operator beside the one it
alters (`Recheck_NoTest`, `DatesRead_NoReset`, `Free_ReadersEnter` ...) that
makes a plausible mistake there, and with which TLC finds the property
violated.

## 5. Proofs

All theorems are of the specification, for every value of the constants that the
named assumptions admit.

### SharedCache

From `TablesAssumption` (there is a first version; the ids of a version lie
between its minimum and maximum and are not 0; its dates are not empty;
memory is finite), for every set of backends, every number of versions, all
tables, any failing queries and any amount of memory:

| theorem | statement |
|---|---|
| `SharedCacheProofs!TypeCorrect` | `Spec => []TypeOK` |
| `SharedCacheFillProofs!LockCorrect` | `Spec => []LockDiscipline` |
| `SharedCacheFillProofs!FillCorrect` | `Spec => []FilledIsOneVersion` |
| `SharedCacheFillProofs!EntryCountCorrect` | `Spec => []EntryCountExact` |
| `SharedCacheFillProofs!SomeCallGoesOn` | `Spec => []NoLockDeadlock` |
| `SharedCacheFillProofs!ReadersUndisturbed` | `Spec => StableWhileRead` |
| `SharedCacheFillProofs!NeverRefilled` | `Spec => FilledOnlyDropped` |
| `SharedCacheFillProofs!ByIdCorrect` | `Spec => []ByIdFromOneVersion` |
| `SharedCacheFillProofs!FillsOwn` | `Spec => FillsFromOwnSnapshot` |
| `SharedCacheFillProofs!ReportsWhole` | `Spec => ReportOfFilledCache` |

*The argument.*  `TypeOK` is inductive; its clause that the rows of a query are
those of the statement's snapshot is what the row actions need.
`LockDiscipline` is inductive relative to it: an action moves to a point at
which the backend holds what it held, nothing, or a mode that was free
(`LockMove`).  `NoLockDeadlock` follows: who holds the lock is at a point where
it waits for none, and if nobody holds it, it is free for whoever waits.
`FilledIsOneVersion` is not inductive, for it says nothing
of a cache that is being filled.  `FillInvariant` adds, for each backend, how far
its fill is: the cache is not marked filled; from `q2` on the array is as large
as the version of the snapshot asks; calendars whose row of Q2 has been read
have their id, room for their dates and their name; those whose rows of Q3 have
been read have their dates and page map; all others are blank (`Built`,
`CalendarIn`).  When no row is left, that is `Holds` of the snapshot's version,
which is `FillsFromOwnSnapshot`.  By `LockDiscipline` a backend that fills is alone, so
nobody else's step can disturb its progress.  The action properties and
`ByIdFromOneVersion` follow: only a fill, which needs an unfilled cache and the
exclusive lock, an invalidation and a crash change the cache (`ChangesCache`); the
calendar that an id leads to in a filled cache is its own (`IndexedIsOwn`); and the
elements a report lists are those of `Holds` (`CachedOfVersion`).

`CountInvariant` adds the entry count to the progress of a fill: it is 0 at `q2`, the
number of entries of the calendars read so far at the rows of Q2 (`Announces`), and
that of all of them from `q3` on.  The number is the cardinality of a set of
pairs, so that one more calendar is a disjoint union with `1 .. n` (`MoreEntries`) and
no sum over a set, which would be a recursion, has to be reasoned about.

Where moreover memory suffices, the names of a version differ, and Q3 does not
fail - `FailsEarly`: a fill may end at missing tables, at Q0, Q1 or Q2, or at empty
tables, but not once a name has been entered -

| theorem of `SharedCacheCleanProofs` | statement |
|---|---|
| `NamesCorrect` | `Spec => []NamesExact` |
| `RetryCorrect` | `Spec => []RetryFindsNamesFree` |
| `ByNameCorrect` | `Spec => []ByNameFromOneVersion` |
| `Refines` | `Spec => KeepsPromise`: `SharedCache` implements `CalendarCache` |
| `NeverLostUnlessInvalidated` | `Spec /\ []NobodyInvalidates => []NeverLost`, where the ids that are asked for exist (`AskedExist`) |
| `FillsSucceed` | `Spec => []FillSucceeds`, where no fill can fail at all (`NoFailure`, as in `concurrent`) |

Each hypothesis is needed.  A failure of Q3 breaks the first four: `retry` has
one, `ReportsCachedCalendars` and `ByNameFromOneVersion` in section 3 are its other
consequences.  One invalidation breaks `NeverLost`, as `lost` shows, where
`FailsEarly` holds: the theorem says that it takes one.

*The argument.*  The invariant
`Clean` says where the hash table may have names at all: none while the cache is
neither filled nor being filled, those of the rows of Q2 read so far during a fill, and
those of the version in a filled cache.  So no name is found twice; a fill that
fails (`EndsEarly`) leaves no name and lists no calendar, though its array may
remain (`Empty`), and that is an unfilled cache for the next fill and for every reader.
`AllAnswered` carries what an answer by name came from.  For the refinement each step is
classified (`CleanStep`): an internal step leaves content and replies, an answer is a
reply of the content of the moment, `FinishFill` is the abstract fill with the version it
`Holds`, an invalidation and a crash drop the content.  `Safe` is what
`NeverLostUnlessInvalidated` needs: who is about to read has found or made the cache
filled, and only a step that invalidates could have changed that since.

### Loading

From `LoadingAssumption` (query texts answer with rows of integers, names and NULLs,
and names are no integers):

| theorem | statement |
|---|---|
| `LoadingProofs!TypeCorrect` | `Spec => []TypeOK` |
| `LoadingProofs!RoomCorrect` | `Spec => []RoomForEntries` |
| `LoadedWholeProofs!LoadCorrect` | `Spec => []LoadedWhole` |
| `LoadedWholeProofs!DefaultLoadCorrect` | `Spec => []DefaultLoadIsWhole`, where no session may set `q_schema_validation` |

*The argument.*  `LoadInvariant` says, of a load whose queries fit together: every
calendar that Q2 has counted has as many entries as counted (`Allocated`), and
`entry_count` is the distance of the row from the first one of its
calendar in a row, all of which are in place already (`Copying`).  Then the next row
has room, and a calendar that is complete is ordered, as `pg_init_page_size` needs.

`LoadedWhole` needs more: that nothing is missing, misplaced or counted twice at the
end.  `WholeInvariant` says, of queries that agree, what the first n rows have made of
the cache: `Counted(n)` for Q2, `Copied(n)` and `AtRow(n)` (the locals of the loop) for
Q3.  The rows of a calendar in Q3 are one block, which begins at `Start(c)` and is as
long as Q2 counts (`Block`); so a row's place in its calendar is its distance from
there (`PlaceInBlock`).  `Image` gives the n-th date of a calendar as that of the n-th
of its rows; the rank of a row is its place in the block (`RankInBlock`).  The total is
what Q2 announces, and as many as Q3 has rows: the blocks make a bijection between
announced entries and rows (`AnnouncedAll`).  TLC checked `WholeInvariant` on the
instance of `loading` before it was proved.  `DefaultLoadCorrect` adds that, without
the setting that shares the variable of Q3, a text other than the default is one
that the session has set under its own name (`GivenTexts`).

### CalendarIndex

From `IndexAssumption`, for calendars of any length and `int32` of any width:

| theorem of `CalendarIndexProofs` | statement |
|---|---|
| `TypeCorrect` | `Spec => []TypeOK`: no write outside the page map |
| `PageMapCorrect` | `Spec => []PageMapExact` |
| `ReadsCorrect` | `Spec => []ReadsEntries` |
| `ClosestCorrect` | `Spec => []ClosestUpToLast` |
| `AnswerCorrect` | `Spec => []AnswerAsDocumented` |

*The argument.*  `MapInvariant` is the loop invariant of `pg_init_page_size`: the pages
up to `prev_page_index` point to the first date on them or after, and dates before
`date_index` are on those pages.  It needs that C's division is monotone
(`QuotientOrder`).  `SearchInvariant` is that of `left_binary_search`: dates left
of `left` are not after the input, dates right of `right` are (`Narrowed`).

### TableLocks

From `LocksAssumption`, for any sessions, workloads and number of statements:

| theorem of `TableLocksProofs` | statement |
|---|---|
| `TypeCorrect` | `Spec => []TypeOK` |
| `NoneHidden` | `Apart => (Spec => []NoHiddenDeadlock)` |

`Apart`: nobody locks a table; or who locks one does nothing else, and either nobody
invalidates the cache or one session alone calls.  The workloads of `locks` are of that
kind; those of `locks_hidden` are not, and the theorem's conclusion fails there.

*The argument.*  `LocksInvariant`: a session has one request at most, and asks where
its `pc` says (`QueueInvariant`); the LWLock is held as the `pc` says (`LWInvariant`);
who holds a share lock calls, who holds an exclusive one locks (`Kept`); who
holds a share lock outside of a fill has left the cache filled, unless somebody
invalidates (`FillState`).  In a set of sessions that wait for each other, take those
that wait for tables.  The holder of the LWLock is one of them, as it waits for
tables or not at all (`HolderWaits`).  Who waits for the LWLock keeps nobody from a
table while the holder waits for one (`WaiterBlocksNobody`): it would have to hold a
share lock of an earlier fill, and the cache would still be filled.  So those
that wait for tables are kept from them by one another.

### Xsct

From `XsctAssumption`, for any number of threads and repetitions:

| theorem of `XsctProofs` | statement |
|---|---|
| `TypeCorrect` | `Spec => []TypeOK` |
| `NotifiedOnce` | `Spec => []ChangeNotifiedOnce` |
| `DoneLast` | `Spec => []DoneIsLast` |
| `WakesMain` | `Spec => []NoLostWakeup` |

*The argument.*  `NotifierInvariant`: the mutex is owned by who tests or clears, and a
change that is set has somebody on the way to clear it.  `LatchInvariant`: the count is
the number of threads that have not counted down; who has counted down has
closed its connection and left `emit`; and the main thread waits only while the count
is not 0.  `TypeOK` bounds the failures of a thread; `TestType` makes that
inductive: there is at most one for the invalidation and one for each repetition so far.

### Only model-checked

The liveness properties `CallsReturn`, `SearchReturns`, `TransactionsEnd` and
`MainReturns`: liveness under fairness is out of the prover's reach.  Of three
of them the safety half is proved, that there is no state in which everybody waits for
somebody else and nobody would ever end it (`SomeCallGoesOn` for `CallsReturn`, `NoneHidden`
for `TransactionsEnd`, `WakesMain` for `MainReturns`).

The properties of the violation runs do not hold of `Spec`.  For three of them a theorem
says where they do: `RetryCorrect`, `NeverLostUnlessInvalidated` and
`DefaultLoadCorrect`.

## 6. Not modelled

* `_PG_init`'s check of the preload and the chain of hooks: they run once, in one
  process, before any backend exists.
* Settings from a configuration file, and their values after a rolled-back
  transaction: `SET` within a session is what the code's binding can be seen by.
* Text: number formatting, the buffers of `calendar_report`, log messages, and
  the folding of names to lower case, which the extension does byte by byte and Q2
  with the database's `LOWER`.
* An `int32` that overflows in the ids or the sizes of `Loading`.
* `popuplate_hash` (called by nobody; it would keep the lock), `binary_search`; of
  the concurrency test `__abort`, `__init_db`, `__create_extension`,
  `__drop_extension`, called by nobody.
* The SQL declarations (`STRICT` keeps NULL arguments away), the disabled unit tests,
  the extension template and the build files have no behaviour of the system.

With these the code that keeps state or decides something is covered.  What could
still be added is one module that runs `Loading` and `SharedCache` in step: a load row
by row as an implementation of the calendar by calendar one.
