-------------------------------- MODULE Xsct --------------------------------
(***************************************************************************)
(* The extensions concurrency test (xsct): the main thread creates the     *)
(* test threads, starts them and waits on a countdown latch; each thread   *)
(* connects, invalidates the cache, asks for days, disconnects and counts  *)
(* the latch down.  All of them report through one StatusUpdate, whose     *)
(* notifier has an observer that prints.                                   *)
(*                                                                         *)
(* The fields of the status and of the notifier are shared without a lock, *)
(* but for the mutex around the test of changed.  An action is what a      *)
(* thread does between two accesses to them: the interpreter may switch    *)
(* threads there.  Of the database only this matters: a statement succeeds *)
(* or raises an error, and as no statement is ever rolled back, after an   *)
(* error every later one of the connection raises one too.                 *)
(***************************************************************************)
EXTENDS Integers

CONSTANTS
  cc_threads,               \* the test threads
  cc_add_days_repetitions,  \* the calls of kq_add_days of each
  MayFailToConnect,         \* the threads whose connection may be refused
  MayFailToExecute          \* the threads whose statements may raise errors

ASSUME XsctAssumption ==
  /\ cc_threads \in Nat \ {0} /\ cc_add_days_repetitions \in Nat
  /\ MayFailToConnect \subseteq 1 .. cc_threads /\ MayFailToExecute \subseteq 1 .. cc_threads

Thread == 1 .. cc_threads
main   == 0
Caller == Thread \cup {main}

VARIABLES
  data, report,      \* StatusUpdate: the last status, and whether it is a report
  changed,           \* Observable.__changed
  prev_data,         \* StatusNotifier.__prev_data
  mutex,             \* the owner of Observable.mutex, or none
  emitting,          \* emitting[c]: where c is in StatusUpdate.emit
  as_report,         \* as_report[c]: its parameter report, then what the observer read of it
  seen,              \* seen[c]: the status it has read, between the read and its use
  pc,                \* pc[c]: what c does when emit has returned
  repetition,        \* repetition[t]: the loop of __add_days
  failed_tests,      \* failed_tests[t]
  connection,        \* connection[t]: its state, as the database sees it
  count,             \* CountdownLatch.__count
  printed            \* the completion lines on stdout, and whether each is a line

status   == <<data, report, changed, prev_data, mutex>>
emission == <<status, emitting, as_report, seen, printed>>
tests    == <<repetition, failed_tests, connection>>
vars     == <<emission, pc, tests, count>>

-----------------------------------------------------------------------------
(* The statuses: who emits, and what.  Every text names its thread, and the *)
(* time, so that those of a thread differ from each other.                 *)

Nobody == -1
Text   == {"none", "starting", "creating", "connecting", "connected", "invalidated",
           "added", "completed"}
Status == (Caller \cup {Nobody}) \X Text \X (0 .. cc_add_days_repetitions)

NoStatus   == <<Nobody, "none", 0>>
Completion == Thread \X {"completed"} \X {0}

Init ==
  /\ data = NoStatus /\ report = FALSE
  /\ changed = FALSE /\ prev_data = NoStatus
  /\ mutex = Nobody
  /\ emitting = [c \in Caller |-> "out"]
  /\ as_report = [c \in Caller |-> FALSE]
  /\ seen = [c \in Caller |-> NoStatus]
  /\ pc = [c \in Caller |-> IF c = main THEN "starting" ELSE "none"]
  /\ repetition = [t \in Thread |-> 0]
  /\ failed_tests = [t \in Thread |-> 0]
  /\ connection = [t \in Thread |-> "none"]
  /\ count = cc_threads
  /\ printed = {}

-----------------------------------------------------------------------------
(* StatusUpdate.emit *)

Ready(c, point) == emitting[c] = "out" /\ pc[c] = point

Goto(c, point) == pc' = [pc EXCEPT ![c] = point]

\* emit(text, is_report) is called: its first assignment.
Emit(c, text, is_report) ==
  /\ data' = text
  /\ as_report' = [as_report EXCEPT ![c] = is_report]
  /\ emitting' = [emitting EXCEPT ![c] = "report"]
  /\ UNCHANGED <<report, changed, prev_data, mutex, seen, printed>>

InEmit(c, here, there) ==
  /\ emitting[c] = here
  /\ emitting' = [emitting EXCEPT ![c] = there]
  /\ UNCHANGED <<data, pc, tests, count>>

SetReport(c) ==
  /\ InEmit(c, "report", "read")
  /\ report' = as_report[c]
  /\ UNCHANGED <<changed, prev_data, mutex, as_report, seen, printed>>

ReadStatus(c, here, there) ==
  /\ InEmit(c, here, there)
  /\ seen' = [seen EXCEPT ![c] = data]
  /\ UNCHANGED <<status, as_report, printed>>

Forget(c) == seen' = [seen EXCEPT ![c] = NoStatus]

\* Only a status that differs from the one last taken note of is notified.
Compare(c) ==
  /\ InEmit(c, "compare", IF seen[c] \notin {NoStatus, prev_data} THEN "set_changed" ELSE "out")
  /\ Forget(c)
  /\ UNCHANGED <<status, as_report, printed>>

SetChanged(c) ==
  /\ InEmit(c, "set_changed", "acquire")
  /\ changed' = TRUE
  /\ UNCHANGED <<report, prev_data, mutex, as_report, seen, printed>>

Acquire(c) ==
  /\ InEmit(c, "acquire", "test")
  /\ mutex = Nobody /\ mutex' = c
  /\ UNCHANGED <<report, changed, prev_data, as_report, seen, printed>>

TestChanged_NoRelease(c) ==
  /\ InEmit(c, "test", IF changed THEN "clear" ELSE "note")
  /\ UNCHANGED <<status, as_report, seen, printed>>

TestChanged_ReleasesEarly(c) ==
  /\ InEmit(c, "test", IF changed THEN "clear" ELSE "note")
  /\ mutex' = Nobody
  /\ UNCHANGED <<report, changed, prev_data, as_report, seen, printed>>

\* Observable.notify_observers returns where another caller has cleared changed.
TestChanged(c) ==
  /\ InEmit(c, "test", IF changed THEN "clear" ELSE "note")
  /\ mutex' = IF changed THEN c ELSE Nobody
  /\ UNCHANGED <<report, changed, prev_data, as_report, seen, printed>>

ClearChanged(c) ==
  /\ InEmit(c, "clear", "update")
  /\ changed' = FALSE /\ mutex' = Nobody
  /\ UNCHANGED <<report, prev_data, as_report, seen, printed>>

\* StatusUpdateObserver.update reads the report and the status of the moment.
Update(c) ==
  /\ InEmit(c, "update", "print")
  /\ as_report' = [as_report EXCEPT ![c] = report]
  /\ UNCHANGED <<status, seen, printed>>

PrintStatus(c) ==
  /\ InEmit(c, "print", "note")
  /\ printed' = printed \cup {<<line, as_report[c]>> : line \in {data} \cap Completion}
  /\ UNCHANGED <<status, as_report, seen>>

\* The status of now, not the one printed, is taken for the one last shown.
Note(c) ==
  /\ InEmit(c, "noted", "out")
  /\ prev_data' = seen[c] /\ Forget(c)
  /\ UNCHANGED <<report, changed, mutex, as_report, printed>>

Emission(c) ==
  \/ SetReport(c) \/ ReadStatus(c, "read", "compare") \/ Compare(c)
  \/ SetChanged(c) \/ Acquire(c) \/ TestChanged(c) \/ ClearChanged(c)
  \/ Update(c) \/ PrintStatus(c) \/ ReadStatus(c, "note", "noted") \/ Note(c)

-----------------------------------------------------------------------------
(* A test thread *)

Connecting(t) ==
  /\ Ready(t, "connecting") /\ Goto(t, "connect")
  /\ Emit(t, <<t, "connecting", 0>>, FALSE)
  /\ UNCHANGED <<tests, count>>

\* psycopg2.connect; nothing catches its exception, and the thread ends.
Connect(t) ==
  /\ Ready(t, "connect")
  /\ \/ /\ connection' = [connection EXCEPT ![t] = "open"]
        /\ Goto(t, "invalidate")
        /\ Emit(t, <<t, "connected", 0>>, FALSE)
     \/ /\ t \in MayFailToConnect
        /\ Goto(t, "dead")
        /\ UNCHANGED <<emission, connection>>
  /\ UNCHANGED <<repetition, failed_tests, count>>

\* cursor().execute: an exception is caught and counted, and both outcomes are
\* reported; the aborted transaction is never rolled back.
Statement(t, text) ==
  /\ \/ connection[t] = "open" /\ UNCHANGED <<failed_tests, connection>>
     \/ /\ t \in MayFailToExecute
        /\ connection' = [connection EXCEPT ![t] = "failed"]
        /\ failed_tests' = [failed_tests EXCEPT ![t] = @ + 1]
  /\ Emit(t, text, TRUE)

InvalidateCache(t) ==
  /\ Ready(t, "invalidate") /\ Goto(t, "add_days")
  /\ Statement(t, <<t, "invalidated", 0>>)
  /\ UNCHANGED <<repetition, count>>

AddDays(t) ==
  /\ Ready(t, "add_days") /\ repetition[t] < cc_add_days_repetitions
  /\ repetition' = [repetition EXCEPT ![t] = @ + 1]
  /\ Statement(t, <<t, "added", repetition[t]>>)
  /\ UNCHANGED <<pc, count>>

Disconnect(t) ==
  /\ Ready(t, "add_days") /\ repetition[t] = cc_add_days_repetitions
  /\ connection' = [connection EXCEPT ![t] = "closed"]
  /\ Goto(t, "completed")
  /\ UNCHANGED <<emission, repetition, failed_tests, count>>

Completed(t) ==
  /\ Ready(t, "completed") /\ Goto(t, "countdown")
  /\ Emit(t, <<t, "completed", 0>>, TRUE)
  /\ UNCHANGED <<tests, count>>

\* Who waits on the condition is woken.
Woken == [pc EXCEPT ![main] = IF @ = "waiting" THEN "done" ELSE @]

countdown_NotifiesEach(t) ==
  /\ Ready(t, "countdown")
  /\ count' = IF count = 0 THEN 0 ELSE count - 1
  /\ pc' = [Woken EXCEPT ![t] = "end"]
  /\ UNCHANGED <<emission, tests>>

\* CountdownLatch.countdown, under the condition's lock.
countdown(t) ==
  /\ Ready(t, "countdown")
  /\ count' = IF count = 0 THEN 0 ELSE count - 1
  /\ pc' = [(IF count = 1 THEN Woken ELSE pc) EXCEPT ![t] = "end"]
  /\ UNCHANGED <<emission, tests>>

ThreadMain(t) ==
  \/ Connecting(t) \/ Connect(t) \/ InvalidateCache(t) \/ AddDays(t)
  \/ Disconnect(t) \/ Completed(t) \/ countdown(t)

-----------------------------------------------------------------------------
(* The main thread *)

Starting ==
  /\ Ready(main, "starting") /\ Goto(main, "create")
  /\ Emit(main, <<main, "starting", 0>>, TRUE)
  /\ UNCHANGED <<tests, count>>

\* IMCXThread.__init__ emits; the threads are created one by one.
Create(t) ==
  /\ Ready(main, "create")
  /\ pc[t] = "none" /\ \A other \in Thread : other < t => pc[other] # "none"
  /\ Goto(t, "created")
  /\ Emit(main, <<t, "creating", 0>>, FALSE)
  /\ UNCHANGED <<tests, count>>

Created ==
  /\ Ready(main, "create") /\ \A t \in Thread : pc[t] # "none"
  /\ Goto(main, "start")
  /\ UNCHANGED <<emission, tests, count>>

Start(t) ==
  /\ Ready(main, "start")
  /\ pc[t] = "created" /\ \A other \in Thread : other < t => pc[other] # "created"
  /\ Goto(t, "connecting")
  /\ UNCHANGED <<emission, tests, count>>

wait_Untested ==
  /\ Ready(main, "start") /\ \A t \in Thread : pc[t] # "created"
  /\ Goto(main, "waiting")
  /\ UNCHANGED <<emission, tests, count>>

\* CountdownLatch.wait; then the main thread prints DONE.
wait ==
  /\ Ready(main, "start") /\ \A t \in Thread : pc[t] # "created"
  /\ Goto(main, IF count = 0 THEN "done" ELSE "waiting")
  /\ UNCHANGED <<emission, tests, count>>

MainThread == Starting \/ (\E t \in Thread : Create(t) \/ Start(t)) \/ Created \/ wait

Step(c) == Emission(c) \/ (c = main /\ MainThread) \/ (c \in Thread /\ ThreadMain(c))

Next == \E c \in Caller : Step(c)

Spec == Init /\ [][Next]_vars

\* The operating system runs every thread that can run; each statement returns.
FairSpec == Spec /\ \A c \in Caller : WF_vars(Step(c))

-----------------------------------------------------------------------------
(* Properties *)

\* The variables have their types; the mutex is owned exactly between acquire
\* and release, the early return in between included (try .. finally).
TypeOK ==
  /\ data \in Status /\ prev_data \in Status
  /\ report \in BOOLEAN /\ changed \in BOOLEAN
  /\ \A c \in Caller : mutex = c <=> emitting[c] \in {"test", "clear"}
  /\ mutex \in Caller \cup {Nobody}
  /\ emitting \in [Caller -> {"out", "report", "read", "compare", "set_changed", "acquire", "test",
                              "clear", "update", "print", "note", "noted"}]
  /\ seen \in [Caller -> Status]
  /\ as_report \in [Caller -> BOOLEAN]
  /\ pc \in [Caller -> {"starting", "create", "start", "waiting", "done", "none", "created",
                        "connecting", "connect", "invalidate", "add_days", "completed",
                        "countdown", "end", "dead"}]
  /\ repetition \in [Thread -> 0 .. cc_add_days_repetitions]
  /\ failed_tests \in [Thread -> 0 .. cc_add_days_repetitions + 1]
  /\ connection \in [Thread -> {"none", "open", "failed", "closed"}]
  /\ count \in 0 .. cc_threads
  /\ printed \subseteq Completion \X BOOLEAN

\* DONE comes last: the latch lets the main thread go only when every thread
\* has run its tests, has closed its connection and has finished printing,
\* though it tells the main thread nothing but a count.
DoneIsLast ==
  pc[main] = "done" =>
    \A t \in Thread : pc[t] = "end" /\ emitting[t] = "out" /\ connection[t] = "closed"

\* No wake-up is lost: the main thread waits only as long as some thread has yet
\* to count down, though the last may do so just before or while it calls wait.
NoLostWakeup == pc[main] = "waiting" => \E t \in Thread : pc[t] # "end"

\* However the unlocked reads and writes of the callers interleave, a change is
\* notified once: whoever clears changed finds it set still, though others set it
\* without the mutex, and none is left pending when nobody is emitting.
ChangeNotifiedOnce ==
  /\ \A c \in Caller : emitting[c] = "clear" => changed
  /\ (\A c \in Caller : emitting[c] = "out") => ~changed

\* The run ends unless a thread has died: no wake-up is lost where the last
\* thread counts down before the main thread waits, and a failing statement
\* does not keep a thread from counting down.
MainReturns == <>(pc[main] = "done" \/ \E t \in Thread : pc[t] = "dead")

-----------------------------------------------------------------------------
(* What the documentation says and the code does not do *)

\* "Output summary can be collected piping `stdout`." (README.md:254-255): when
\* the run is done, each thread's completion line has been printed.
CompletionsPrinted ==
  pc[main] = "done" => \A t \in Thread : \E line \in printed : line[1] = <<t, "completed", 0>>

=============================================================================
