----------------------------- MODULE XsctProofs -----------------------------
(***************************************************************************)
(* What holds of the concurrency test for every number of threads and of   *)
(* repetitions, and whatever connections and statements fail: the latch    *)
(* lets the main thread go last, and a change is notified once.            *)
(***************************************************************************)
EXTENDS Xsct, FiniteSets, FiniteSetTheorems, TLAPS

-----------------------------------------------------------------------------
(* The notifier *)

\* Whoever tests or clears changed owns the mutex, and a change that is set
\* has somebody on the way to clear it.
NotifierInvariant ==
  /\ DOMAIN emitting = Caller
  /\ \A c \in Caller : mutex = c <=> emitting[c] \in {"test", "clear"}
  /\ \A c \in Caller : emitting[c] = "clear" => changed
  /\ changed => \E c \in Caller : emitting[c] \in {"acquire", "test", "clear"}

\* Outside of the mutex, and not at its door.
Apart(here) == here \notin {"acquire", "test", "clear"}

LEMMA NotifierStart == Init => NotifierInvariant
<1> SUFFICES ASSUME Init PROVE NotifierInvariant
  OBVIOUS
<1>1. \A c \in Caller : emitting[c] = "out" /\ mutex # c
  <2>1. \A c \in Caller : c # Nobody
    BY XsctAssumption DEF Caller, Thread, main, Nobody
  <2> QED
    BY <2>1 DEF Init
<1>2. DOMAIN emitting = Caller /\ ~changed
  BY DEF Init
<1> QED
  BY <1>1, <1>2 DEF NotifierInvariant

\* A caller that moves apart from the mutex.
LEMMA ApartNotifies ==
  ASSUME NotifierInvariant, NEW c \in Caller, NEW there, Apart(emitting[c]), Apart(there),
         emitting' = [emitting EXCEPT ![c] = there], UNCHANGED <<mutex, changed>>
  PROVE  NotifierInvariant'
  BY DEF NotifierInvariant, Apart

LEMMA NotifierEmission ==
  ASSUME NotifierInvariant, NEW c \in Caller, Emission(c)
  PROVE  NotifierInvariant'
<1>1. CASE \/ SetReport(c) \/ ReadStatus(c, "read", "compare") \/ Compare(c)
           \/ Update(c) \/ PrintStatus(c) \/ ReadStatus(c, "note", "noted") \/ Note(c)
  <2>1. PICK there : Apart(emitting[c]) /\ Apart(there) /\ emitting' = [emitting EXCEPT ![c] = there]
                     /\ UNCHANGED <<mutex, changed>>
    <3>1. CASE Compare(c)
      <4>1. PICK there \in {"set_changed", "out"} : emitting' = [emitting EXCEPT ![c] = there]
        BY <3>1 DEF Compare, InEmit
      <4> QED
        BY <3>1, <4>1 DEF Compare, InEmit, Apart, status
    <3>2. CASE \/ SetReport(c) \/ ReadStatus(c, "read", "compare")
      BY <3>2 DEF SetReport, ReadStatus, InEmit, Apart, status
    <3>3. CASE Update(c) \/ PrintStatus(c) \/ ReadStatus(c, "note", "noted") \/ Note(c)
      BY <3>3 DEF Update, PrintStatus, ReadStatus, Note, InEmit, Apart, status
    <3> QED
      BY <1>1, <3>1, <3>2, <3>3
  <2> QED
    BY <2>1, ApartNotifies
<1>2. CASE SetChanged(c)
  BY <1>2 DEF SetChanged, InEmit, NotifierInvariant
<1>3. CASE Acquire(c)
  <2>1. \A d \in Caller : d # Nobody
    BY XsctAssumption DEF Caller, Thread, main, Nobody
  <2> QED
    BY <1>3, <2>1 DEF Acquire, InEmit, NotifierInvariant
<1>4. CASE TestChanged(c)
  <2>1. \A d \in Caller : d # Nobody
    BY XsctAssumption DEF Caller, Thread, main, Nobody
  <2> QED
    BY <1>4, <2>1 DEF TestChanged, InEmit, NotifierInvariant
<1>5. CASE ClearChanged(c)
  <2>1. \A d \in Caller : d # Nobody
    BY XsctAssumption DEF Caller, Thread, main, Nobody
  <2> QED
    BY <1>5, <2>1 DEF ClearChanged, InEmit, NotifierInvariant
<1> QED
  BY <1>1, <1>2, <1>3, <1>4, <1>5 DEF Emission

\* A step outside of emit, or a call of it.
LEMMA CallNotifies ==
  ASSUME NotifierInvariant, NEW c \in Caller, emitting[c] = "out", NEW text, NEW is_report,
         Emit(c, text, is_report) \/ UNCHANGED emission
  PROVE  NotifierInvariant'
<1>1. CASE Emit(c, text, is_report)
  BY <1>1, ApartNotifies DEF Emit, Apart
<1>2. CASE UNCHANGED emission
  BY <1>2 DEF emission, status, NotifierInvariant
<1> QED
  BY <1>1, <1>2

LEMMA NotifierStep == NotifierInvariant /\ [Next]_vars => NotifierInvariant'
<1> SUFFICES ASSUME NotifierInvariant, [Next]_vars PROVE NotifierInvariant'
  OBVIOUS
<1>1. CASE UNCHANGED vars
  BY <1>1 DEF vars, emission, status, NotifierInvariant
<1>2. ASSUME NEW c \in Caller, Emission(c) PROVE NotifierInvariant'
  BY <1>2, NotifierEmission
<1>3. main \in Caller /\ Thread \subseteq Caller
  BY DEF Caller
<1>4. CASE MainThread
  BY <1>3, <1>4, CallNotifies DEF MainThread, Starting, Create, Created, Start, wait, Ready
<1>5. ASSUME NEW t \in Thread, ThreadMain(t) PROVE NotifierInvariant'
  BY <1>3, <1>5, CallNotifies DEF ThreadMain, Connecting, Connect, InvalidateCache, AddDays,
     Statement, Disconnect, Completed, countdown, Ready
<1> QED
  BY <1>1, <1>2, <1>4, <1>5 DEF Next, Step

\* A change is notified once, for every number of callers: whoever clears
\* changed finds it set, and none is left pending when nobody is emitting.
THEOREM NotifiedOnce == Spec => []ChangeNotifiedOnce
<1>1. NotifierInvariant => ChangeNotifiedOnce
  BY DEF NotifierInvariant, ChangeNotifiedOnce
<1> QED
  BY <1>1, NotifierStart, NotifierStep, PTL DEF Spec

-----------------------------------------------------------------------------
(* The latch *)

Running == {t \in Thread : pc[t] # "end"}

\* The latch counts the threads that have not ended; a thread ends out of emit
\* and with a closed connection.
LatchInvariant ==
  /\ DOMAIN emitting = Caller /\ DOMAIN pc = Caller /\ DOMAIN connection = Thread
  /\ count = Cardinality(Running)
  /\ pc[main] = "done" => Running = {}
  /\ pc[main] = "waiting" => Running # {}
  /\ \A t \in Thread : pc[t] = "end" => emitting[t] = "out"
  /\ \A t \in Thread : pc[t] \in {"completed", "countdown", "end"} => connection[t] = "closed"

LEMMA Callers == main \in Caller /\ Thread \subseteq Caller /\ main \notin Thread
  BY XsctAssumption DEF Caller, Thread, main

LEMMA FiniteRunning == IsFiniteSet(Running) /\ Cardinality(Running) \in Nat
<1>1. IsFiniteSet(Thread)
  BY XsctAssumption, FS_Interval DEF Thread
<1>2. IsFiniteSet(Running)
  BY <1>1, FS_Subset DEF Running
<1> QED
  BY <1>2, FS_CardinalityType

LEMMA LatchStart == Init => LatchInvariant
<1> SUFFICES ASSUME Init PROVE LatchInvariant
  OBVIOUS
<1>1. /\ DOMAIN emitting = Caller /\ DOMAIN pc = Caller /\ DOMAIN connection = Thread
      /\ pc[main] = "starting" /\ \A t \in Thread : pc[t] = "none"
  BY Callers DEF Init
<1>2. Running = Thread
  BY <1>1 DEF Running
<1>3. count = Cardinality(Thread)
  BY XsctAssumption, FS_Interval DEF Init, Thread
<1> QED
  BY <1>1, <1>2, <1>3 DEF LatchInvariant

\* A step that ends no thread.
LEMMA EndsNone ==
  ASSUME LatchInvariant, DOMAIN emitting' = Caller, DOMAIN pc' = Caller, DOMAIN connection' = Thread,
         UNCHANGED count, pc'[main] = "done" => Running = {},
         pc'[main] = "waiting" => Running # {},
         \A t \in Thread :
           /\ pc'[t] = "end" <=> pc[t] = "end"
           /\ pc[t] = "end" => emitting'[t] = emitting[t] /\ connection'[t] = connection[t]
           /\ pc'[t] \in {"completed", "countdown"} => connection'[t] = "closed"
  PROVE  LatchInvariant'
<1>1. Running' = Running
  BY DEF Running
<1>2. \A t \in Thread : pc'[t] = "end" => emitting'[t] = "out"
  BY DEF LatchInvariant
<1>3. \A t \in Thread : pc'[t] \in {"completed", "countdown", "end"} => connection'[t] = "closed"
  BY DEF LatchInvariant
<1> QED
  BY <1>1, <1>2, <1>3 DEF LatchInvariant

LEMMA LatchEmission ==
  ASSUME LatchInvariant, NEW c \in Caller, Emission(c)
  PROVE  LatchInvariant'
<1>1. PICK here, there : InEmit(c, here, there) /\ here # "out"
  BY DEF Emission, SetReport, ReadStatus, Compare, SetChanged, Acquire, TestChanged, ClearChanged,
         Update, PrintStatus, Note
<1>2. UNCHANGED <<pc, connection, count>> /\ DOMAIN emitting' = Caller
  BY <1>1 DEF InEmit, tests, LatchInvariant
<1>3. \A t \in Thread : pc[t] = "end" => emitting'[t] = emitting[t]
  BY <1>1, Callers DEF InEmit, LatchInvariant
<1> QED
  BY <1>2, <1>3, EndsNone DEF LatchInvariant

LEMMA LatchMain ==
  ASSUME LatchInvariant, MainThread
  PROVE  LatchInvariant'
<1>1. UNCHANGED <<connection, count>>
  BY DEF MainThread, Starting, Create, Created, Start, wait, tests
<1>2. /\ DOMAIN emitting' = Caller
      /\ \A t \in Thread : emitting'[t] = emitting[t]
  BY Callers DEF MainThread, Starting, Create, Created, Start, wait, Emit, emission, LatchInvariant
<1>3. CASE Starting \/ Created
  BY <1>1, <1>2, <1>3, EndsNone, Callers DEF Starting, Created, Goto, LatchInvariant
<1>4. ASSUME NEW t \in Thread, Create(t) \/ Start(t) PROVE LatchInvariant'
  <2>1. PICK point \in {"created", "connecting"} : pc' = [pc EXCEPT ![t] = point]
    BY <1>4 DEF Create, Start, Goto
  <2>2. pc[t] \in {"none", "created"} /\ pc'[main] = pc[main]
    BY <1>4, <2>1, Callers DEF Create, Start, LatchInvariant
  <2> QED
    BY <1>1, <1>2, <2>1, <2>2, EndsNone, Callers DEF LatchInvariant
<1>5. CASE wait
  <2>1. pc'[main] = IF count = 0 THEN "done" ELSE "waiting"
    BY <1>5, Callers DEF wait, Goto, LatchInvariant
  <2>2. \A t \in Thread : pc'[t] = pc[t]
    BY <1>5, Callers DEF wait, Goto, LatchInvariant
  <2>3. DOMAIN pc' = Caller
    BY <1>5 DEF wait, Goto, LatchInvariant
  <2>4. Running = {} <=> count = 0
    BY FiniteRunning, FS_EmptySet DEF LatchInvariant
  <2> QED
    BY <1>1, <1>2, <2>1, <2>2, <2>3, <2>4, EndsNone DEF LatchInvariant
<1> QED
  BY <1>3, <1>4, <1>5 DEF MainThread

LEMMA LatchCountdown ==
  ASSUME LatchInvariant, NEW t \in Thread, countdown(t)
  PROVE  LatchInvariant'
<1>1. /\ pc[t] = "countdown" /\ emitting[t] = "out" /\ connection[t] = "closed"
      /\ UNCHANGED <<emitting, connection>> /\ t # main /\ t \in Caller /\ main \in Caller
  BY Callers DEF countdown, Ready, emission, tests, LatchInvariant
<1>2. \A c \in Caller : pc'[c] = IF c = t THEN "end"
                                 ELSE IF count = 1 /\ c = main /\ pc[c] = "waiting" THEN "done" ELSE pc[c]
  BY <1>1 DEF countdown, Woken, LatchInvariant
<1>3. Running' = Running \ {t} /\ t \in Running
  BY <1>1, <1>2, Callers DEF Running
<1>4. count \in Nat /\ count = Cardinality(Running) /\ count # 0
  BY <1>3, FiniteRunning, FS_EmptySet DEF LatchInvariant
<1>5. Cardinality(Running') = count - 1 /\ count' = count - 1
  BY <1>3, <1>4, FiniteRunning, FS_RemoveElement DEF countdown
<1>6. pc'[main] = "done" => Running' = {}
  <2>1. CASE count = 1
    <3>1. IsFiniteSet(Running \ {t}) /\ Cardinality(Running \ {t}) = 0
      BY <1>3, <1>5, <2>1, FiniteRunning, FS_RemoveElement
    <3> QED
      BY <1>3, <3>1, FS_EmptySet
  <2>2. CASE count # 1
    BY <1>1, <1>2, <1>3, <2>2 DEF LatchInvariant
  <2> QED
    BY <2>1, <2>2
<1>7. \A u \in Thread : pc'[u] = IF u = t THEN "end" ELSE pc[u]
  BY <1>1, <1>2, Callers
<1>8. DOMAIN pc' = Caller
  BY DEF countdown, Woken, LatchInvariant
<1>9. pc'[main] = "waiting" => Running' # {}
  <2>1. CASE count = 1
    BY <1>1, <1>2, <2>1
  <2>2. CASE count # 1
    BY <1>4, <1>5, <2>2, FS_EmptySet
  <2> QED
    BY <2>1, <2>2
<1> QED
  BY <1>1, <1>5, <1>6, <1>7, <1>8, <1>9 DEF LatchInvariant

LEMMA LatchThread ==
  ASSUME LatchInvariant, NEW t \in Thread, ThreadMain(t)
  PROVE  LatchInvariant'
<1>1. t \in Caller /\ t # main /\ main \in Caller
  BY Callers
<1>2. CASE Connecting(t) \/ Connect(t) \/ InvalidateCache(t) \/ AddDays(t) \/ Disconnect(t) \/ Completed(t)
  <2>1. /\ pc[t] \notin {"end", "countdown"} /\ UNCHANGED count
        /\ pc[t] = "completed" => UNCHANGED connection
    BY <1>2 DEF Connecting, Connect, InvalidateCache, AddDays, Disconnect, Completed, Ready, tests
  <2>2. DOMAIN emitting' = Caller /\ \A u \in Thread \ {t} : emitting'[u] = emitting[u]
    BY <1>1, <1>2, Callers DEF Connecting, Connect, InvalidateCache, AddDays, Statement, Disconnect,
       Completed, Emit, emission, LatchInvariant
  <2>3. DOMAIN connection' = Thread /\ \A u \in Thread \ {t} : connection'[u] = connection[u]
    BY <1>2 DEF Connecting, Connect, InvalidateCache, AddDays, Statement, Disconnect,
       Completed, tests, LatchInvariant
  <2>4. /\ DOMAIN pc' = Caller /\ \A c \in Caller \ {t} : pc'[c] = pc[c]
        /\ pc'[t] \in {"connect", "invalidate", "dead", "add_days", "completed", "countdown"}
    BY <1>1, <1>2 DEF Connecting, Connect, InvalidateCache, AddDays, Statement, Disconnect,
       Completed, Goto, Ready, LatchInvariant
  <2>5. pc'[t] \in {"completed", "countdown"} => connection'[t] = "closed"
    BY <1>1, <1>2 DEF Connecting, Connect, InvalidateCache, AddDays, Disconnect, Completed, Goto,
       Ready, tests, LatchInvariant
  <2>6. pc'[main] = pc[main] /\ \A u \in Thread \ {t} : pc'[u] = pc[u]
    BY <1>1, <2>4, Callers
  <2> QED
    BY <2>1, <2>2, <2>3, <2>4, <2>5, <2>6, EndsNone DEF LatchInvariant
<1> QED
  BY <1>2, LatchCountdown DEF ThreadMain

LEMMA LatchStep == LatchInvariant /\ [Next]_vars => LatchInvariant'
<1> SUFFICES ASSUME LatchInvariant, [Next]_vars PROVE LatchInvariant'
  OBVIOUS
<1>1. CASE UNCHANGED vars
  BY <1>1 DEF vars, emission, tests, LatchInvariant, Running
<1> QED
  BY <1>1, LatchEmission, LatchMain, LatchThread DEF Next, Step

\* DONE comes last, for every number of threads: when the main thread passes the
\* latch every thread has ended, out of emit and with its connection closed.
THEOREM DoneLast == Spec => []DoneIsLast
<1>1. LatchInvariant => DoneIsLast
  <2> SUFFICES ASSUME LatchInvariant, pc[main] = "done", NEW t \in Thread
               PROVE  pc[t] = "end" /\ emitting[t] = "out" /\ connection[t] = "closed"
    BY DEF DoneIsLast
  <2>1. pc[t] = "end"
    BY DEF LatchInvariant, Running
  <2> QED
    BY <2>1 DEF LatchInvariant
<1> QED
  BY <1>1, LatchStart, LatchStep, PTL DEF Spec

\* No wake-up is lost, for every number of threads: where the last thread counts
\* down before the main thread waits it does not wait, and else it wakes it.
THEOREM WakesMain == Spec => []NoLostWakeup
<1>1. LatchInvariant => NoLostWakeup
  BY DEF LatchInvariant, Running, NoLostWakeup
<1> QED
  BY <1>1, LatchStart, LatchStep, PTL DEF Spec

-----------------------------------------------------------------------------
(* Types *)

\* The part of TypeOK that emit changes; whose the mutex is, NotifierInvariant says.
EmissionType ==
  /\ data \in Status /\ prev_data \in Status
  /\ report \in BOOLEAN /\ changed \in BOOLEAN
  /\ mutex \in Caller \cup {Nobody}
  /\ emitting \in [Caller -> {"out", "report", "read", "compare", "set_changed", "acquire", "test",
                              "clear", "update", "print", "note", "noted"}]
  /\ seen \in [Caller -> Status]
  /\ as_report \in [Caller -> BOOLEAN]
  /\ printed \subseteq Completion \X BOOLEAN

Untested == {"none", "created", "connecting", "connect", "invalidate"}

\* The part that the tests change.  A thread has counted at most one failure for
\* each of its statements: the invalidation and the repetitions so far.
TestType ==
  /\ pc \in [Caller -> Untested \cup {"starting", "create", "start", "waiting", "done", "add_days",
                                      "completed", "countdown", "end", "dead"}]
  /\ repetition \in [Thread -> 0 .. cc_add_days_repetitions]
  /\ failed_tests \in [Thread -> Nat]
  /\ \A t \in Thread : failed_tests[t] <= repetition[t] + 1
  /\ \A t \in Thread : pc[t] \in Untested => failed_tests[t] = 0
  /\ connection \in [Thread -> {"none", "open", "failed", "closed"}]
  /\ count \in 0 .. cc_threads

LEMMA TypeParts == NotifierInvariant /\ EmissionType /\ TestType => TypeOK
<1> SUFFICES ASSUME NotifierInvariant, EmissionType, TestType PROVE TypeOK
  OBVIOUS
<1>1. ASSUME NEW t \in Thread PROVE failed_tests[t] \in 0 .. cc_add_days_repetitions + 1
  BY XsctAssumption DEF TestType
<1>2. failed_tests \in [Thread -> 0 .. cc_add_days_repetitions + 1]
  BY <1>1 DEF TestType
<1>3. \A c \in Caller : mutex = c <=> emitting[c] \in {"test", "clear"}
  BY DEF NotifierInvariant
<1>4. pc \in [Caller -> {"starting", "create", "start", "waiting", "done", "none", "created",
                         "connecting", "connect", "invalidate", "add_days", "completed",
                         "countdown", "end", "dead"}]
  BY DEF TestType, Untested
<1> QED
  BY <1>2, <1>3, <1>4 DEF EmissionType, TestType, TypeOK

LEMMA TextType ==
  ASSUME NEW c \in Caller \cup {Nobody}, NEW text \in Text, NEW n \in 0 .. cc_add_days_repetitions
  PROVE  <<c, text, n>> \in Status
  BY DEF Status

LEMMA NoStatusType == NoStatus \in Status
  BY TextType, XsctAssumption DEF NoStatus, Text

LEMMA TypeStart == Init => EmissionType /\ TestType
<1> SUFFICES ASSUME Init PROVE EmissionType /\ TestType
  OBVIOUS
<1>1. EmissionType
  BY NoStatusType DEF Init, EmissionType
<1>2. pc \in [Caller -> {"starting", "none"}]
  BY DEF Init
<1>3. count \in 0 .. cc_threads /\ 0 \in 0 .. cc_add_days_repetitions
  BY XsctAssumption DEF Init
<1>4. TestType
  BY <1>2, <1>3, Callers DEF Init, TestType, Untested
<1> QED
  BY <1>1, <1>4

\* What emit does to the status keeps its type.
LEMMA EmissionKeepsType ==
  ASSUME EmissionType, NEW c \in Caller, Emission(c)
  PROVE  EmissionType'
<1>1. CASE SetReport(c) \/ ReadStatus(c, "read", "compare") \/ ReadStatus(c, "note", "noted")
  BY <1>1 DEF SetReport, ReadStatus, InEmit, EmissionType, status
<1>2. CASE Compare(c)
  <2>1. /\ emitting' \in [Caller -> {"out", "report", "read", "compare", "set_changed", "acquire",
                                      "test", "clear", "update", "print", "note", "noted"}]
    BY <1>2 DEF Compare, InEmit, EmissionType
  <2>2. seen' \in [Caller -> Status]
    BY <1>2, NoStatusType DEF Compare, Forget, EmissionType
  <2> QED
    BY <1>2, <2>1, <2>2 DEF Compare, InEmit, EmissionType, status
<1>3. CASE SetChanged(c) \/ Acquire(c) \/ ClearChanged(c)
  BY <1>3 DEF SetChanged, Acquire, ClearChanged, InEmit, EmissionType
<1>4. CASE TestChanged(c)
  BY <1>4 DEF TestChanged, InEmit, EmissionType
<1>5. CASE Update(c)
  BY <1>5 DEF Update, InEmit, EmissionType, status
<1>6. CASE PrintStatus(c)
  <2>1. printed' \subseteq Completion \X BOOLEAN
    <3>1. as_report[c] \in BOOLEAN
      BY DEF EmissionType
    <3>2. {<<line, as_report[c]>> : line \in {data} \cap Completion} \subseteq Completion \X BOOLEAN
      BY <3>1
    <3> QED
      BY <1>6, <3>2 DEF PrintStatus, EmissionType
  <2> QED
    BY <1>6, <2>1 DEF PrintStatus, InEmit, EmissionType, status
<1>7. CASE Note(c)
  <2>1. seen' \in [Caller -> Status] /\ prev_data' \in Status
    BY <1>7, NoStatusType DEF Note, Forget, EmissionType
  <2> QED
    BY <1>7, <2>1 DEF Note, InEmit, EmissionType
<1> QED
  BY <1>1, <1>2, <1>3, <1>4, <1>5, <1>6, <1>7 DEF Emission

\* A call of emit, or none.
LEMMA CallKeepsType ==
  ASSUME EmissionType, NEW c \in Caller, NEW text \in Status, NEW is_report \in BOOLEAN,
         Emit(c, text, is_report) \/ UNCHANGED emission
  PROVE  EmissionType'
  BY DEF Emit, emission, status, EmissionType

LEMMA EmissionTypeStep == EmissionType /\ TestType /\ [Next]_vars => EmissionType'
<1> SUFFICES ASSUME EmissionType, TestType, [Next]_vars PROVE EmissionType'
  OBVIOUS
<1>1. ASSUME UNCHANGED emission PROVE EmissionType'
  BY <1>1 DEF emission, status, EmissionType
<1>2. ASSUME NEW c \in Caller, Emission(c) PROVE EmissionType'
  BY <1>2, EmissionKeepsType
<1>3. ASSUME NEW c \in Caller, NEW text \in Text, NEW n \in 0 .. cc_add_days_repetitions
      PROVE  <<c, text, n>> \in Status
  BY TextType
<1>4. 0 \in 0 .. cc_add_days_repetitions
  BY XsctAssumption
<1>5. CASE MainThread
  BY <1>1, <1>3, <1>4, <1>5, CallKeepsType, Callers
     DEF MainThread, Starting, Create, Created, Start, wait, Text
<1>6. ASSUME NEW t \in Thread, ThreadMain(t) PROVE EmissionType'
  <2>1. repetition[t] \in 0 .. cc_add_days_repetitions /\ t \in Caller
    BY Callers DEF TestType
  <2>2. CASE Connecting(t) \/ Connect(t)
    BY <1>1, <1>3, <1>4, <2>1, <2>2, CallKeepsType DEF Connecting, Connect, Text
  <2>3. CASE InvalidateCache(t) \/ AddDays(t)
    BY <1>3, <1>4, <2>1, <2>3, CallKeepsType DEF InvalidateCache, AddDays, Statement, Text
  <2>4. CASE Disconnect(t) \/ Completed(t) \/ countdown(t)
    BY <1>1, <1>3, <1>4, <2>1, <2>4, CallKeepsType DEF Disconnect, Completed, countdown, Text
  <2> QED
    BY <1>6, <2>2, <2>3, <2>4 DEF ThreadMain
<1> QED
  BY <1>1, <1>2, <1>5, <1>6 DEF Next, Step, vars

\* A step that moves a caller on, and counts no failure.
LEMMA MoveKeepsType ==
  ASSUME TestType, NEW c \in Caller,
         NEW point \in Untested \cup {"starting", "create", "start", "waiting", "done", "add_days",
                                      "completed", "countdown", "end", "dead"},
         pc' = [pc EXCEPT ![c] = point],
         c \in Thread /\ point \in Untested => pc[c] \in Untested,
         connection' \in [Thread -> {"none", "open", "failed", "closed"}],
         UNCHANGED <<repetition, failed_tests, count>>
  PROVE  TestType'
<1>1. \A t \in Thread : pc'[t] = IF t = c THEN point ELSE pc[t]
  BY Callers DEF TestType
<1>2. \A t \in Thread : pc'[t] \in Untested => failed_tests[t] = 0
  BY <1>1 DEF TestType
<1> QED
  BY <1>2 DEF TestType

LEMMA TestTypeMain ==
  ASSUME TestType, MainThread
  PROVE  TestType'
<1>1. connection \in [Thread -> {"none", "open", "failed", "closed"}]
  BY DEF TestType
<1>2. UNCHANGED <<tests, count>>
  BY DEF MainThread, Starting, Create, Created, Start, wait
<1>3. CASE Starting \/ Created \/ wait
  BY <1>1, <1>2, <1>3, MoveKeepsType, Callers DEF Starting, Created, wait, Goto, tests
<1>4. ASSUME NEW t \in Thread, Create(t) \/ Start(t) PROVE TestType'
  <2>1. PICK point \in {"created", "connecting"} : pc' = [pc EXCEPT ![t] = point]
    BY <1>4 DEF Create, Start, Goto
  <2>2. pc[t] \in Untested
    BY <1>4 DEF Create, Start, Untested
  <2> QED
    BY <1>1, <1>2, <2>1, <2>2, MoveKeepsType, Callers DEF tests, Untested
<1> QED
  BY <1>3, <1>4 DEF MainThread

LEMMA TestTypeThread ==
  ASSUME TestType, NEW t \in Thread, ThreadMain(t)
  PROVE  TestType'
<1>1. t \in Caller /\ t # main /\ main \in Caller
  BY Callers
<1>2. connection \in [Thread -> {"none", "open", "failed", "closed"}]
  BY DEF TestType
<1>3. CASE Connecting(t) \/ Completed(t)
  BY <1>1, <1>2, <1>3, MoveKeepsType DEF Connecting, Completed, Ready, Goto, tests, Untested
<1>4. CASE Connect(t) \/ Disconnect(t)
  <2>1. connection' \in [Thread -> {"none", "open", "failed", "closed"}]
    BY <1>2, <1>4 DEF Connect, Disconnect
  <2>2. PICK point \in {"invalidate", "dead", "completed"} : pc' = [pc EXCEPT ![t] = point]
    BY <1>4 DEF Connect, Disconnect, Goto
  <2>3. point \in Untested => pc[t] \in Untested
    <3>1. CASE Connect(t)
      BY <3>1 DEF Connect, Ready, Untested
    <3>2. CASE Disconnect(t)
      <4>1. pc'[t] = "completed" /\ pc'[t] = point
        BY <1>1, <2>2, <3>2 DEF Disconnect, Goto, TestType
      <4> QED
        BY <4>1 DEF Untested
    <3> QED
      BY <1>4, <3>1, <3>2
  <2> QED
    BY <1>1, <1>4, <2>1, <2>2, <2>3, MoveKeepsType DEF Connect, Disconnect, Untested
<1>5. CASE InvalidateCache(t) \/ AddDays(t)
  <2>1. connection' \in [Thread -> {"none", "open", "failed", "closed"}] /\ UNCHANGED count
    BY <1>2, <1>5 DEF InvalidateCache, AddDays, Statement
  <2>2. pc' = [pc EXCEPT ![t] = "add_days"]
    BY <1>1, <1>5 DEF InvalidateCache, AddDays, Goto, Ready, TestType
  <2>3. /\ failed_tests' \in [Thread -> Nat]
        /\ \A u \in Thread \ {t} : failed_tests'[u] = failed_tests[u]
        /\ failed_tests'[t] \in {failed_tests[t], failed_tests[t] + 1}
    <3>1. failed_tests \in [Thread -> Nat] /\ failed_tests[t] + 1 \in Nat
      BY DEF TestType
    <3>2. UNCHANGED failed_tests \/ failed_tests' = [failed_tests EXCEPT ![t] = failed_tests[t] + 1]
      BY <1>5 DEF InvalidateCache, AddDays, Statement
    <3> QED
      BY <3>1, <3>2
  <2>4. /\ repetition' \in [Thread -> 0 .. cc_add_days_repetitions]
        /\ \A u \in Thread \ {t} : repetition'[u] = repetition[u]
        /\ failed_tests'[t] <= repetition'[t] + 1
    <3>1. CASE InvalidateCache(t)
      <4>1. failed_tests[t] = 0 /\ repetition' = repetition /\ repetition[t] \in Nat
        BY <3>1 DEF InvalidateCache, Ready, Untested, TestType
      <4> QED
        BY <2>3, <4>1 DEF TestType
    <3>2. CASE AddDays(t)
      <4>1. /\ repetition[t] \in 0 .. cc_add_days_repetitions
            /\ repetition[t] + 1 \in 0 .. cc_add_days_repetitions
            /\ failed_tests[t] \in Nat /\ failed_tests[t] <= repetition[t] + 1
        BY <3>2, XsctAssumption DEF AddDays, TestType
      <4>2. repetition' = [repetition EXCEPT ![t] = repetition[t] + 1]
        BY <3>2 DEF AddDays
      <4>3. repetition'[t] = repetition[t] + 1
        BY <4>2 DEF TestType
      <4> QED
        BY <2>3, <4>1, <4>2, <4>3 DEF TestType
    <3> QED
      BY <1>5, <3>1, <3>2
  <2>5. \A u \in Thread : failed_tests'[u] <= repetition'[u] + 1
    BY <2>3, <2>4 DEF TestType
  <2>6. \A u \in Thread : pc'[u] = IF u = t THEN "add_days" ELSE pc[u]
    BY <2>2, Callers DEF TestType
  <2>7. \A u \in Thread : pc'[u] \in Untested => failed_tests'[u] = 0
    BY <2>3, <2>6 DEF TestType, Untested
  <2> QED
    BY <2>1, <2>2, <2>3, <2>4, <2>5, <2>7 DEF TestType
<1>6. CASE countdown(t)
  <2>1. count' \in 0 .. cc_threads /\ UNCHANGED tests
    BY <1>6, XsctAssumption DEF countdown, TestType
  <2>2. \A c \in Caller : pc'[c] \in {pc[c], "done", "end"}
    BY <1>1, <1>6 DEF countdown, Woken, TestType
  <2>3. DOMAIN pc' = Caller /\ pc' = [c \in Caller |-> pc'[c]]
    BY <1>6 DEF countdown, Woken, TestType
  <2>4. \A u \in Thread : pc'[u] \in Untested => pc[u] \in Untested
    BY <2>2, Callers DEF Untested
  <2> QED
    BY <2>1, <2>2, <2>3, <2>4 DEF TestType, tests
<1> QED
  BY <1>3, <1>4, <1>5, <1>6 DEF ThreadMain

LEMMA TestTypeStep == TestType /\ [Next]_vars => TestType'
<1> SUFFICES ASSUME TestType, [Next]_vars PROVE TestType'
  OBVIOUS
<1>1. ASSUME UNCHANGED <<pc, tests, count>> PROVE TestType'
  BY <1>1 DEF tests, TestType
<1>2. ASSUME NEW c \in Caller, Emission(c) PROVE TestType'
  <2>1. UNCHANGED <<pc, tests, count>>
    BY <1>2 DEF Emission, SetReport, ReadStatus, Compare, SetChanged, Acquire, TestChanged,
       ClearChanged, Update, PrintStatus, Note, InEmit
  <2> QED
    BY <1>1, <2>1
<1> QED
  BY <1>1, <1>2, TestTypeMain, TestTypeThread DEF Next, Step, vars

\* The variables have their types for every number of threads: no thread counts
\* more failures than it has executed statements, and the mutex is owned
\* exactly between acquire and release.
THEOREM TypeCorrect == Spec => []TypeOK
  BY NotifierStart, NotifierStep, TypeStart, EmissionTypeStep, TestTypeStep, TypeParts, PTL DEF Spec

=============================================================================
