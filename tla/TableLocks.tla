----------------------------- MODULE TableLocks -----------------------------
(***************************************************************************)
(* The two kinds of locks a calendar function takes.  The loading queries  *)
(* of ensure_cache_populated lock the calendar tables (AccessShareLock,    *)
(* kept to the end of the transaction) while the backend holds the LWLock  *)
(* of the cache; other sessions lock the tables exclusively (ALTER TABLE,  *)
(* TRUNCATE, LOCK TABLE).  PostgreSQL breaks cycles of waits for tables;   *)
(* a wait for an LWLock is not seen by its deadlock detector and cannot be *)
(* interrupted.                                                            *)
(*                                                                         *)
(* A session runs transactions of several statements.  Of the cache, only  *)
(* cache_filled is kept here: SharedCache has the rest.                    *)
(***************************************************************************)
EXTENDS Naturals, Sequences, FiniteSets, SequencesExt

CONSTANTS
  Session,         \* the sessions
  Workload,        \* the workloads: what each session does, of Statement
  MaxStatements    \* bound: the statements of a session

Statement == {"call", "invalidate", "lock"}

ASSUME LocksAssumption ==
  /\ Workload \subseteq [Session -> SUBSET Statement]
  /\ MaxStatements \in Nat

VARIABLES
  cache_filled,  \* imcx->cache_filled
  lwlock,        \* lwlock[s]: the mode in which s holds shared_memory_ptr->lock
  granted,       \* granted[s][t]: the lock s holds on table t
  queue,         \* queue[t]: the requests that wait for table t, first come first
  may,           \* the workload of this behaviour
  pc,            \* pc[s]: where s is
  statements     \* statements[s]: how many it has begun

locks == <<lwlock, granted, queue>>
vars  == <<cache_filled, locks, may, pc, statements>>

-----------------------------------------------------------------------------
Table == {"calendar", "calendar_date"}
Mode  == {"share", "exclusive"}

\* Between statements a session is "idle", or in a transaction and "open".
Point == {"idle", "open", "check", "lock_fill", "recheck", "q1", "q2", "q3", "filled",
          "lock_read", "read", "lock_invalidate", "invalidate", "lock"}

NoTable == [t \in Table |-> "none"]

Conflict(m, n) == m # "none" /\ n # "none" /\ "exclusive" \in {m, n}

Goto(s, point) == pc' = [pc EXCEPT ![s] = point]

(* The LWLock *)

LWMode(point) == IF point \in {"lock_fill", "lock_invalidate"} THEN "exclusive" ELSE "share"

\* The sessions that keep s from the LWLock; a backend that asks for a lock
\* it has already waits for itself.
LWBlockers(s) ==
  IF pc[s] \in {"lock_fill", "lock_invalidate", "lock_read"}
  THEN {h \in Session : Conflict(lwlock[h], LWMode(pc[s]))}
  ELSE {}

Acquire(s, next) ==
  /\ LWBlockers(s) = {}
  /\ lwlock' = [lwlock EXCEPT ![s] = LWMode(pc[s])]
  /\ Goto(s, next)

Release(s) == lwlock' = [lwlock EXCEPT ![s] = "none"]

(* The table locks *)

Waits(s, t) == \E i \in DOMAIN queue[t] : queue[t][i].session = s

\* Those that keep request i of table t waiting: who holds a conflicting
\* lock, and who asked for one before.
Before(t, i) == {queue[t][j].session : j \in {k \in 1 .. i - 1 :
                                       Conflict(queue[t][k].mode, queue[t][i].mode)}}
Holding(t, i) == {h \in Session \ {queue[t][i].session} :
                                       Conflict(granted[h][t], queue[t][i].mode)}

TableBlockers(s) ==
  UNION {UNION {Before(t, i) \cup Holding(t, i) :
                  i \in {k \in DOMAIN queue[t] : queue[t][k].session = s}} : t \in Table}

\* A request joins the queue of its table, even if it can be granted at once.
Request(s, t, mode) ==
  queue' = [queue EXCEPT ![t] = Append(@, [session |-> s, mode |-> mode])]

\* The lock manager grants a request that nobody is in the way of.
Grant(s) ==
  \E t \in Table : \E i \in DOMAIN queue[t] :
    /\ queue[t][i].session = s
    /\ Before(t, i) \cup Holding(t, i) = {}
    /\ granted' = [granted EXCEPT ![s][t] = queue[t][i].mode]
    /\ queue' = [queue EXCEPT ![t] = RemoveAt(@, i)]
    /\ UNCHANGED <<cache_filled, lwlock, pc, statements>>

Unlock_KeepsRequest(s) ==
  /\ granted' = [granted EXCEPT ![s] = NoTable]
  /\ UNCHANGED queue

\* The queue without the request of s.
Withdraw(q, s) ==
  IF \E i \in DOMAIN q : q[i].session = s
  THEN RemoveAt(q, CHOOSE i \in DOMAIN q : q[i].session = s)
  ELSE q

\* The end of the transaction gives the table locks back.
Unlock(s) ==
  /\ granted' = [granted EXCEPT ![s] = NoTable]
  /\ queue' = [t \in Table |-> Withdraw(queue[t], s)]

Commit(s) ==
  /\ pc[s] = "open"
  /\ Unlock(s)
  /\ Goto(s, "idle")
  /\ UNCHANGED <<cache_filled, lwlock, statements>>

\* An error ends the transaction and gives every lock back.
Abort(s) ==
  /\ Unlock(s)
  /\ Release(s)
  /\ Goto(s, "idle")
  /\ UNCHANGED <<cache_filled, statements>>

\* The sets of sessions each of which waits for one in the set.
Stuck(Blocking(_)) ==
  {sessions \in SUBSET {s \in Session : Blocking(s) # {}} :
     sessions # {} /\ \A s \in sessions : Blocking(s) \cap sessions # {}}

\* The deadlock detector finds a cycle of waits for tables, and aborts a
\* transaction in it.
DetectDeadlock ==
  LET stuck == Stuck(TableBlockers) IN
  \E cycle \in stuck : \E victim \in cycle :
    /\ \A smaller \in SUBSET cycle \ {cycle} : smaller \notin stuck
    /\ Abort(victim)

-----------------------------------------------------------------------------
(* Statements *)

Begin(s, op, point) ==
  /\ pc[s] \in {"idle", "open"}
  /\ op \in may[s] /\ statements[s] < MaxStatements
  /\ statements' = [statements EXCEPT ![s] = @ + 1]
  /\ Goto(s, point)

Call(s) == Begin(s, "call", "check") /\ UNCHANGED <<cache_filled, locks>>

Invalidate(s) ==
  /\ Begin(s, "invalidate", IF cache_filled THEN "lock_invalidate" ELSE "open")
  /\ UNCHANGED <<cache_filled, locks>>

LockTable(s, t) ==
  /\ Begin(s, "lock", "lock")
  /\ granted[s][t] # "exclusive"
  /\ Request(s, t, "exclusive")
  /\ UNCHANGED <<cache_filled, lwlock, granted>>

LockTableEnds(s) ==
  /\ pc[s] = "lock" /\ \A t \in Table : ~Waits(s, t)
  /\ Goto(s, "open")
  /\ UNCHANGED <<cache_filled, locks, statements>>

-----------------------------------------------------------------------------
(* ensure_cache_populated and the reading functions *)

\* Q0 looks into information_schema, and locks no calendar table.
CheckFilled(s) ==
  /\ pc[s] = "check"
  /\ Goto(s, IF cache_filled THEN "lock_read" ELSE "lock_fill")
  /\ UNCHANGED <<cache_filled, locks, statements>>

LockToFill(s) ==
  /\ pc[s] = "lock_fill" /\ Acquire(s, "recheck")
  /\ UNCHANGED <<cache_filled, granted, queue, statements>>

Recheck_NoRelease(s) ==
  /\ pc[s] = "recheck"
  /\ Goto(s, IF cache_filled THEN "lock_read" ELSE "q1")
  /\ UNCHANGED <<cache_filled, locks, statements>>

Recheck(s) ==
  /\ pc[s] = "recheck"
  /\ \/ cache_filled /\ Release(s) /\ Goto(s, "lock_read")
     \/ ~cache_filled /\ UNCHANGED lwlock /\ Goto(s, "q1")
  /\ UNCHANGED <<cache_filled, granted, queue, statements>>

\* The table each query is the first to lock.
Locks(point) == IF point = "q1" THEN "calendar" ELSE "calendar_date"
After(point) == CASE point = "q1" -> "q2" [] point = "q2" -> "q3" [] point = "q3" -> "filled"

\* A query asks for its table, unless the transaction has locked it already.
AskTable(s) ==
  LET t == Locks(pc[s]) IN
  /\ pc[s] \in {"q1", "q2", "q3"}
  /\ granted[s][t] = "none" /\ ~Waits(s, t)
  /\ Request(s, t, "share")
  /\ UNCHANGED <<cache_filled, lwlock, granted, pc, statements>>

RunQuery(s) ==
  /\ pc[s] \in {"q1", "q2", "q3"}
  /\ granted[s][Locks(pc[s])] # "none"
  /\ Goto(s, After(pc[s]))
  /\ UNCHANGED <<cache_filled, locks, statements>>

\* A query fails, a calendar is not found, or LOCK TABLE is cancelled.  A fill
\* that waits for a table cannot be cancelled: interrupts are held off as long
\* as it has the LWLock.
Fails(s) ==
  /\ \/ pc[s] \in {"check", "q1", "q2", "q3", "read"} /\ \A t \in Table : ~Waits(s, t)
     \/ pc[s] = "lock"
  /\ Abort(s)

\* The table locks stay when the LWLock is released.
FinishFill(s) ==
  /\ pc[s] = "filled"
  /\ cache_filled' = TRUE
  /\ Release(s)
  /\ Goto(s, "lock_read")
  /\ UNCHANGED <<granted, queue, statements>>

LockToRead(s) ==
  /\ pc[s] = "lock_read" /\ Acquire(s, "read")
  /\ UNCHANGED <<cache_filled, granted, queue, statements>>

Answer_KeepsLock(s) ==
  /\ pc[s] = "read"
  /\ Goto(s, "open")
  /\ UNCHANGED <<cache_filled, locks, statements>>

Answer(s) ==
  /\ pc[s] = "read"
  /\ Release(s)
  /\ Goto(s, "open")
  /\ UNCHANGED <<cache_filled, granted, queue, statements>>

LockToInvalidate(s) ==
  /\ pc[s] = "lock_invalidate" /\ Acquire(s, "invalidate")
  /\ UNCHANGED <<cache_filled, granted, queue, statements>>

InvalidateEnds(s) ==
  /\ pc[s] = "invalidate"
  /\ cache_filled' = FALSE
  /\ Release(s)
  /\ Goto(s, "open")
  /\ UNCHANGED <<granted, queue, statements>>

Init ==
  /\ cache_filled = FALSE
  /\ lwlock = [s \in Session |-> "none"]
  /\ granted = [s \in Session |-> NoTable]
  /\ queue = [t \in Table |-> << >>]
  /\ may \in Workload
  /\ pc = [s \in Session |-> "idle"]
  /\ statements = [s \in Session |-> 0]

Step(s) ==
  \/ CheckFilled(s) \/ LockToFill(s) \/ Recheck(s)
  \/ AskTable(s) \/ Grant(s) \/ RunQuery(s) \/ FinishFill(s)
  \/ LockToRead(s) \/ Answer(s) \/ LockToInvalidate(s) \/ InvalidateEnds(s)
  \/ LockTableEnds(s) \/ Commit(s)

Next ==
  /\ \/ DetectDeadlock
     \/ \E s \in Session :
          \/ Step(s) \/ Call(s) \/ Invalidate(s) \/ Fails(s)
          \/ \E t \in Table : LockTable(s, t)
  /\ UNCHANGED may

Spec == Init /\ [][Next]_vars

\* Backends and the lock manager go on, the detector runs, and a client ends
\* the transactions it has begun.
FairSpec == Spec /\ WF_vars(DetectDeadlock /\ UNCHANGED may)
              /\ \A s \in Session : WF_vars(Step(s) /\ UNCHANGED may)

-----------------------------------------------------------------------------
(* Properties *)

\* The variables have their types; a session waits for one table at a time.
TypeOK ==
  /\ cache_filled \in BOOLEAN
  /\ lwlock \in [Session -> {"none"} \cup Mode]
  /\ granted \in [Session -> [Table -> {"none"} \cup Mode]]
  /\ queue \in [Table -> Seq([session : Session, mode : Mode])]
  /\ \A s \in Session : Cardinality({t \in Table : Waits(s, t)}) <= 1
  /\ may \in Workload
  /\ pc \in [Session -> Point]
  /\ statements \in [Session -> 0 .. MaxStatements]

Blockers(s) == LWBlockers(s) \cup TableBlockers(s)

\* No set of sessions waits for itself unless the deadlock detector sees why:
\* the LWLock of the cache takes part in no cycle of waits.
NoHiddenDeadlock ==
  \A sessions \in Stuck(Blockers) : \E seen \in Stuck(TableBlockers) : seen \subseteq sessions

\* Every statement ends, and every transaction: whoever waits for the LWLock
\* behind a fill gets it, also when the fill waits for a table or is aborted.
TransactionsEnd == \A s \in Session : pc[s] # "idle" ~> pc[s] = "idle"

=============================================================================
