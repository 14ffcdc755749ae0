-------------------------- MODULE TableLocksProofs --------------------------
(***************************************************************************)
(* Proofs about TableLocks: the types, and that the LWLock takes part in   *)
(* no cycle of waits where the workload keeps calls, locks and             *)
(* invalidations apart (Apart), for any number of sessions.                *)
(***************************************************************************)
EXTENDS TableLocks, SequenceTheorems, FiniteSetTheorems, TLAPS

Requests == [session : Session, mode : Mode]

-----------------------------------------------------------------------------
(* Sequences *)

LEMMA Removed ==
  ASSUME NEW R, NEW q \in Seq(R), NEW i \in DOMAIN q
  PROVE  /\ RemoveAt(q, i) \in Seq(R)
         /\ DOMAIN RemoveAt(q, i) = 1 .. Len(q) - 1
         /\ \A j \in 1 .. Len(q) - 1 : RemoveAt(q, i)[j] = q[IF j < i THEN j ELSE j + 1]
<1> DEFINE left  == SubSeq(q, 1, i - 1)
           right == SubSeq(q, i + 1, Len(q))
<1>0. i \in 1 .. Len(q) /\ Len(q) \in Nat /\ \A j \in 1 .. Len(q) : q[j] \in R
  OBVIOUS
<1>1. /\ left \in Seq(R) /\ Len(left) = i - 1
      /\ \A j \in 1 .. i - 1 : left[j] = q[j]
  BY <1>0, SubSeqProperties
<1>2. /\ right \in Seq(R) /\ Len(right) = Len(q) - i
      /\ \A j \in 1 .. Len(q) - i : right[j] = q[i + j]
  BY <1>0, SubSeqProperties
<1> HIDE DEF left, right
<1>3. /\ left \o right \in Seq(R) /\ Len(left \o right) = Len(q) - 1
      /\ \A j \in 1 .. Len(q) - 1 :
           (left \o right)[j] = IF j <= i - 1 THEN left[j] ELSE right[j - (i - 1)]
  <2>1. /\ left \o right \in Seq(R) /\ Len(left \o right) = Len(left) + Len(right)
        /\ \A j \in 1 .. Len(left) + Len(right) :
             (left \o right)[j] = IF j <= Len(left) THEN left[j] ELSE right[j - Len(left)]
    BY <1>1, <1>2, ConcatProperties
  <2>2. Len(left) + Len(right) = Len(q) - 1
    BY <1>0, <1>1, <1>2
  <2> QED
    BY <1>1, <2>1, <2>2
<1>4. ASSUME NEW j \in 1 .. Len(q) - 1
      PROVE  (left \o right)[j] = q[IF j < i THEN j ELSE j + 1]
  <2>1. CASE j < i
    BY <1>0, <1>1, <1>3, <2>1
  <2>2. CASE ~(j < i)
    <3>1. j - (i - 1) \in 1 .. Len(q) - i /\ i + (j - (i - 1)) = j + 1
      BY <1>0, <2>2
    <3>2. right[j - (i - 1)] = q[j + 1]
      BY <1>2, <3>1
    <3>3. ~(j <= i - 1)
      BY <1>0, <2>2
    <3>4. (left \o right)[j] = right[j - (i - 1)]
      BY <1>3, <3>3
    <3> QED
      BY <2>2, <3>2, <3>4
  <2> QED
    BY <2>1, <2>2
<1>5. RemoveAt(q, i) = left \o right
  BY DEF RemoveAt, left, right
<1> QED
  BY <1>3, <1>4, <1>5

-----------------------------------------------------------------------------
(* The queues *)

\* A session has one request at most.
OneRequest ==
  \A t, u \in Table : \A i \in DOMAIN queue[t], j \in DOMAIN queue[u] :
    queue[t][i].session = queue[u][j].session => t = u /\ i = j

\* It waits where it has asked: in a query, for a lock it does not have, or in
\* LOCK TABLE.
Asked ==
  \A t \in Table : \A i \in DOMAIN queue[t] :
    LET r == queue[t][i] IN
    /\ r.mode = "share" => /\ pc[r.session] \in {"q1", "q2", "q3"} /\ t = Locks(pc[r.session])
                           /\ granted[r.session][t] = "none"
    /\ r.mode = "exclusive" => pc[r.session] = "lock"

QueueInvariant == OneRequest /\ Asked

LEMMA Entry ==
  ASSUME TypeOK, NEW t \in Table, NEW i \in DOMAIN queue[t]
  PROVE  /\ queue[t] \in Seq(Requests) /\ queue[t][i] \in Requests
         /\ queue[t][i].session \in Session /\ queue[t][i].mode \in Mode
<1>1. queue[t] \in Seq(Requests)
  BY DEF TypeOK, Requests
<1>2. queue[t][i] \in Requests
  BY <1>1
<1> QED
  BY <1>1, <1>2 DEF Requests

LEMMA NotWaiting ==
  ASSUME TypeOK, Asked, NEW s \in Session, pc[s] \notin {"q1", "q2", "q3", "lock"}, NEW t \in Table
  PROVE  ~Waits(s, t)
  BY Entry DEF Asked, Waits, Mode

\* The queues after a step that takes requests from them.
Fewer ==
  \A t \in Table :
    \/ queue'[t] = queue[t]
    \/ \E i \in DOMAIN queue[t] : queue'[t] = RemoveAt(queue[t], i)

LEMMA FewerTyped ==
  ASSUME TypeOK, Fewer, queue' = [t \in Table |-> queue'[t]]
  PROVE  queue' \in [Table -> Seq(Requests)]
<1>1. ASSUME NEW t \in Table PROVE queue'[t] \in Seq(Requests)
  <2>1. queue[t] \in Seq(Requests)
    BY DEF TypeOK, Requests
  <2> QED
    BY <2>1, Removed DEF Fewer
<1> QED
  BY <1>1

\* Each request that stays comes from a place of its own.
LEMMA FewerFrom ==
  ASSUME TypeOK, Fewer, NEW t \in Table
  PROVE  \A j \in DOMAIN queue'[t] : \E k \in DOMAIN queue[t] :
           /\ queue'[t][j] = queue[t][k]
           /\ \A m \in DOMAIN queue'[t] : queue'[t][m] = queue[t][k] /\ OneRequest => m = j
<1>0. queue[t] \in Seq(Requests)
  BY DEF TypeOK, Requests
<1>1. CASE queue'[t] = queue[t]
  BY <1>1 DEF OneRequest
<1>2. ASSUME NEW i \in DOMAIN queue[t], queue'[t] = RemoveAt(queue[t], i)
      PROVE  \A j \in DOMAIN queue'[t] : \E k \in DOMAIN queue[t] :
               /\ queue'[t][j] = queue[t][k]
               /\ \A m \in DOMAIN queue'[t] : queue'[t][m] = queue[t][k] /\ OneRequest => m = j
  <2> DEFINE n == Len(queue[t])
             From(j) == IF j < i THEN j ELSE j + 1
  <2>1. /\ DOMAIN queue'[t] = 1 .. n - 1 /\ \A j \in 1 .. n - 1 : queue'[t][j] = queue[t][From(j)]
        /\ DOMAIN queue[t] = 1 .. n /\ n \in Nat /\ i \in 1 .. n
    <3>1. /\ DOMAIN RemoveAt(queue[t], i) = 1 .. n - 1
          /\ \A j \in 1 .. n - 1 : RemoveAt(queue[t], i)[j] = queue[t][From(j)]
      BY <1>0, Removed
    <3>2. DOMAIN queue[t] = 1 .. n /\ n \in Nat /\ i \in 1 .. n
      BY <1>0
    <3> QED
      BY <1>2, <3>1, <3>2
  <2>2. ASSUME NEW j \in 1 .. n - 1, NEW m \in 1 .. n - 1
        PROVE  From(j) \in 1 .. n /\ (From(j) = From(m) => j = m)
    BY <2>1
  <2> HIDE DEF From
  <2>3. ASSUME NEW j \in 1 .. n - 1, NEW m \in 1 .. n - 1, OneRequest,
               queue'[t][m] = queue[t][From(j)]
        PROVE  m = j
    <3>1. queue[t][From(m)] = queue[t][From(j)] /\ From(m) \in DOMAIN queue[t] /\ From(j) \in DOMAIN queue[t]
      BY <2>1, <2>2, <2>3
    <3>2. From(m) = From(j)
      BY <2>3, <3>1 DEF OneRequest
    <3> QED
      BY <2>2, <3>2
  <2>4. ASSUME NEW j \in DOMAIN queue'[t]
        PROVE  \E k \in DOMAIN queue[t] :
                 /\ queue'[t][j] = queue[t][k]
                 /\ \A m \in DOMAIN queue'[t] : queue'[t][m] = queue[t][k] /\ OneRequest => m = j
    <3>1. j \in 1 .. n - 1 /\ From(j) \in DOMAIN queue[t] /\ queue'[t][j] = queue[t][From(j)]
      BY <2>1, <2>2, <2>4
    <3>2. \A m \in DOMAIN queue'[t] : queue'[t][m] = queue[t][From(j)] /\ OneRequest => m = j
      BY <2>1, <2>3, <3>1
    <3> QED
      BY <3>1, <3>2
  <2> QED
    BY <2>4
<1> QED
  BY <1>1, <1>2 DEF Fewer

LEMMA FewerOne ==
  ASSUME TypeOK, Fewer, OneRequest
  PROVE  OneRequest'
<1> SUFFICES ASSUME NEW t \in Table, NEW u \in Table, NEW i \in DOMAIN queue'[t], NEW j \in DOMAIN queue'[u],
                    queue'[t][i].session = queue'[u][j].session
             PROVE  t = u /\ i = j
  BY DEF OneRequest
<1>1. PICK k \in DOMAIN queue[t] :
        /\ queue'[t][i] = queue[t][k]
        /\ \A m \in DOMAIN queue'[t] : queue'[t][m] = queue[t][k] /\ OneRequest => m = i
  BY FewerFrom
<1>2. PICK l \in DOMAIN queue[u] : queue'[u][j] = queue[u][l]
  BY FewerFrom
<1>3. t = u /\ k = l
  BY <1>1, <1>2 DEF OneRequest
<1> QED
  BY <1>1, <1>2, <1>3

-----------------------------------------------------------------------------
(* Steps that ask for no table *)

\* The step leaves s no request, and those of the others alone.
Withdrawn(s) == queue' = [t \in Table |-> Withdraw(queue[t], s)]

OthersKeep(s) ==
  /\ \E point \in Point : Goto(s, point)
  /\ \A r \in Session \ {s} : granted'[r] = granted[r]

LEMMA WithdrawnFewer ==
  ASSUME TypeOK, OneRequest, NEW s \in Session, Withdrawn(s)
  PROVE  /\ Fewer
         /\ \A t \in Table : \A j \in DOMAIN queue'[t] :
              /\ queue'[t][j].session # s
              /\ \E k \in DOMAIN queue[t] : queue'[t][j] = queue[t][k]
<1>1. ASSUME NEW t \in Table
      PROVE  /\ queue'[t] = queue[t] \/ \E i \in DOMAIN queue[t] : queue'[t] = RemoveAt(queue[t], i)
             /\ \A j \in DOMAIN queue'[t] : queue'[t][j].session # s
  <2>0. queue'[t] = Withdraw(queue[t], s) /\ queue[t] \in Seq(Requests)
    BY DEF Withdrawn, TypeOK, Requests
  <2>1. CASE \A i \in DOMAIN queue[t] : queue[t][i].session # s
    BY <2>0, <2>1 DEF Withdraw
  <2>2. CASE \E i \in DOMAIN queue[t] : queue[t][i].session = s
    <3>1. PICK i \in DOMAIN queue[t] : queue[t][i].session = s /\ queue'[t] = RemoveAt(queue[t], i)
      BY <2>0, <2>2 DEF Withdraw
    <3> DEFINE From(j) == IF j < i THEN j ELSE j + 1
    <3>2. /\ DOMAIN queue'[t] = 1 .. Len(queue[t]) - 1
          /\ \A j \in 1 .. Len(queue[t]) - 1 : queue'[t][j] = queue[t][From(j)]
      BY <2>0, <3>1, Removed
    <3>3. ASSUME NEW j \in 1 .. Len(queue[t]) - 1
          PROVE  From(j) \in DOMAIN queue[t] /\ From(j) # i
      BY <2>0, <3>1
    <3> HIDE DEF From
    <3>4. ASSUME NEW j \in DOMAIN queue'[t] PROVE queue'[t][j].session # s
      <4>1. queue'[t][j] = queue[t][From(j)] /\ From(j) \in DOMAIN queue[t] /\ From(j) # i
        BY <3>2, <3>3, <3>4
      <4> QED
        BY <3>1, <4>1 DEF OneRequest
    <3> QED
      BY <3>1, <3>4
  <2> QED
    BY <2>1, <2>2
<1>2. Fewer
  BY <1>1 DEF Fewer
<1>3. \A t \in Table : \A j \in DOMAIN queue'[t] : \E k \in DOMAIN queue[t] : queue'[t][j] = queue[t][k]
  BY <1>2, FewerFrom
<1> QED
  BY <1>1, <1>2, <1>3

LEMMA WithdrawnQueue ==
  ASSUME TypeOK, QueueInvariant, NEW s \in Session, Withdrawn(s), OthersKeep(s)
  PROVE  QueueInvariant' /\ queue' \in [Table -> Seq(Requests)]
<1>1. Fewer /\ \A t \in Table : \A j \in DOMAIN queue'[t] :
              /\ queue'[t][j].session # s
              /\ \E k \in DOMAIN queue[t] : queue'[t][j] = queue[t][k]
  BY WithdrawnFewer DEF QueueInvariant
<1>2. OneRequest'
  BY <1>1, FewerOne DEF QueueInvariant
<1>3. queue' \in [Table -> Seq(Requests)]
  BY <1>1, FewerTyped DEF Withdrawn
<1>4. ASSUME NEW t \in Table, NEW j \in DOMAIN queue'[t]
      PROVE  LET r == queue'[t][j] IN
             /\ r.mode = "share" => /\ pc'[r.session] \in {"q1", "q2", "q3"} /\ t = Locks(pc'[r.session])
                                    /\ granted'[r.session][t] = "none"
             /\ r.mode = "exclusive" => pc'[r.session] = "lock"
  <2>1. PICK k \in DOMAIN queue[t] : queue'[t][j] = queue[t][k]
    BY <1>1, <1>4
  <2>2. queue[t][k].session \in Session \ {s}
    BY <1>1, <1>4, <2>1, Entry
  <2>3. PICK r : r = queue[t][k].session
    OBVIOUS
  <2>4. pc'[r] = pc[r] /\ granted'[r] = granted[r]
    BY <2>2, <2>3 DEF OthersKeep, Goto, TypeOK
  <2> QED
    BY <2>1, <2>3, <2>4 DEF QueueInvariant, Asked
<1>5. Asked'
  BY <1>4 DEF Asked
<1> QED
  BY <1>2, <1>3, <1>5 DEF QueueInvariant

\* A session without a request has none to withdraw.
LEMMA NothingWithdrawn ==
  ASSUME TypeOK, NEW s \in Session, UNCHANGED queue, \A t \in Table : ~Waits(s, t)
  PROVE  Withdrawn(s)
<1>1. \A t \in Table : Withdraw(queue[t], s) = queue[t]
  BY DEF Waits, Withdraw
<1>2. queue = [t \in Table |-> queue[t]]
  BY DEF TypeOK
<1> QED
  BY <1>1, <1>2 DEF Withdrawn

LEMMA GrantWithdraws ==
  ASSUME TypeOK, OneRequest, NEW s \in Session, NEW t \in Table, NEW i \in DOMAIN queue[t],
         queue[t][i].session = s, queue' = [queue EXCEPT ![t] = RemoveAt(@, i)]
  PROVE  Withdrawn(s)
<1>1. Withdraw(queue[t], s) = RemoveAt(queue[t], i)
  <2>1. PICK k : k = CHOOSE j \in DOMAIN queue[t] : queue[t][j].session = s
    OBVIOUS
  <2>2. k = i
    BY <2>1 DEF OneRequest
  <2> QED
    BY <2>1, <2>2 DEF Withdraw
<1>2. ASSUME NEW u \in Table, u # t PROVE Withdraw(queue[u], s) = queue[u]
  BY <1>2 DEF OneRequest, Withdraw
<1>3. queue' = [u \in Table |-> IF u = t THEN RemoveAt(queue[t], i) ELSE queue[u]]
  BY DEF TypeOK
<1> QED
  BY <1>1, <1>2, <1>3 DEF Withdrawn

-----------------------------------------------------------------------------
(* Steps that ask for a table *)

Asks(s, t, mode) == queue' = [queue EXCEPT ![t] = Append(@, [session |-> s, mode |-> mode])]

LEMMA AsksQueue ==
  ASSUME TypeOK, QueueInvariant, NEW s \in Session, NEW t \in Table, NEW mode \in Mode,
         Asks(s, t, mode), UNCHANGED granted, \A u \in Table : ~Waits(s, u),
         \A r \in Session \ {s} : pc'[r] = pc[r],
         mode = "share" => /\ pc'[s] \in {"q1", "q2", "q3"} /\ t = Locks(pc'[s])
                           /\ granted[s][t] = "none",
         mode = "exclusive" => pc'[s] = "lock"
  PROVE  QueueInvariant' /\ queue' \in [Table -> Seq(Requests)]
<1> DEFINE new == [session |-> s, mode |-> mode]
<1>0. new \in Requests /\ new.session = s /\ new.mode = mode
  BY DEF Requests
<1>1. ASSUME NEW u \in Table
      PROVE  /\ queue'[u] \in Seq(Requests)
             /\ \A j \in DOMAIN queue'[u] :
                  \/ j \in DOMAIN queue[u] /\ queue'[u][j] = queue[u][j]
                  \/ u = t /\ j = Len(queue[t]) + 1 /\ queue'[u][j] = new
  <2>0. queue[u] \in Seq(Requests)
    BY DEF TypeOK, Requests
  <2>1. CASE u # t
    BY <2>0, <2>1 DEF Asks, TypeOK
  <2>2. CASE u = t
    <3>1. queue'[u] = Append(queue[t], new)
      BY <2>2 DEF Asks, TypeOK
    <3> HIDE DEF new
    <3>2. /\ Append(queue[t], new) \in Seq(Requests)
          /\ Len(Append(queue[t], new)) = Len(queue[t]) + 1
          /\ \A j \in 1 .. Len(queue[t]) : Append(queue[t], new)[j] = queue[t][j]
          /\ Append(queue[t], new)[Len(queue[t]) + 1] = new
      BY <1>0, <2>0, <2>2, AppendProperties
    <3> QED
      BY <2>0, <2>2, <3>1, <3>2
  <2> QED
    BY <2>1, <2>2
<1> HIDE DEF new
<1>2. queue' = [u \in Table |-> queue'[u]]
  BY DEF Asks, TypeOK
<1>3. ASSUME NEW u \in Table, NEW j \in DOMAIN queue[u]
      PROVE  queue[u][j].session \in Session \ {s} /\ queue[u][j].mode \in Mode
  BY <1>3, Entry DEF Waits
<1>4. OneRequest'
  <2> SUFFICES ASSUME NEW u \in Table, NEW v \in Table, NEW i \in DOMAIN queue'[u], NEW j \in DOMAIN queue'[v],
                      queue'[u][i].session = queue'[v][j].session
               PROVE  u = v /\ i = j
    BY DEF OneRequest
  <2>1. CASE queue'[u][i] = new
    <3>1. u = t /\ i = Len(queue[t]) + 1
      BY <1>0, <1>1, <1>3, <2>1
    <3>2. v = t /\ j = Len(queue[t]) + 1
      BY <1>0, <1>1, <1>3, <2>1
    <3> QED
      BY <3>1, <3>2
  <2>2. CASE queue'[v][j] = new
    <3>1. u = t /\ i = Len(queue[t]) + 1
      BY <1>0, <1>1, <1>3, <2>2
    <3>2. v = t /\ j = Len(queue[t]) + 1
      BY <1>0, <1>1, <1>3, <2>2
    <3> QED
      BY <3>1, <3>2
  <2>3. CASE queue'[u][i] # new /\ queue'[v][j] # new
    BY <1>1, <2>3 DEF QueueInvariant, OneRequest
  <2> QED
    BY <2>1, <2>2, <2>3
<1>5. ASSUME NEW u \in Table, NEW j \in DOMAIN queue'[u]
      PROVE  LET r == queue'[u][j] IN
             /\ r.mode = "share" => /\ pc'[r.session] \in {"q1", "q2", "q3"} /\ u = Locks(pc'[r.session])
                                    /\ granted'[r.session][u] = "none"
             /\ r.mode = "exclusive" => pc'[r.session] = "lock"
  <2>1. CASE queue'[u][j] = new
    <3>1. u = t
      BY <1>0, <1>1, <1>3, <2>1
    <3> QED
      BY <1>0, <2>1, <3>1
  <2>2. CASE j \in DOMAIN queue[u] /\ queue'[u][j] = queue[u][j]
    <3>1. PICK r \in Session \ {s} : r = queue[u][j].session
      BY <1>3, <2>2
    <3>2. pc'[r] = pc[r] /\ granted'[r] = granted[r]
      BY <3>1
    <3> QED
      BY <2>2, <3>1, <3>2 DEF QueueInvariant, Asked
  <2> QED
    BY <1>1, <2>1, <2>2
<1>6. Asked'
  BY <1>5 DEF Asked
<1> QED
  BY <1>1, <1>2, <1>4, <1>6 DEF QueueInvariant

-----------------------------------------------------------------------------
(* The LWLock, the workload and the fill *)

Loading    == {"q1", "q2", "q3", "filled"}
Writing    == Loading \cup {"recheck", "invalidate"}
CallPoints == Loading \cup {"check", "lock_fill", "recheck", "lock_read", "read"}

LWAt(point) == IF point \in Writing THEN "exclusive" ELSE IF point = "read" THEN "share" ELSE "none"

LWInvariant ==
  /\ \A s \in Session : lwlock[s] = LWAt(pc[s])
  /\ \A r, s \in Session : lwlock[r] = "exclusive" /\ lwlock[s] # "none" => r = s

\* A session is where its workload has led it.
May(s, point) ==
  /\ point \in CallPoints => "call" \in may[s]
  /\ point \in {"lock_invalidate", "invalidate"} => "invalidate" \in may[s]
  /\ point = "lock" => "lock" \in may[s]

\* The locks it has are those of its statements.
Kept ==
  \A s \in Session : \A t \in Table :
    /\ granted[s][t] = "share" => "call" \in may[s]
    /\ granted[s][t] = "exclusive" => "lock" \in may[s]

\* While the cache is not filled, only who fills it has locks of the queries,
\* unless somebody invalidates.
FillState ==
  /\ cache_filled => \A s \in Session : pc[s] \notin Loading
  /\ (\A s \in Session : "invalidate" \notin may[s]) /\ ~cache_filled =>
       \A s \in Session : \A t \in Table : granted[s][t] = "share" => pc[s] \in Loading

LocksInvariant ==
  /\ QueueInvariant /\ LWInvariant /\ Kept /\ FillState
  /\ \A s \in Session : May(s, pc[s])

\* The move of a session from one point to the next, with what becomes of the
\* LWLock, its table locks and the cache.
Moves(s, point) ==
  /\ Goto(s, point) /\ point \in Point /\ May(s, point)
  /\ lwlock' = [lwlock EXCEPT ![s] = LWAt(point)]
  /\ \/ LWAt(point) \in {"none", lwlock[s]}
     \/ \A h \in Session : ~Conflict(lwlock[h], LWAt(point))
  /\ \/ UNCHANGED granted /\ (pc[s] \in Loading => point \in Loading \cup {"lock_read"})
     \/ granted' = [granted EXCEPT ![s] = NoTable] /\ point = "idle"
  /\ \/ UNCHANGED cache_filled /\ (point \in Loading => ~cache_filled)
          /\ (pc[s] \in Loading => point # "lock_read")
     \/ pc[s] = "filled" /\ point = "lock_read" /\ cache_filled'
     \/ pc[s] = "invalidate" /\ ~cache_filled'
  /\ Withdrawn(s)

LEMMA MovesLW ==
  ASSUME TypeOK, LWInvariant, NEW s \in Session, NEW point, Moves(s, point)
  PROVE  LWInvariant'
<1>1. /\ pc'[s] = point /\ lwlock'[s] = LWAt(point)
      /\ \A r \in Session \ {s} : pc'[r] = pc[r] /\ lwlock'[r] = lwlock[r]
  BY DEF Moves, Goto, TypeOK
<1>2. \A r \in Session : lwlock'[r] = LWAt(pc'[r])
  BY <1>1 DEF LWInvariant
<1>3. ASSUME NEW r \in Session, NEW q \in Session, lwlock'[r] = "exclusive", lwlock'[q] # "none"
      PROVE  r = q
  <2>1. CASE LWAt(point) \in {"none", lwlock[s]}
    BY <1>1, <1>3, <2>1 DEF LWInvariant
  <2>2. CASE \A h \in Session : ~Conflict(lwlock[h], LWAt(point))
    BY <1>1, <1>3, <2>2 DEF LWInvariant, Conflict
  <2> QED
    BY <2>1, <2>2 DEF Moves
<1> QED
  BY <1>2, <1>3 DEF LWInvariant

LEMMA MovesLocks ==
  ASSUME TypeOK, LocksInvariant, NEW s \in Session, NEW point, Moves(s, point), UNCHANGED may
  PROVE  LocksInvariant'
<1>1. /\ pc'[s] = point /\ \A r \in Session \ {s} : pc'[r] = pc[r]
      /\ \A r \in Session \ {s} : granted'[r] = granted[r]
  BY DEF Moves, Goto, TypeOK
<1>2. QueueInvariant'
  BY <1>1, WithdrawnQueue DEF Moves, LocksInvariant, OthersKeep
<1>3. LWInvariant'
  BY MovesLW DEF LocksInvariant
<1>4. UNCHANGED granted \/ (granted'[s] = NoTable /\ point = "idle")
  BY DEF Moves, TypeOK
<1>5. \A t \in Table : NoTable[t] = "none"
  BY DEF NoTable
<1>6. Kept'
  BY <1>1, <1>4, <1>5 DEF LocksInvariant, Kept
<1>7. \A r \in Session : May(r, pc[r])'
  <2>1. May(s, point)' /\ \A r \in Session : May(r, pc[r]) => May(r, pc[r])
    BY DEF Moves, May
  <2> QED
    BY <1>1, <2>1 DEF LocksInvariant, May
<1>8. ASSUME cache_filled', NEW r \in Session PROVE pc'[r] \notin Loading
  <2>1. CASE UNCHANGED cache_filled /\ (point \in Loading => ~cache_filled)
    BY <1>1, <1>8, <2>1 DEF LocksInvariant, FillState
  <2>2. CASE pc[s] = "filled" /\ point = "lock_read"
    <3>1. lwlock[s] = "exclusive"
      BY <2>2 DEF LocksInvariant, LWInvariant, LWAt, Writing, Loading
    <3>2. pc[r] \in Loading => lwlock[r] # "none"
      BY DEF LocksInvariant, LWInvariant, LWAt, Writing
    <3> QED
      BY <1>1, <2>2, <3>1, <3>2 DEF LocksInvariant, LWInvariant, Loading
  <2> QED
    BY <1>8, <2>1, <2>2 DEF Moves
<1>9. ASSUME \A r \in Session : "invalidate" \notin may[r], ~cache_filled',
             NEW r \in Session, NEW t \in Table, granted'[r][t] = "share"
      PROVE  pc'[r] \in Loading
  <2>1. ~cache_filled /\ (pc[s] \in Loading => point # "lock_read")
    BY <1>9 DEF Moves, LocksInvariant, May
  <2>2. granted[r][t] = "share" /\ (r = s => UNCHANGED granted)
    BY <1>1, <1>4, <1>5, <1>9
  <2>3. pc[r] \in Loading
    BY <1>9, <2>1, <2>2 DEF LocksInvariant, FillState
  <2>4. CASE r = s
    <3>1. UNCHANGED granted /\ granted'[s] # NoTable
      BY <1>5, <1>9, <2>2, <2>4
    <3> QED
      BY <1>1, <1>4, <2>1, <2>3, <2>4, <3>1 DEF Moves, TypeOK
  <2> QED
    BY <1>1, <2>3, <2>4
<1> QED
  BY <1>2, <1>3, <1>6, <1>7, <1>8, <1>9 DEF LocksInvariant, FillState

-----------------------------------------------------------------------------
(* The actions *)

LEMMA PointMoves ==
  ASSUME TypeOK, LocksInvariant, NEW s \in Session, NEW point \in Point, Goto(s, point), May(s, point),
         UNCHANGED <<cache_filled, locks>>, LWAt(point) = LWAt(pc[s]),
         pc[s] \in Loading => point \in Loading, point \in Loading => ~cache_filled,
         \A t \in Table : ~Waits(s, t)
  PROVE  Moves(s, point)
<1>1. lwlock[s] = LWAt(point) /\ lwlock' = [lwlock EXCEPT ![s] = LWAt(point)]
  BY DEF LocksInvariant, LWInvariant, locks, TypeOK
<1>2. Withdrawn(s)
  BY NothingWithdrawn DEF locks
<1>3. pc[s] \in Loading => point # "lock_read"
  BY DEF Loading
<1> QED
  BY <1>1, <1>2, <1>3 DEF Moves, locks

\* Acquiring the LWLock.
LEMMA AcquireMoves ==
  ASSUME TypeOK, LocksInvariant, NEW s \in Session, NEW point \in Point, Acquire(s, point),
         pc[s] \in {"lock_fill", "lock_read", "lock_invalidate"},
         LWAt(point) = LWMode(pc[s]), May(s, point), point \notin Loading,
         UNCHANGED <<cache_filled, granted, queue>>
  PROVE  Moves(s, point)
<1>1. \A h \in Session : ~Conflict(lwlock[h], LWAt(point))
  BY DEF Acquire, LWBlockers
<1>2. Withdrawn(s)
  BY NotWaiting, NothingWithdrawn DEF LocksInvariant, QueueInvariant
<1>3. pc[s] \notin Loading
  BY DEF Loading
<1> QED
  BY <1>1, <1>2, <1>3 DEF Moves, Acquire

\* Releasing it.
LEMMA ReleaseMoves ==
  ASSUME TypeOK, LocksInvariant, NEW s \in Session, NEW point \in Point, Goto(s, point), May(s, point),
         Release(s), LWAt(point) = "none", UNCHANGED <<granted, queue>>,
         pc[s] \notin {"q1", "q2", "q3", "lock"}, pc[s] \in Loading => point = "lock_read",
         point \notin Loading,
         \/ UNCHANGED cache_filled /\ pc[s] \notin Loading
         \/ pc[s] = "filled" /\ point = "lock_read" /\ cache_filled'
         \/ pc[s] = "invalidate" /\ ~cache_filled'
  PROVE  Moves(s, point)
<1>1. Withdrawn(s)
  BY NotWaiting, NothingWithdrawn DEF LocksInvariant, QueueInvariant
<1> QED
  BY <1>1 DEF Moves, Release

\* The end of the transaction.
LEMMA UnlockMoves ==
  ASSUME TypeOK, LocksInvariant, NEW s \in Session, Unlock(s), Goto(s, "idle"), UNCHANGED cache_filled,
         lwlock' = [lwlock EXCEPT ![s] = "none"]
  PROVE  Moves(s, "idle")
<1>1. LWAt("idle") = "none" /\ May(s, "idle") /\ "idle" \in Point /\ "idle" \notin Loading
  BY DEF LWAt, Writing, Loading, May, CallPoints, Point
<1>2. Withdrawn(s) /\ granted' = [granted EXCEPT ![s] = NoTable]
  BY DEF Unlock, Withdrawn
<1> QED
  BY <1>1, <1>2 DEF Moves

LEMMA StatementMoves ==
  ASSUME TypeOK, LocksInvariant, NEW s \in Session, Call(s) \/ Invalidate(s)
  PROVE  \E point : Moves(s, point)
<1>1. pc[s] \in {"idle", "open"}
  BY DEF Call, Invalidate, Begin
<1>2. \A t \in Table : ~Waits(s, t)
  BY <1>1, NotWaiting DEF LocksInvariant, QueueInvariant
<1>3. PICK point \in {"check", "lock_invalidate", "open"} :
        Goto(s, point) /\ May(s, point) /\ UNCHANGED <<cache_filled, locks>>
  BY DEF Call, Invalidate, Begin, May, CallPoints, Loading
<1>4. point \in Point /\ LWAt(point) = LWAt(pc[s]) /\ pc[s] \notin Loading /\ point \notin Loading
  BY <1>1, <1>3 DEF Point, LWAt, Writing, Loading
<1> QED
  BY <1>2, <1>3, <1>4, PointMoves

LEMMA CheckMoves ==
  ASSUME TypeOK, LocksInvariant, NEW s \in Session, CheckFilled(s) \/ Recheck(s)
  PROVE  \E point : Moves(s, point)
<1>0. pc[s] \in {"check", "recheck"} /\ "call" \in may[s]
  BY DEF CheckFilled, Recheck, LocksInvariant, May, CallPoints
<1>1. \A t \in Table : ~Waits(s, t)
  BY <1>0, NotWaiting DEF LocksInvariant, QueueInvariant
<1>2. CASE CheckFilled(s)
  <2>1. PICK point \in {"lock_read", "lock_fill"} : Goto(s, point) /\ UNCHANGED <<cache_filled, locks>>
    BY <1>2 DEF CheckFilled
  <2>2. /\ point \in Point /\ LWAt(point) = LWAt(pc[s]) /\ pc[s] \notin Loading /\ point \notin Loading
        /\ May(s, point)
    BY <1>0, <1>2, <2>1 DEF CheckFilled, Point, LWAt, Writing, Loading, May
  <2> QED
    BY <1>1, <2>1, <2>2, PointMoves
<1>3. CASE Recheck(s) /\ cache_filled
  <2>1. Release(s) /\ Goto(s, "lock_read") /\ UNCHANGED <<cache_filled, granted, queue>>
    BY <1>3 DEF Recheck
  <2>2. /\ "lock_read" \in Point /\ LWAt("lock_read") = "none" /\ May(s, "lock_read")
        /\ pc[s] \notin Loading /\ pc[s] \notin {"q1", "q2", "q3", "lock"} /\ "lock_read" \notin Loading
    BY <1>0 DEF Point, LWAt, Writing, Loading, May
  <2> QED
    BY <2>1, <2>2, ReleaseMoves
<1>4. CASE Recheck(s) /\ ~cache_filled
  <2>1. pc[s] = "recheck" /\ Goto(s, "q1") /\ UNCHANGED <<cache_filled, locks>>
    BY <1>4 DEF Recheck, locks
  <2>2. /\ "q1" \in Point /\ LWAt("q1") = LWAt(pc[s]) /\ pc[s] \notin Loading /\ May(s, "q1")
    BY <1>0, <2>1 DEF Point, LWAt, Writing, Loading, May
  <2> QED
    BY <1>1, <1>4, <2>1, <2>2, PointMoves
<1> QED
  BY <1>2, <1>3, <1>4

LEMMA RunQueryMoves ==
  ASSUME TypeOK, LocksInvariant, NEW s \in Session, RunQuery(s)
  PROVE  \E point : Moves(s, point)
<1>1. /\ pc[s] \in {"q1", "q2", "q3"} /\ pc[s] \in Loading /\ granted[s][Locks(pc[s])] # "none"
      /\ "call" \in may[s] /\ ~cache_filled
  BY DEF RunQuery, LocksInvariant, FillState, May, CallPoints, Loading
<1>2. ASSUME NEW t \in Table PROVE ~Waits(s, t)
  <2> SUFFICES ASSUME NEW i \in DOMAIN queue[t], queue[t][i].session = s PROVE FALSE
    BY DEF Waits
  <2>1. queue[t][i].mode \in {"share", "exclusive"}
    BY Entry DEF Mode
  <2> QED
    BY <1>1, <2>1 DEF LocksInvariant, QueueInvariant, Asked
<1>3. PICK point : point = After(pc[s])
  OBVIOUS
<1>4. point \in {"q2", "q3", "filled"}
  BY <1>1, <1>3 DEF After
<1>5. /\ point \in Point /\ point \in Loading /\ LWAt(point) = LWAt(pc[s]) /\ May(s, point)
  BY <1>1, <1>4 DEF Point, LWAt, Writing, Loading, May
<1>6. Goto(s, point) /\ UNCHANGED <<cache_filled, locks>>
  BY <1>3 DEF RunQuery
<1> QED
  BY <1>1, <1>2, <1>5, <1>6, PointMoves

LEMMA FinishMoves ==
  ASSUME TypeOK, LocksInvariant, NEW s \in Session, FinishFill(s) \/ Answer(s) \/ InvalidateEnds(s)
  PROVE  \E point : Moves(s, point)
<1>1. CASE FinishFill(s)
  <2>1. /\ pc[s] = "filled" /\ "lock_read" \in Point /\ LWAt("lock_read") = "none" /\ May(s, "lock_read")
        /\ "lock_read" \notin Loading /\ pc[s] \notin {"q1", "q2", "q3", "lock"}
    BY <1>1 DEF FinishFill, Point, LWAt, Writing, Loading, May, CallPoints, LocksInvariant
  <2> QED
    BY <1>1, <2>1, ReleaseMoves DEF FinishFill
<1>2. CASE Answer(s) \/ InvalidateEnds(s)
  <2>1. /\ pc[s] \in {"read", "invalidate"} /\ pc[s] \notin Loading /\ "open" \in Point
        /\ LWAt("open") = "none" /\ May(s, "open") /\ "open" \notin Loading
        /\ pc[s] \notin {"q1", "q2", "q3", "lock"}
    BY <1>2 DEF Answer, InvalidateEnds, Point, LWAt, Writing, Loading, May, CallPoints
  <2>2. CASE Answer(s)
    BY <2>1, <2>2, ReleaseMoves DEF Answer
  <2>3. CASE InvalidateEnds(s)
    BY <2>1, <2>3, ReleaseMoves DEF InvalidateEnds
  <2> QED
    BY <1>2, <2>2, <2>3
<1> QED
  BY <1>1, <1>2

LEMMA LockMoves ==
  ASSUME TypeOK, LocksInvariant, NEW s \in Session, LockToFill(s) \/ LockToRead(s) \/ LockToInvalidate(s)
  PROVE  \E point : Moves(s, point)
<1>1. CASE LockToFill(s)
  <2>1. /\ pc[s] = "lock_fill" /\ "recheck" \in Point /\ LWAt("recheck") = LWMode(pc[s])
        /\ May(s, "recheck") /\ "recheck" \notin Loading
    BY <1>1 DEF LockToFill, Point, LWAt, LWMode, Writing, Loading, May, CallPoints, LocksInvariant
  <2> QED
    BY <1>1, <2>1, AcquireMoves DEF LockToFill
<1>2. CASE LockToRead(s)
  <2>1. /\ pc[s] = "lock_read" /\ "read" \in Point /\ LWAt("read") = LWMode(pc[s])
        /\ May(s, "read") /\ "read" \notin Loading
    BY <1>2 DEF LockToRead, Point, LWAt, LWMode, Writing, Loading, May, CallPoints, LocksInvariant
  <2> QED
    BY <1>2, <2>1, AcquireMoves DEF LockToRead
<1>3. CASE LockToInvalidate(s)
  <2>1. /\ pc[s] = "lock_invalidate" /\ "invalidate" \in Point /\ LWAt("invalidate") = LWMode(pc[s])
        /\ May(s, "invalidate") /\ "invalidate" \notin Loading
    BY <1>3 DEF LockToInvalidate, Point, LWAt, LWMode, Writing, Loading, May, CallPoints, LocksInvariant
  <2> QED
    BY <1>3, <2>1, AcquireMoves DEF LockToInvalidate
<1> QED
  BY <1>1, <1>2, <1>3

LEMMA EndMoves ==
  ASSUME TypeOK, LocksInvariant, NEW s \in Session, Commit(s) \/ Abort(s) \/ LockTableEnds(s)
  PROVE  \E point : Moves(s, point)
<1>1. CASE Commit(s)
  <2>1. lwlock[s] = "none"
    BY <1>1 DEF Commit, LocksInvariant, LWInvariant, LWAt, Writing, Loading
  <2>2. lwlock' = [lwlock EXCEPT ![s] = "none"]
    BY <1>1, <2>1 DEF Commit, TypeOK
  <2> QED
    BY <1>1, <2>2, UnlockMoves DEF Commit
<1>2. CASE Abort(s)
  BY <1>2, UnlockMoves DEF Abort, Release
<1>3. CASE LockTableEnds(s)
  <2>1. /\ pc[s] = "lock" /\ "open" \in Point /\ LWAt("open") = LWAt(pc[s]) /\ May(s, "open")
        /\ "open" \notin Loading /\ pc[s] \notin Loading
    BY <1>3 DEF LockTableEnds, Point, LWAt, Writing, Loading, May, CallPoints
  <2> QED
    BY <1>3, <2>1, PointMoves DEF LockTableEnds
<1> QED
  BY <1>1, <1>2, <1>3

LEMMA AskTableLocks ==
  ASSUME TypeOK, LocksInvariant, NEW s \in Session, AskTable(s), UNCHANGED may
  PROVE  LocksInvariant' /\ queue' \in [Table -> Seq(Requests)]
<1> DEFINE t == Locks(pc[s])
<1>1. pc[s] \in {"q1", "q2", "q3"} /\ t \in Table /\ UNCHANGED <<cache_filled, lwlock, granted, pc>>
  BY DEF AskTable, Locks, Table
<1>2. ASSUME NEW u \in Table PROVE ~Waits(s, u)
  <2> SUFFICES ASSUME NEW i \in DOMAIN queue[u], queue[u][i].session = s PROVE FALSE
    BY DEF Waits
  <2>1. queue[u][i].mode \in {"share", "exclusive"}
    BY Entry DEF Mode
  <2>2. u = t
    BY <1>1, <2>1 DEF LocksInvariant, QueueInvariant, Asked
  <2> QED
    BY <2>2 DEF AskTable, Waits
<1>3. Asks(s, t, "share") /\ granted[s][t] = "none" /\ "share" \in Mode
  BY DEF AskTable, Request, Asks, Mode
<1>4. QueueInvariant' /\ queue' \in [Table -> Seq(Requests)]
  BY <1>1, <1>2, <1>3, AsksQueue DEF LocksInvariant
<1>5. (LWInvariant /\ Kept /\ FillState /\ \A r \in Session : May(r, pc[r]))'
  BY <1>1 DEF LocksInvariant, LWInvariant, Kept, FillState, May
<1> QED
  BY <1>4, <1>5 DEF LocksInvariant

LEMMA LockTableLocks ==
  ASSUME TypeOK, LocksInvariant, NEW s \in Session, NEW t \in Table, LockTable(s, t), UNCHANGED may
  PROVE  LocksInvariant' /\ queue' \in [Table -> Seq(Requests)]
<1>1. /\ pc[s] \in {"idle", "open"} /\ "lock" \in may[s] /\ UNCHANGED <<cache_filled, lwlock, granted>>
      /\ pc'[s] = "lock" /\ \A r \in Session \ {s} : pc'[r] = pc[r]
  BY DEF LockTable, Begin, Goto, TypeOK
<1>2. \A u \in Table : ~Waits(s, u)
  BY <1>1, NotWaiting DEF LocksInvariant, QueueInvariant
<1>3. Asks(s, t, "exclusive") /\ "exclusive" \in Mode
  BY DEF LockTable, Request, Asks, Mode
<1>4. QueueInvariant' /\ queue' \in [Table -> Seq(Requests)]
  BY <1>1, <1>2, <1>3, AsksQueue DEF LocksInvariant
<1>5. LWAt("lock") = LWAt(pc[s]) /\ pc[s] \notin Loading /\ "lock" \notin Loading /\ May(s, "lock")'
  BY <1>1 DEF LWAt, Writing, Loading, May, CallPoints
<1>6. LWInvariant'
  BY <1>1, <1>5 DEF LocksInvariant, LWInvariant
<1>7. Kept'
  BY <1>1 DEF LocksInvariant, Kept
<1>8. FillState'
  BY <1>1, <1>5 DEF LocksInvariant, FillState
<1>9. (\A r \in Session : May(r, pc[r]))'
  BY <1>1, <1>5 DEF LocksInvariant, May
<1> QED
  BY <1>4, <1>6, <1>7, <1>8, <1>9 DEF LocksInvariant

LEMMA GrantLocks ==
  ASSUME TypeOK, LocksInvariant, NEW s \in Session, Grant(s), UNCHANGED may
  PROVE  /\ LocksInvariant' /\ queue' \in [Table -> Seq(Requests)]
         /\ granted' \in [Session -> [Table -> {"none"} \cup Mode]]
<1>1. PICK t \in Table : \E i \in DOMAIN queue[t] :
        /\ queue[t][i].session = s
        /\ granted' = [granted EXCEPT ![s][t] = queue[t][i].mode]
        /\ queue' = [queue EXCEPT ![t] = RemoveAt(@, i)]
  BY DEF Grant
<1>2. PICK i \in DOMAIN queue[t] :
        /\ queue[t][i].session = s
        /\ granted' = [granted EXCEPT ![s][t] = queue[t][i].mode]
        /\ queue' = [queue EXCEPT ![t] = RemoveAt(@, i)]
  BY <1>1
<1>3. PICK mode \in Mode : mode = queue[t][i].mode
  BY Entry
<1>4. UNCHANGED <<cache_filled, lwlock, pc>>
  BY DEF Grant
<1>5. /\ granted' \in [Session -> [Table -> {"none"} \cup Mode]]
      /\ \A r \in Session, u \in Table :
           granted'[r][u] = IF r = s /\ u = t THEN mode ELSE granted[r][u]
      /\ \A r \in Session \ {s} : granted'[r] = granted[r]
  BY <1>2, <1>3 DEF TypeOK
<1>6. OthersKeep(s)
  <2>1. pc' = [pc EXCEPT ![s] = pc[s]] /\ pc[s] \in Point
    BY <1>4 DEF TypeOK
  <2> QED
    BY <1>5, <2>1 DEF OthersKeep, Goto
<1>7. QueueInvariant' /\ queue' \in [Table -> Seq(Requests)]
  BY <1>2, <1>6, GrantWithdraws, WithdrawnQueue DEF LocksInvariant, QueueInvariant
<1>8. /\ mode = "share" => pc[s] \in Loading /\ "call" \in may[s]
      /\ mode = "exclusive" => "lock" \in may[s]
  BY <1>2, <1>3 DEF LocksInvariant, QueueInvariant, Asked, May, CallPoints, Loading
<1>9. Kept'
  BY <1>5, <1>8 DEF LocksInvariant, Kept
<1>10. FillState'
  BY <1>4, <1>5, <1>8 DEF LocksInvariant, FillState
<1>11. (LWInvariant /\ \A r \in Session : May(r, pc[r]))'
  BY <1>4 DEF LocksInvariant, LWInvariant, May
<1> QED
  BY <1>5, <1>7, <1>9, <1>10, <1>11 DEF LocksInvariant

\* What each step is.
LEMMA StepKinds ==
  ASSUME TypeOK, LocksInvariant, Next
  PROVE  /\ UNCHANGED may
         /\ \E s \in Session :
              \/ \E point : Moves(s, point)
              \/ AskTable(s) \/ Grant(s) \/ \E t \in Table : LockTable(s, t)
<1>1. CASE DetectDeadlock
  <2>1. PICK s \in Session : Abort(s)
    BY <1>1 DEF DetectDeadlock, Stuck
  <2> QED
    BY <2>1, EndMoves DEF Next
<1>2. ASSUME NEW s \in Session, Step(s) \/ Call(s) \/ Invalidate(s) \/ Fails(s)
      PROVE  (\E point : Moves(s, point)) \/ AskTable(s) \/ Grant(s)
  BY <1>2, StatementMoves, CheckMoves, RunQueryMoves, FinishMoves, LockMoves, EndMoves DEF Step, Fails
<1> QED
  BY <1>1, <1>2 DEF Next

-----------------------------------------------------------------------------
(* The invariant *)

LEMMA InitLocks == Init => LocksInvariant
<1> SUFFICES ASSUME Init PROVE LocksInvariant
  OBVIOUS
<1>1. /\ \A s \in Session : pc[s] = "idle" /\ lwlock[s] = "none" /\ granted[s] = NoTable
      /\ \A t \in Table : DOMAIN queue[t] = {} /\ NoTable[t] = "none"
  BY DEF Init, NoTable
<1>2. QueueInvariant
  BY <1>1 DEF QueueInvariant, OneRequest, Asked
<1>3. LWInvariant
  BY <1>1 DEF LWInvariant, LWAt, Writing, Loading
<1>4. Kept /\ FillState /\ \A s \in Session : May(s, pc[s])
  BY <1>1 DEF Init, Kept, FillState, May, CallPoints, Loading
<1> QED
  BY <1>2, <1>3, <1>4 DEF LocksInvariant

LEMMA NextLocks ==
  ASSUME TypeOK, LocksInvariant, [Next]_vars
  PROVE  LocksInvariant'
<1>1. CASE Next
  BY <1>1, StepKinds, MovesLocks, AskTableLocks, LockTableLocks, GrantLocks
<1>2. CASE UNCHANGED vars
  BY <1>2 DEF vars, locks, LocksInvariant, QueueInvariant, OneRequest, Asked, LWInvariant, Kept,
              FillState, May
<1> QED
  BY <1>1, <1>2

-----------------------------------------------------------------------------
(* Types *)

\* Requests of one session are one, so that it waits for one table at a time.
LEMMA OneTable ==
  ASSUME OneRequest, NEW s \in Session
  PROVE  Cardinality({t \in Table : Waits(s, t)}) <= 1
<1> DEFINE waited == {t \in Table : Waits(s, t)}
<1>1. \A t, u \in waited : t = u
  BY DEF OneRequest, Waits
<1>2. CASE waited = {}
  BY <1>2, FS_EmptySet
<1>3. CASE waited # {}
  <2>1. PICK t \in waited : TRUE
    BY <1>3
  <2>2. waited = {t}
    BY <1>1, <2>1
  <2>3. Cardinality({t}) = 1
    BY FS_Singleton
  <2>4. Cardinality(waited) = 1
    BY <2>2, <2>3, Zenon
  <2> QED
    BY <2>4
<1> QED
  BY <1>2, <1>3

LEMMA OneTables ==
  OneRequest => \A s \in Session : Cardinality({t \in Table : Waits(s, t)}) <= 1
BY OneTable

LEMMA TypeInit == Init => TypeOK
<1> SUFFICES ASSUME Init PROVE TypeOK
  OBVIOUS
<1>1. NoTable \in [Table -> {"none"} \cup Mode]
  BY DEF NoTable
<1>2. OneRequest
  BY InitLocks DEF LocksInvariant, QueueInvariant
<1>3. queue \in [Table -> Seq(Requests)]
  BY DEF Init
<1>4. "idle" \in Point /\ 0 \in 0 .. MaxStatements
  BY LocksAssumption DEF Point
<1> QED
  BY <1>1, <1>2, <1>3, <1>4, OneTable DEF Init, TypeOK, Requests

\* What a step of session s leaves of the remaining variables.
LEMMA StatementsType ==
  ASSUME TypeOK, [Next]_vars
  PROVE  statements' \in [Session -> 0 .. MaxStatements] /\ cache_filled' \in BOOLEAN
<1>1. ASSUME NEW s \in Session, NEW op, NEW point, Begin(s, op, point)
      PROVE  statements' \in [Session -> 0 .. MaxStatements]
  <2>1. statements[s] \in 0 .. MaxStatements /\ statements[s] < MaxStatements /\ MaxStatements \in Nat
    BY <1>1, LocksAssumption DEF Begin, TypeOK
  <2>2. statements[s] + 1 \in 0 .. MaxStatements
    BY <2>1
  <2> QED
    BY <1>1, <2>2 DEF Begin, TypeOK
<1>2. CASE UNCHANGED vars
  BY <1>2 DEF vars, TypeOK
<1>3. ASSUME NEW s \in Session, Call(s) \/ Invalidate(s) \/ \E t \in Table : LockTable(s, t)
      PROVE  statements' \in [Session -> 0 .. MaxStatements] /\ cache_filled' \in BOOLEAN
  BY <1>1, <1>3 DEF Call, Invalidate, LockTable, TypeOK
<1>4. ASSUME NEW s \in Session, Step(s) \/ Abort(s)
      PROVE  UNCHANGED statements /\ cache_filled' \in BOOLEAN
  BY <1>4 DEF Step, Abort, CheckFilled, LockToFill, Recheck, AskTable, Grant, RunQuery, FinishFill,
              LockToRead, Answer, LockToInvalidate, InvalidateEnds, LockTableEnds, Commit, TypeOK
<1>5. CASE DetectDeadlock
  BY <1>4, <1>5 DEF DetectDeadlock, Stuck, TypeOK
<1> QED
  BY <1>2, <1>3, <1>4, <1>5 DEF Next, Fails, TypeOK

LEMMA MovesType ==
  ASSUME TypeOK, LocksInvariant, NEW s \in Session, NEW point, Moves(s, point)
  PROVE  /\ queue' \in [Table -> Seq(Requests)] /\ pc' \in [Session -> Point]
         /\ lwlock' \in [Session -> {"none"} \cup Mode]
         /\ granted' \in [Session -> [Table -> {"none"} \cup Mode]]
<1>1. LWAt(point) \in {"none"} \cup Mode /\ NoTable \in [Table -> {"none"} \cup Mode]
  BY DEF LWAt, Mode, NoTable
<1>2. OthersKeep(s)
  BY DEF Moves, OthersKeep, TypeOK
<1>3. queue' \in [Table -> Seq(Requests)]
  BY <1>2, WithdrawnQueue DEF Moves, LocksInvariant
<1> QED
  BY <1>1, <1>3 DEF Moves, Goto, TypeOK

LEMMA TypeNext ==
  ASSUME TypeOK, LocksInvariant, [Next]_vars
  PROVE  TypeOK'
<1>0. OneRequest'
  BY NextLocks DEF LocksInvariant, QueueInvariant
<1>1. (\A s \in Session : Cardinality({t \in Table : Waits(s, t)}) <= 1)'
  BY <1>0, OneTables, PTL
<1>2. CASE UNCHANGED vars
  BY <1>2 DEF vars, locks, TypeOK, Waits
<1>3. CASE Next
  <2>1. PICK s \in Session :
          \/ \E point : Moves(s, point)
          \/ AskTable(s) \/ Grant(s) \/ \E t \in Table : LockTable(s, t)
    BY <1>3, StepKinds
  <2>2. UNCHANGED may
    BY <1>3 DEF Next
  <2>3. /\ queue' \in [Table -> Seq(Requests)] /\ pc' \in [Session -> Point]
        /\ lwlock' \in [Session -> {"none"} \cup Mode]
        /\ granted' \in [Session -> [Table -> {"none"} \cup Mode]]
    <3>1. CASE \E point : Moves(s, point)
      BY <3>1, MovesType
    <3>2. CASE AskTable(s)
      BY <2>2, <3>2, AskTableLocks DEF AskTable, TypeOK
    <3>3. CASE Grant(s)
      BY <2>2, <3>3, GrantLocks DEF Grant, TypeOK
    <3>4. CASE \E t \in Table : LockTable(s, t)
      <4>1. UNCHANGED <<lwlock, granted>> /\ pc' = [pc EXCEPT ![s] = "lock"] /\ "lock" \in Point
        BY <3>4 DEF LockTable, Begin, Goto, Point
      <4> QED
        BY <2>2, <3>4, <4>1, LockTableLocks DEF TypeOK
    <3> QED
      BY <2>1, <3>1, <3>2, <3>3, <3>4
  <2> QED
    BY <1>1, <2>2, <2>3, StatementsType DEF TypeOK, Requests
<1> QED
  BY <1>2, <1>3

LEMMA Invariant == Spec => [](TypeOK /\ LocksInvariant)
<1>1. TypeOK /\ LocksInvariant /\ [Next]_vars => (TypeOK /\ LocksInvariant)'
  BY TypeNext, NextLocks
<1> QED
  BY <1>1, TypeInit, InitLocks, PTL DEF Spec

\* The variables have their types: a session waits for one table at a time,
\* also where it is aborted while it waits, for any workload.
THEOREM TypeCorrect == Spec => []TypeOK
  BY Invariant, PTL

-----------------------------------------------------------------------------
(* Cycles of waits *)

\* Calls, locks and invalidations are kept apart: nobody locks a calendar
\* table; or who locks one does nothing else, and either nobody invalidates
\* the cache or one session alone calls.
Apart ==
  \A w \in Workload :
    \/ \A s \in Session : "lock" \notin w[s]
    \/ /\ \A s \in Session : "lock" \in w[s] => w[s] = {"lock"}
       /\ \/ \A s \in Session : "invalidate" \notin w[s]
          \/ \A r, s \in Session : "call" \in w[r] /\ "call" \in w[s] => r = s

\* Who has the LWLock waits for nothing but the tables of a query.
LEMMA HolderWaits ==
  ASSUME TypeOK, LocksInvariant, NEW h \in Session, lwlock[h] # "none"
  PROVE  /\ LWBlockers(h) = {}
         /\ TableBlockers(h) # {} => pc[h] \in {"q1", "q2", "q3"}
<1>1. pc[h] \in Writing \cup {"read"}
  BY DEF LocksInvariant, LWInvariant, LWAt
<1>2. LWBlockers(h) = {}
  BY <1>1 DEF LWBlockers, Writing, Loading
<1>3. ASSUME TableBlockers(h) # {} PROVE pc[h] \in {"q1", "q2", "q3"}
  <2>1. PICK t \in Table : Waits(h, t)
    BY <1>3 DEF TableBlockers, Waits
  <2> QED
    BY <1>1, <2>1, NotWaiting DEF LocksInvariant, QueueInvariant, Writing, Loading
<1> QED
  BY <1>2, <1>3

\* Who waits for the LWLock keeps nobody from a table while its holder waits for one.
LEMMA WaiterBlocksNobody ==
  ASSUME TypeOK, LocksInvariant, Apart,
         NEW s \in Session, NEW x \in TableBlockers(s), LWBlockers(x) # {},
         NEW h \in Session, lwlock[h] # "none", pc[h] \in {"q1", "q2", "q3"}
  PROVE  FALSE
<1>0. PICK t \in Table : \E i \in DOMAIN queue[t] :
        queue[t][i].session = s /\ x \in Before(t, i) \cup Holding(t, i)
  BY DEF TableBlockers
<1>1. PICK i \in DOMAIN queue[t] :
        queue[t][i].session = s /\ x \in Before(t, i) \cup Holding(t, i)
  BY <1>0
<1>2. pc[x] \in {"lock_fill", "lock_invalidate", "lock_read"}
  BY DEF LWBlockers
<1>3. x \notin Before(t, i)
  <2> SUFFICES ASSUME x \in Before(t, i) PROVE FALSE
    OBVIOUS
  <2>1. PICK j \in 1 .. i - 1 : queue[t][j].session = x
    BY DEF Before
  <2>2. queue[t] \in Seq(Requests)
    BY Entry, <1>1
  <2>3. j \in DOMAIN queue[t]
    BY <2>1, <2>2
  <2>4. x \in Session /\ Waits(x, t)
    BY <2>1, <2>3, Entry DEF Waits
  <2> QED
    BY <1>2, <2>4, NotWaiting DEF LocksInvariant, QueueInvariant
<1>4. x \in Session /\ Conflict(granted[x][t], queue[t][i].mode)
  BY <1>1, <1>3 DEF Holding
<1>5. /\ granted[x][t] # "none" /\ granted[x][t] \in {"none", "share", "exclusive"}
      /\ granted[x][t] = "exclusive" \/ queue[t][i].mode = "exclusive"
  BY <1>4 DEF Conflict, TypeOK, Mode
<1>6. \E r \in Session : "lock" \in may[r]
  <2>1. granted[x][t] = "exclusive" => "lock" \in may[x]
    BY <1>4 DEF LocksInvariant, Kept
  <2>2. queue[t][i].mode = "exclusive" => "lock" \in may[s]
    BY <1>1 DEF LocksInvariant, QueueInvariant, Asked, May
  <2> QED
    BY <1>4, <1>5, <2>1, <2>2
<1>7. may \in Workload /\ \A r \in Session : "lock" \in may[r] => may[r] = {"lock"}
  BY <1>6 DEF Apart, TypeOK
<1>8. "call" \in may[x] \/ "invalidate" \in may[x]
  BY <1>2, <1>4 DEF LocksInvariant, May, CallPoints
<1>9. granted[x][t] = "share" /\ "call" \in may[x]
  BY <1>4, <1>5, <1>7, <1>8 DEF LocksInvariant, Kept
<1>10. "call" \in may[h] /\ x # h /\ pc[h] \in Loading /\ pc[x] \notin Loading
  BY <1>2 DEF LocksInvariant, May, CallPoints, Loading
<1>11. \A r \in Session : "invalidate" \notin may[r]
  BY <1>4, <1>6, <1>7, <1>9, <1>10 DEF Apart
<1> QED
  BY <1>4, <1>9, <1>10, <1>11 DEF LocksInvariant, FillState

LEMMA CyclesSeen ==
  ASSUME TypeOK, LocksInvariant, Apart
  PROVE  NoHiddenDeadlock
<1> SUFFICES ASSUME NEW sessions \in Stuck(Blockers)
             PROVE  \E seen \in Stuck(TableBlockers) : seen \subseteq sessions
  BY DEF NoHiddenDeadlock
<1> DEFINE seen == {s \in sessions : TableBlockers(s) \cap sessions # {}}
<1>1. /\ sessions \subseteq Session /\ sessions # {}
      /\ \A s \in sessions : Blockers(s) \cap sessions # {}
  BY DEF Stuck
<1>2. ASSUME NEW h \in sessions, lwlock[h] # "none"
      PROVE  h \in seen /\ pc[h] \in {"q1", "q2", "q3"}
  BY <1>1, <1>2, HolderWaits DEF Blockers
<1>3. ASSUME NEW x \in sessions, x \notin seen
      PROVE  LWBlockers(x) # {} /\ \E h \in sessions : lwlock[h] # "none"
  BY <1>1, <1>3 DEF Blockers, LWBlockers, Conflict
<1>4. seen # {}
  BY <1>1, <1>2, <1>3
<1>5. ASSUME NEW s \in seen PROVE TableBlockers(s) \cap seen # {}
  <2>1. PICK x \in TableBlockers(s) : x \in sessions
    BY <1>5
  <2>2. CASE x \in seen
    BY <2>1, <2>2
  <2>3. CASE x \notin seen
    <3>1. PICK h \in sessions : lwlock[h] # "none"
      BY <1>3, <2>1, <2>3
    <3> QED
      BY <1>1, <1>2, <1>3, <1>5, <2>1, <2>3, <3>1, WaiterBlocksNobody
  <2> QED
    BY <2>2, <2>3
<1>6. seen \in Stuck(TableBlockers)
  BY <1>1, <1>4, <1>5 DEF Stuck
<1> QED
  BY <1>6

\* Where the workload keeps calls, locks and invalidations apart, the LWLock of
\* the cache takes part in no cycle of waits, for any number of sessions: every
\* deadlock is one that the deadlock detector sees.
THEOREM NoneHidden == ASSUME Apart PROVE Spec => []NoHiddenDeadlock
<1>1. TypeOK /\ LocksInvariant => NoHiddenDeadlock
  BY CyclesSeen
<1> QED
  BY <1>1, Invariant, PTL

=============================================================================
