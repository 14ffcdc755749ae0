--------------------------- MODULE CalendarCache ---------------------------
(***************************************************************************)
(* What the extension promises its callers: the cache is either empty or   *)
(* the complete image of one committed version of the calendar tables; it  *)
(* is loaded and dropped as a whole; and a reply is computed in one        *)
(* instant from what the cache then holds.                                 *)
(***************************************************************************)
EXTENDS Integers

CONSTANTS Backend, MaxVersion, Tables

VARIABLES
  db,       \* the committed version of the calendar tables
  content,  \* calendar id -> its dates, for the calendars in the cache
  reply     \* reply[b]: the part of content the last reply to b was made from

vars == <<db, content, reply>>

Nothing == [id \in {} |-> << >>]

Init == /\ db = 1
        /\ content = Nothing
        /\ reply = [b \in Backend |-> Nothing]

Update == /\ db < MaxVersion
          /\ db' = db + 1
          /\ UNCHANGED <<content, reply>>

Load == /\ content = Nothing
        /\ \E v \in 1 .. db : content' = Tables[v].dates
        /\ UNCHANGED <<db, reply>>

Drop == /\ content' = Nothing
        /\ UNCHANGED <<db, reply>>

Ask(b) == /\ reply' = [reply EXCEPT ![b] = Nothing]
          /\ UNCHANGED <<db, content>>

Reply(b) == /\ \E ids \in SUBSET DOMAIN content :
                 reply' = [reply EXCEPT ![b] = [id \in ids |-> content[id]]]
            /\ UNCHANGED <<db, content>>

\* The server restarts: every session ends and the cache is lost.
Restart == /\ content' = Nothing
           /\ reply' = [b \in Backend |-> Nothing]
           /\ UNCHANGED db

Next == Update \/ Load \/ Drop \/ Restart \/ \E b \in Backend : Ask(b) \/ Reply(b)

Spec == Init /\ [][Next]_vars

=============================================================================
