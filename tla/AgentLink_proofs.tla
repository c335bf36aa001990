-------------------------- MODULE AgentLink_proofs --------------------------
(***************************************************************************)
(* Proofs about AgentLink for any items, Hubs and bounds: an item counts   *)
(* as synced only when a Hub holds it, an SMS only when the Hub of the     *)
(* saved configuration does.  And proofs about Schedules, the loops that   *)
(* stand in for the Hub when it does not schedule: a fixed entry starts    *)
(* once in its minute, a periodic one not within its period.               *)
(***************************************************************************)
EXTENDS AgentLink, Schedules, SequenceTheorems, FiniteSetTheorems, TLAPS

(* A session that has got to its loop is one with the Hub the agent knows,  *)
(* and only such a session exchanges envelopes: the Hub does not change     *)
(* under an answer.                                                         *)
InLoop == session \in {"up", "broken"}

LoopInv ==
  /\ InLoop => known = hub
  /\ ~InLoop => wire = {} /\ replies = {} /\ handling = Nothing

(* What was accepted is held by the Hub of the session, and an ack that is  *)
(* being handled has marked its item.                                       *)
AnswerInv ==
  /\ \A m \in Envelope : <<m, "accepted">> \in replies => m.item \in holds[hub]
  /\ handling # Nothing => status[handling.envelope.item] = "synced"

(* The change of Hub, step by step.                                         *)
ChangeInv ==
  /\ session = "cleared" => delivered \cap SmsItems = {}
  /\ session = "reset" => \A i \in SmsItems : status[i] # "synced"

(* What SyncedIsHeld says of items, with the Hub's set for the union.       *)
HeldInv ==
  /\ \A i \in Items : status[i] = "synced" =>
       /\ \E h \in Hubs : i \in holds[h]
       /\ i \in SmsItems /\ known # NoHub => i \in holds[known]
  /\ \A i \in delivered : status[i] = "synced"

IInv == TypeOK /\ LoopInv /\ AnswerInv /\ ChangeInv /\ HeldInv

-----------------------------------------------------------------------------
LEMMA HandledType ==
  ASSUME handling \in Handled, handling # Nothing
  PROVE  /\ handling.step \in {"synced", "delivered"}
         /\ handling.envelope \in Envelope
         /\ handling.envelope.item \in Items
         /\ [handling EXCEPT !.step = "delivered"] \in Handled
         /\ [handling EXCEPT !.step = "delivered"].envelope = handling.envelope
BY DEF Handled, Nothing, Envelope

LEMMA NothingHasNoStep ==
  ASSUME handling \in Handled, handling.step \in {"synced", "delivered"}
  PROVE  handling # Nothing
BY DEF Nothing

(* A flush keeps the outbox typed and puts envelopes of it on the wire.     *)
LEMMA FlushStep ==
  ASSUME TypeOK, NEW box \in SUBSET Envelope, NEW noted \in SUBSET box,
         Flush(box, noted), session = "up"
  PROVE  /\ outbox' \in SUBSET Envelope
         /\ sent' \in SUBSET outbox'
         /\ wire' \in SUBSET Envelope
         /\ session' \in {"up", "broken"}
<1>1. CASE FlushCompletes(box, noted)
  BY <1>1 DEF FlushCompletes, TypeOK
<1>2. CASE FlushFails(box, noted)
  <2>1. PICK some \in SUBSET (box \ noted) : wire' = wire \cup some
    BY <1>2 DEF FlushFails
  <2> QED BY <1>2, <2>1 DEF FlushFails, TypeOK
<1> QED BY <1>1, <1>2 DEF Flush

LEMMA EnqueuedType ==
  ASSUME TypeOK, NEW S \in SUBSET {i \in ToEnqueue : made[i] < MaxEnvelopes}
  PROVE  /\ Enqueued(S) \in SUBSET Envelope
         /\ [i \in Items |-> IF i \in S THEN made[i] + 1 ELSE made[i]]
              \in [Items -> 0..MaxEnvelopes]
<1>1. \A i \in S : i \in Items /\ made[i] \in 0..MaxEnvelopes /\ made[i] < MaxEnvelopes
  BY DEF ToEnqueue, FirstPending, Pending, Items, TypeOK
<1>2. \A i \in S : made[i] + 1 \in 1..MaxEnvelopes
  BY <1>1, ConstantsAssumption
<1>3. \A i \in Items : made[i] \in 0..MaxEnvelopes
  BY DEF TypeOK
<1>4. \A i \in S : made[i] + 1 \in 0..MaxEnvelopes
  BY <1>2, ConstantsAssumption
<1> QED BY <1>1, <1>2, <1>3, <1>4 DEF Enqueued, Envelope

-----------------------------------------------------------------------------
LEMMA IInvAtInit == Init => IInv
<1> SUFFICES ASSUME Init PROVE IInv
  OBVIOUS
<1>1. TypeOK
  BY ConstantsAssumption DEF Init, TypeOK, Handled
<1>2. LoopInv /\ AnswerInv /\ ChangeInv /\ HeldInv
  BY DEF Init, LoopInv, InLoop, AnswerInv, ChangeInv, HeldInv
<1> QED BY <1>1, <1>2 DEF IInv

(* A flush, whatever was queued before it.                                  *)
LEMMA FlushKeepsIInv ==
  ASSUME IInv, Idle, NEW box \in SUBSET Envelope, NEW noted \in SUBSET box,
         Flush(box, noted), made' \in [Items -> 0..MaxEnvelopes],
         UNCHANGED <<status, delivered, dead, known, handling, replies, hub, holds, breaks,
                     moves>>
  PROVE  IInv'
<1>1. /\ outbox' \in SUBSET Envelope
      /\ sent' \in SUBSET outbox'
      /\ wire' \in SUBSET Envelope
      /\ session' \in {"up", "broken"}
  BY FlushStep DEF IInv, Idle
<1>2. TypeOK'
  BY <1>1 DEF IInv, TypeOK
<1>3. LoopInv' /\ AnswerInv' /\ ChangeInv' /\ HeldInv'
  BY <1>1 DEF IInv, Idle, LoopInv, InLoop, AnswerInv, ChangeInv, HeldInv
<1> QED BY <1>2, <1>3 DEF IInv

LEMMA IInvStep == IInv /\ [Next]_vars => IInv'
<1> SUFFICES ASSUME IInv, [Next]_vars PROVE IInv'
  OBVIOUS
<1> USE DEF IInv
<1>1. ASSUME NEW i \in Items, RecordItem(i) PROVE IInv'
  <2>1. TypeOK'
    BY <1>1 DEF RecordItem, TypeOK
  <2>2. \A j \in Items : status'[j] = "synced" <=> status[j] = "synced"
    BY <1>1 DEF RecordItem, TypeOK
  <2>3. handling # Nothing => handling.envelope.item \in Items
    BY HandledType DEF TypeOK
  <2> QED BY <1>1, <2>1, <2>2, <2>3 DEF RecordItem, LoopInv, InLoop, AnswerInv, ChangeInv,
             HeldInv, TypeOK, Items
<1>2. CASE MeetKnownHub
  BY <1>2 DEF MeetKnownHub, ResetAttempts, TypeOK, LoopInv, InLoop, AnswerInv, ChangeInv, HeldInv
<1>3. CASE MeetNewHub
  BY <1>3 DEF MeetNewHub, table, TypeOK, LoopInv, InLoop, AnswerInv, ChangeInv, HeldInv
<1>4. CASE ClearDelivered
  BY <1>4 DEF ClearDelivered, TypeOK, LoopInv, InLoop, AnswerInv, ChangeInv, HeldInv
<1>5. CASE ResetSync
  <2>1. \A i \in Items : status'[i] = "synced" <=> status[i] = "synced" /\ i \notin SmsItems
    BY <1>5 DEF ResetSync, TypeOK
  <2>2. TypeOK'
    BY <1>5 DEF ResetSync, TypeOK
  <2>3. \A i \in delivered : i \in Items /\ i \notin SmsItems
    BY <1>5 DEF ResetSync, ChangeInv, TypeOK
  <2>4. SmsItems \subseteq Items
    BY DEF Items
  <2> QED BY <1>5, <2>1, <2>2, <2>3, <2>4
          DEF ResetSync, LoopInv, InLoop, AnswerInv, ChangeInv, HeldInv
<1>6. CASE AdoptHub
  BY <1>6 DEF AdoptHub, ResetAttempts, TypeOK, LoopInv, InLoop, AnswerInv, ChangeInv, HeldInv
<1>7. CASE SessionEnds
  BY <1>7, ConstantsAssumption
     DEF SessionEnds, table, TypeOK, Handled, LoopInv, InLoop, AnswerInv, ChangeInv, HeldInv
<1>8. CASE BusinessTick
  <2> DEFINE S == {i \in ToEnqueue : made[i] < MaxEnvelopes}
  <2>1. /\ Idle
        /\ made' = [i \in Items |-> IF i \in S THEN made[i] + 1 ELSE made[i]]
        /\ Flush(outbox \cup Enqueued(S), sent)
        /\ UNCHANGED <<status, delivered, dead, known, handling, replies, hub, holds, breaks,
                       moves>>
    BY <1>8, Zenon DEF BusinessTick, Enqueue
  <2>2. /\ Enqueued(S) \in SUBSET Envelope
        /\ made' \in [Items -> 0..MaxEnvelopes]
    BY <2>1, EnqueuedType
  <2>3. outbox \cup Enqueued(S) \in SUBSET Envelope /\ sent \in SUBSET (outbox \cup Enqueued(S))
    BY <2>2 DEF TypeOK
  <2> HIDE DEF S
  <2> QED BY <2>1, <2>2, <2>3, FlushKeepsIInv
<1>9. CASE FlushOutbox
  <2>1. /\ Idle /\ Flush(outbox, sent)
        /\ made' \in [Items -> 0..MaxEnvelopes]
        /\ outbox \in SUBSET Envelope /\ sent \in SUBSET outbox
        /\ UNCHANGED <<status, delivered, dead, known, handling, replies, hub, holds, breaks,
                       moves>>
    BY <1>9 DEF FlushOutbox, TypeOK
  <2> QED BY <2>1, FlushKeepsIInv
<1>10. CASE RetryOutbox
  <2>1. /\ Idle /\ Flush(outbox, ResetAttempts)
        /\ made' \in [Items -> 0..MaxEnvelopes]
        /\ outbox \in SUBSET Envelope /\ ResetAttempts \in SUBSET outbox
        /\ UNCHANGED <<status, delivered, dead, known, handling, replies, hub, holds, breaks,
                       moves>>
    BY <1>10 DEF RetryOutbox, ResetAttempts, TypeOK
  <2> QED BY <2>1, FlushKeepsIInv
<1>11. ASSUME NEW m \in Envelope, AckMarksSynced(m) PROVE IInv'
  <2>1. m.item \in Items
    BY DEF Envelope
  <2>2. /\ handling' \in Handled
        /\ handling' # Nothing
        /\ handling'.envelope = m
    BY <1>11 DEF AckMarksSynced, Handled, Nothing
  <2>3. TypeOK'
    BY <1>11, <2>1, <2>2 DEF AckMarksSynced, Reply, TypeOK
  <2>4. m.item \in holds[hub] /\ known = hub /\ session = "up" /\ hub \in Hubs
    BY <1>11 DEF AckMarksSynced, Reply, Idle, AnswerInv, LoopInv, InLoop, TypeOK
  <2>5. \A i \in Items : status'[i] = IF i = m.item THEN "synced" ELSE status[i]
    BY <1>11 DEF AckMarksSynced, TypeOK
  <2>6. /\ UNCHANGED <<delivered, known, session, wire, hub, holds>>
        /\ replies' \subseteq replies
    BY <1>11 DEF AckMarksSynced, Reply
  <2>7. delivered \subseteq Items
    BY DEF TypeOK
  <2> QED BY <2>1, <2>2, <2>3, <2>4, <2>5, <2>6, <2>7
          DEF LoopInv, InLoop, AnswerInv, ChangeInv, HeldInv
<1>12. CASE AckMarksDelivered
  <2>1. handling # Nothing
    BY <1>12, NothingHasNoStep DEF AckMarksDelivered, TypeOK
  <2>2. /\ handling' \in Handled
        /\ handling'.envelope = handling.envelope
        /\ handling.envelope.item \in Items
        /\ status[handling.envelope.item] = "synced"
    BY <1>12, <2>1, HandledType DEF AckMarksDelivered, AnswerInv, TypeOK
  <2>3. TypeOK'
    BY <1>12, <2>2 DEF AckMarksDelivered, TypeOK
  <2> QED BY <1>12, <2>2, <2>3
          DEF AckMarksDelivered, LoopInv, InLoop, AnswerInv, ChangeInv, HeldInv
<1>13. CASE AckRemoves
  BY <1>13 DEF AckRemoves, TypeOK, Handled, LoopInv, InLoop, AnswerInv, ChangeInv, HeldInv
<1>14. ASSUME NEW m \in Envelope, AckRefuses(m) PROVE IInv'
  BY <1>14 DEF AckRefuses, Reply, Idle, TypeOK, LoopInv, InLoop, AnswerInv, ChangeInv, HeldInv
<1>15. ASSUME NEW m \in Envelope, AckIgnores(m) PROVE IInv'
  <2>1. /\ Idle /\ replies' \subseteq replies
        /\ UNCHANGED <<status, delivered, outbox, sent, dead, made, handling, known, session,
                       wire, hub, holds, breaks, moves>>
    BY <1>15 DEF AckIgnores, Reply
  <2> QED BY <2>1 DEF Idle, TypeOK, LoopInv, InLoop, AnswerInv, ChangeInv, HeldInv
<1>16. ASSUME NEW m \in Envelope, HubAccepts(m) PROVE IInv'
  <2>1. m.item \in Items
    BY DEF Envelope
  <2>2. TypeOK'
    BY <1>16, <2>1 DEF HubAccepts, Answer, Answers, table, TypeOK
  <2>3. /\ \A h \in Hubs : holds[h] \subseteq holds'[h]
        /\ m.item \in holds'[hub]
    BY <1>16 DEF HubAccepts, TypeOK
  <2>4. /\ UNCHANGED <<status, delivered, known, session, handling, hub>>
        /\ wire # {} /\ wire' \subseteq wire
        /\ replies' = replies \cup {<<m, "accepted">>}
    BY <1>16 DEF HubAccepts, Answer, table
  <2>5. InLoop /\ LoopInv'
    BY <2>4 DEF LoopInv, InLoop
  <2>6. AnswerInv'
    BY <2>3, <2>4 DEF AnswerInv, TypeOK
  <2>7. HeldInv' /\ ChangeInv'
    BY <2>3, <2>4 DEF HeldInv, ChangeInv, TypeOK
  <2> QED BY <2>2, <2>5, <2>6, <2>7
<1>17. ASSUME NEW m \in Envelope, HubDefers(m) \/ HubRefuses(m) PROVE IInv'
  <2>1. PICK answer \in {"retry", "refused"} : Answer(m, answer) /\ UNCHANGED holds
    BY <1>17 DEF HubDefers, HubRefuses
  <2>2. TypeOK'
    BY <2>1 DEF Answer, Answers, table, TypeOK
  <2> QED BY <2>1, <2>2 DEF Answer, table, LoopInv, InLoop, AnswerInv, ChangeInv, HeldInv
<1>18. ASSUME NEW m \in Envelope, HubSilent(m) PROVE IInv'
  BY <1>18 DEF HubSilent, table, TypeOK, LoopInv, InLoop, AnswerInv, ChangeInv, HeldInv
<1>19. CASE HubReplaced
  BY <1>19, ConstantsAssumption
     DEF HubReplaced, table, TypeOK, LoopInv, InLoop, AnswerInv, ChangeInv, HeldInv
<1>20. CASE Enroll
  BY <1>20, ConstantsAssumption
     DEF Enroll, table, TypeOK, LoopInv, InLoop, AnswerInv, ChangeInv, HeldInv
<1>21. CASE UNCHANGED vars
  BY <1>21 DEF vars, table, TypeOK, LoopInv, InLoop, AnswerInv, ChangeInv, HeldInv
<1> QED
  BY <1>1, <1>2, <1>3, <1>4, <1>5, <1>6, <1>7, <1>8, <1>9, <1>10, <1>11, <1>12, <1>13,
     <1>14, <1>15, <1>16, <1>17, <1>18, <1>19, <1>20, <1>21
  DEF Next, SessionStart, SessionLoop, HubStep

(* An item counts as synced only when a Hub accepted it, an SMS only when   *)
(* the Hub of the saved configuration did, and what is in delivered_items   *)
(* is synced, through lost sessions, lost answers and changes of Hub.       *)
THEOREM SyncedItemsAreHeld == Spec => []SyncedIsHeld
<1>1. IInv => SyncedIsHeld
  <2> SUFFICES ASSUME IInv PROVE SyncedIsHeld
    OBVIOUS
  <2>1. \A i \in Items : (\E h \in Hubs : i \in holds[h]) => i \in UNION {holds[h] : h \in Hubs}
    OBVIOUS
  <2> QED BY <2>1 DEF IInv, HeldInv, SyncedIsHeld
<1> QED BY <1>1, IInvAtInit, IInvStep, PTL DEF Spec

-----------------------------------------------------------------------------
(* Schedules.  The rows of the log are in the order of their times, and     *)
(* none is of the future.                                                   *)
Rows == [task : Tasks, at : Times]

LogsOK(rows, now) ==
  /\ rows \in Seq(Rows)
  /\ \A i, j \in DOMAIN rows : i <= j => rows[i].at <= rows[j].at
  /\ \A i \in DOMAIN rows : rows[i].at <= now

(* The log tells that t ended, at the given time or later.                  *)
Told(rows, t, end) == \E i \in DOMAIN rows : rows[i].task = t /\ rows[i].at >= end

(* The cleanup takes rows off the front.                                    *)
LEMMA CleanupTakesTheFront ==
  ASSUME logs \in Seq(Rows), clock \in Nat
  PROVE  \E n \in 0..Len(logs) :
           /\ Cleaned \in Seq(Rows)
           /\ Len(Cleaned) = Len(logs) - n
           /\ \A i \in 1..Len(logs) - n : Cleaned[i] = logs[n + i]
<1> DEFINE old    == IF Retention = 0 THEN 0
                     ELSE Cardinality({i \in DOMAIN logs : logs[i].at < clock - Retention})
           excess == IF MaxEntries = 0 THEN 0 ELSE Len(logs) - MaxEntries
<1>1. Len(logs) \in Nat /\ DOMAIN logs = 1..Len(logs)
  OBVIOUS
<1>2. old \in 0..Len(logs)
  <2> DEFINE S == {i \in DOMAIN logs : logs[i].at < clock - Retention}
  <2>1. IsFiniteSet(1..Len(logs)) /\ Cardinality(1..Len(logs)) = Len(logs)
    BY <1>1, FS_Interval, SMT
  <2>2. S \in SUBSET (1..Len(logs))
    BY <1>1
  <2>3. IsFiniteSet(S) /\ Cardinality(S) <= Len(logs)
    BY <2>1, <2>2, FS_Subset, Zenon
  <2>4. Cardinality(S) \in Nat
    BY <2>3, FS_CardinalityType, Zenon
  <2> QED BY <2>3, <2>4, <1>1
<1>3. excess \in Int /\ excess <= Len(logs)
  BY <1>1, SchedulesAssumption
<1>4. Deleted = IF excess <= old THEN old ELSE excess
  BY Zenon DEF Deleted
<1>5. Deleted \in 0..Len(logs)
  <2> HIDE DEF old, excess
  <2> QED BY <1>1, <1>2, <1>3, <1>4
<1>6. \A i \in (Deleted + 1)..Len(logs) : logs[i] \in Rows
  BY <1>1, <1>5, ElementOfSeq
<1>7. /\ Cleaned \in Seq(Rows)
      /\ Len(Cleaned) = IF Deleted + 1 <= Len(logs) THEN Len(logs) - (Deleted + 1) + 1 ELSE 0
      /\ \A i \in 1..Len(logs) - (Deleted + 1) + 1 : Cleaned[i] = logs[(Deleted + 1) + i - 1]
  <2> DEFINE m == Deleted + 1
             k == Len(logs)
  <2> HIDE DEF old, excess
  <2>1. m \in Int /\ k \in Int /\ \A i \in m..k : logs[i] \in Rows
    BY <1>1, <1>5, <1>6
  <2>2. Cleaned = SubSeq(logs, m, k)
    BY DEF Cleaned
  <2> HIDE DEF m, k
  <2>3. /\ SubSeq(logs, m, k) \in Seq(Rows)
        /\ Len(SubSeq(logs, m, k)) = IF m <= k THEN k - m + 1 ELSE 0
        /\ \A i \in 1..k - m + 1 : SubSeq(logs, m, k)[i] = logs[m + i - 1]
    BY <2>1, SubSeqProperties
  <2> QED BY <2>2, <2>3 DEF m, k
<1>8. Len(Cleaned) = Len(logs) - Deleted
  <2>1. \A b \in Nat : \A a \in 0..b :
          (IF a + 1 <= b THEN b - (a + 1) + 1 ELSE 0) = b - a
    OBVIOUS
  <2> HIDE DEF old, excess
  <2>2. Len(Cleaned) =
          IF Deleted + 1 <= Len(logs) THEN Len(logs) - (Deleted + 1) + 1 ELSE 0
    BY <1>7
  <2>3. Len(logs) \in Nat
    BY <1>1
  <2> QED BY <1>5, <2>1, <2>2, <2>3, Zenon
<1>9. \A i \in 1..Len(logs) - Deleted : Cleaned[i] = logs[Deleted + i]
  <2> TAKE i \in 1..Len(logs) - Deleted
  <2>1. i \in 1..Len(logs) - (Deleted + 1) + 1 /\ (Deleted + 1) + i - 1 = Deleted + i
    BY <1>1, <1>5
  <2> QED BY <1>7, <2>1, Zenon
<1> QED BY <1>5, <1>7, <1>8, <1>9, Zenon

LEMMA CleanupKeepsOrder ==
  ASSUME LogsOK(logs, clock), clock \in Nat
  PROVE  LogsOK(Cleaned, clock)
<1>1. logs \in Seq(Rows)
  BY DEF LogsOK
<1>2. PICK n \in 0..Len(logs) :
           /\ Cleaned \in Seq(Rows)
           /\ Len(Cleaned) = Len(logs) - n
           /\ \A i \in 1..Len(logs) - n : Cleaned[i] = logs[n + i]
  BY <1>1, CleanupTakesTheFront
<1>3. Len(logs) \in Nat /\ DOMAIN logs = 1..Len(logs) /\ DOMAIN Cleaned = 1..Len(logs) - n
  BY <1>1, <1>2
<1>4. \A i \in DOMAIN Cleaned : n + i \in DOMAIN logs /\ Cleaned[i] = logs[n + i]
  <2> TAKE i \in DOMAIN Cleaned
  <2>1. i \in 1..Len(logs) - n /\ n + i \in 1..Len(logs)
    BY <1>3
  <2> QED BY <1>2, <1>3, <2>1
<1>5. \A i, j \in DOMAIN Cleaned : i <= j => n + i <= n + j
  BY <1>2, <1>3
<1> QED BY <1>2, <1>4, <1>5 DEF LogsOK

(* What the cleanup leaves of a task includes its latest row.               *)
LEMMA CleanupKeepsLatest ==
  ASSUME LogsOK(logs, clock), clock \in Nat, NEW t \in Tasks \cap Periodic, NEW end \in Int,
         Told(logs, t, end), t \notin LostBy(Cleaned)
  PROVE  Told(Cleaned, t, end)
<1>1. logs \in Seq(Rows)
  BY DEF LogsOK
<1>2. PICK n \in 0..Len(logs) :
           /\ Cleaned \in Seq(Rows)
           /\ Len(Cleaned) = Len(logs) - n
           /\ \A i \in 1..Len(logs) - n : Cleaned[i] = logs[n + i]
  BY <1>1, CleanupTakesTheFront
<1>3. Len(logs) \in Nat /\ DOMAIN logs = 1..Len(logs) /\ DOMAIN Cleaned = 1..Len(logs) - n
  BY <1>1, <1>2
<1>4. PICK i \in DOMAIN logs : logs[i].task = t /\ logs[i].at >= end
  BY DEF Told
<1>5. PICK j \in DOMAIN Cleaned : Cleaned[j].task = t
  BY <1>4 DEF LostBy, HasLog
<1>6. n + j \in DOMAIN logs /\ Cleaned[j] = logs[n + j]
  BY <1>2, <1>3, <1>5
<1>7. CASE i <= n + j
  <2>1. logs[i].at <= logs[n + j].at
    BY <1>4, <1>6, <1>7 DEF LogsOK
  <2>2. logs[i].at \in Int /\ logs[n + j].at \in Int
    <3>1. logs[i] \in Rows /\ logs[n + j] \in Rows
      BY <1>1, <1>3, <1>4, <1>6
    <3> QED BY <3>1, SchedulesAssumption DEF Rows, Times
  <2>3. Cleaned[j].at >= end
    BY <1>4, <1>6, <2>1, <2>2
  <2> QED BY <1>5, <2>3 DEF Told
<1>8. CASE ~(i <= n + j)
  <2>1. i - n \in DOMAIN Cleaned /\ n + (i - n) = i
    BY <1>2, <1>3, <1>4, <1>5, <1>8
  <2>2. Cleaned[i - n] = logs[i]
    BY <1>2, <1>3, <2>1
  <2> QED BY <1>4, <2>1, <2>2 DEF Told
<1> QED BY <1>7, <1>8

(* A row that is written is the latest.                                     *)
LEMMA WritingKeepsOrder ==
  ASSUME LogsOK(logs, clock), clock \in Times, clock \in Nat, NEW t \in Tasks
  PROVE  /\ LogsOK(Append(logs, [task |-> t, at |-> clock]), clock)
         /\ \A end \in Int : end <= clock =>
              Told(Append(logs, [task |-> t, at |-> clock]), t, end)
         /\ \A u, end : Told(logs, u, end) =>
              Told(Append(logs, [task |-> t, at |-> clock]), u, end)
<1> DEFINE row == [task |-> t, at |-> clock]
           rows == Append(logs, row)
<1>1. logs \in Seq(Rows)
  BY DEF LogsOK
<1>2. row \in Rows /\ row.task = t /\ row.at = clock
  BY DEF Rows
<1> HIDE DEF row
<1>3. /\ rows \in Seq(Rows) /\ Len(logs) \in Nat /\ DOMAIN logs = 1..Len(logs)
      /\ DOMAIN rows = 1..Len(logs) + 1
      /\ \A i \in DOMAIN logs : rows[i] = logs[i]
      /\ rows[Len(logs) + 1] = row
  BY <1>1, <1>2
<1> HIDE DEF rows
<1>4. \A i \in DOMAIN rows : i \in DOMAIN logs \/ i = Len(logs) + 1
  BY <1>3
<1>5. \A i \in DOMAIN rows : rows[i].at <= clock
  BY <1>2, <1>3, <1>4 DEF LogsOK
<1>6. \A i, j \in DOMAIN rows : i <= j => rows[i].at <= rows[j].at
  <2> SUFFICES ASSUME NEW i \in DOMAIN rows, NEW j \in DOMAIN rows, i <= j
               PROVE  rows[i].at <= rows[j].at
    OBVIOUS
  <2>1. CASE j \in DOMAIN logs
    <3>1. i \in DOMAIN logs
      BY <1>3, <2>1
    <3> QED BY <1>3, <2>1, <3>1 DEF LogsOK
  <2>2. CASE j = Len(logs) + 1
    BY <1>2, <1>3, <1>5, <2>2
  <2> QED BY <1>4, <2>1, <2>2
<1>7. LogsOK(rows, clock)
  BY <1>3, <1>5, <1>6 DEF LogsOK
<1>8. \A end \in Int : end <= clock => Told(rows, t, end)
  <2> SUFFICES ASSUME NEW end \in Int, end <= clock PROVE Told(rows, t, end)
    OBVIOUS
  <2>1. Len(logs) + 1 \in DOMAIN rows
    BY <1>3
  <2>2. rows[Len(logs) + 1].task = t /\ rows[Len(logs) + 1].at >= end
    BY <1>2, <1>3
  <2> QED BY <2>1, <2>2, Zenon DEF Told
<1>9. \A u, end : Told(logs, u, end) => Told(rows, u, end)
  <2>1. DOMAIN logs \subseteq DOMAIN rows
    BY <1>3
  <2> QED BY <1>3, <2>1, Zenon DEF Told
<1> QED BY <1>7, <1>8, <1>9 DEF rows, row

(* The types of all but the log and the runs of tasks.                      *)
LoopsTyped ==
  /\ clock \in Times
  /\ enabled \subseteq Entries
  /\ link \in [enabled : BOOLEAN, online : BOOLEAN, since : Times]
  /\ auto \in [tick : Times, todo : SUBSET Tasks]
  /\ report \in [tick : Times, todo : SUBSET Rules, busy : Rules \cup {None}]
  /\ marked \in [Fixed -> SUBSET Nat]
  /\ due \in [Rules \cap Periodic -> Times \cup {Never}]
  /\ started \in [Entries -> Times \cup {Never}]
  /\ ended \in [Periodic -> Times \cup {Never}]
  /\ forgotten \subseteq Periodic
  /\ excused \subseteq Fixed
  /\ missed \subseteq Fixed
  /\ rebooted \subseteq Nat
  /\ faults \in 0..MaxFaults

RunsTyped ==
  /\ runs \subseteq [task : Tasks, by : {"loop", "user"}, at : {"check", "work"}, began : Times]
  /\ \A r \in runs : clock - r.began <= RunLimit

SchedulesTyped == LoopsTyped /\ RunsTyped /\ LogsOK(logs, clock)

LEMMA TypedMeansTypeOK == SchedulesTyped => SchedulesTypeOK
  BY DEF SchedulesTyped, SchedulesTypeOK, LoopsTyped, RunsTyped, LogsOK, Rows

LEMMA TimesAreNaturals ==
  /\ Times \subseteq Nat /\ 0 \in Times
  /\ RunLimit \in Nat /\ Period \in Nat /\ Timeout \in Nat /\ MaxFaults \in Nat
  /\ Tasks \subseteq Entries /\ Rules \subseteq Entries
  /\ Fixed \subseteq Entries /\ Periodic \subseteq Entries
  /\ Tasks \cap Rules = {} /\ Fixed \cap Periodic = {}
<1>1. MaxTime \in Nat /\ MaxFaults \in Nat
  BY SchedulesAssumption
<1>2. RunLimit \in Nat /\ Period \in Nat /\ Timeout \in Nat
  BY SchedulesAssumption
<1>3. Times \subseteq Nat /\ 0 \in Times
  BY <1>1 DEF Times
<1> QED BY <1>1, <1>2, <1>3, SchedulesAssumption DEF Entries, Periodic

LEMMA MinutesAreNaturals ==
  ASSUME clock \in Times
  PROVE  clock \in Nat /\ Minute \in Nat /\ 2 * Minute <= clock /\ clock <= 2 * Minute + 1
<1>1. clock \in Nat
  BY TimesAreNaturals
<1> QED BY <1>1 DEF Minute

LEMMA TypesAtSchedulesInit == SchedulesInit => SchedulesTyped
<1> SUFFICES ASSUME SchedulesInit PROVE LoopsTyped /\ RunsTyped /\ LogsOK(logs, clock)
  BY DEF SchedulesTyped
<1>1. LoopsTyped
  <2>1. clock \in Times /\ faults \in 0..MaxFaults
    BY TimesAreNaturals DEF SchedulesInit
  <2>2. link \in [enabled : BOOLEAN, online : BOOLEAN, since : Times]
    BY TimesAreNaturals DEF SchedulesInit
  <2>3. /\ auto \in [tick : Times, todo : SUBSET Tasks]
        /\ report \in [tick : Times, todo : SUBSET Rules, busy : Rules \cup {None}]
    BY TimesAreNaturals DEF SchedulesInit
  <2> QED BY <2>1, <2>2, <2>3, TimesAreNaturals DEF SchedulesInit, LoopsTyped
<1>2. RunsTyped
  BY DEF SchedulesInit, RunsTyped
<1>3. LogsOK(logs, clock)
  BY DEF SchedulesInit, LogsOK
<1> QED BY <1>1, <1>2, <1>3

LEMMA FaultsStayBounded ==
  ASSUME faults \in 0..MaxFaults, Fault
  PROVE  faults' \in 0..MaxFaults
  BY TimesAreNaturals DEF Fault

LEMMA AdvanceKeepsTypes ==
  ASSUME SchedulesTyped, Advance
  PROVE  SchedulesTyped'
<1> USE DEF SchedulesTyped
<1>1. clock \in Nat /\ clock' = clock + 1 /\ clock' \in Times
  <2>1. clock \in Nat /\ MaxTime \in Nat /\ clock < MaxTime
    BY TimesAreNaturals, SchedulesAssumption DEF LoopsTyped, Advance
  <2> QED BY <2>1 DEF Advance, Times
<1>2. LoopsTyped'
  <2>1. UNCHANGED <<enabled, link, auto, report, memory, started, ended, forgotten, rebooted,
                    faults>>
    BY DEF Advance
  <2>2. missed' \subseteq Fixed /\ excused' \subseteq Fixed
    BY DEF Advance, LoopsTyped
  <2> QED BY <1>1, <2>1, <2>2 DEF LoopsTyped, memory, Times
<1>3. RunsTyped'
  <2>1. runs' = runs /\ \A r \in runs : clock - r.began < RunLimit
    BY DEF Advance, WithinLimit
  <2>2. \A r \in runs : r.began \in Nat
    BY TimesAreNaturals DEF RunsTyped
  <2>3. \A r \in runs : clock' - r.began <= RunLimit
    BY <1>1, <2>1, <2>2, TimesAreNaturals
  <2> QED BY <2>1, <2>3 DEF RunsTyped, Times
<1>4. LogsOK(logs, clock)'
  <2>1. logs' = logs
    BY DEF Advance
  <2>2. \A i \in DOMAIN logs : logs[i].at \in Nat
    <3>1. \A i \in DOMAIN logs : logs[i] \in Rows
      BY DEF LogsOK
    <3> QED BY <3>1, TimesAreNaturals DEF Rows
  <2>3. \A i \in DOMAIN logs : logs[i].at <= clock'
    BY <1>1, <2>2 DEF LogsOK
  <2> QED BY <2>1, <2>3 DEF LogsOK, Rows, Times
<1> QED BY <1>2, <1>3, <1>4

(* The loops, which touch no run but to start one.                          *)
LEMMA CleanupKeepsTypes ==
  ASSUME SchedulesTyped, Cleanup \/ UNCHANGED <<logs, forgotten>>
  PROVE  /\ LogsOK(logs', clock) /\ forgotten' \subseteq Periodic
         /\ forgotten \subseteq forgotten'
<1>1. LogsOK(logs, clock) /\ clock \in Nat /\ forgotten \subseteq Periodic
  BY TimesAreNaturals DEF LoopsTyped, SchedulesTyped
<1>2. CASE Cleanup
  BY <1>1, <1>2, CleanupKeepsOrder DEF Cleanup, LostBy
<1>3. CASE UNCHANGED <<logs, forgotten>>
  BY <1>1, <1>3
<1> QED BY <1>2, <1>3

LEMMA AutoTickKeepsTypes ==
  ASSUME SchedulesTyped, AutoTick
  PROVE  SchedulesTyped'
<1> USE DEF SchedulesTyped
<1>1. Cleanup \/ UNCHANGED <<logs, forgotten>>
  BY DEF AutoTick
<1>2. /\ UNCHANGED <<clock, enabled, link, report, memory, runs, started, ended, excused,
                     missed, rebooted, faults>>
  BY DEF AutoTick
<1>3. auto' \in [tick : Times, todo : SUBSET Tasks]
  BY DEF AutoTick, LoopsTyped
<1> QED BY <1>1, <1>2, <1>3, CleanupKeepsTypes DEF LoopsTyped, RunsTyped, LogsOK, memory

LEMMA StartingKeepsTypes ==
  ASSUME SchedulesTyped, NEW t \in Tasks, Starts(t) \/ UNCHANGED <<runs, started>>,
         clock' = clock
  PROVE  RunsTyped' /\ started' \in [Entries -> Times \cup {Never}]
<1>1. LoopsTyped /\ RunsTyped /\ clock \in Nat
  BY TimesAreNaturals DEF LoopsTyped, SchedulesTyped
<1>2. CASE UNCHANGED <<runs, started>>
  BY <1>1, <1>2 DEF RunsTyped, LoopsTyped
<1>3. CASE Starts(t)
  <2> DEFINE run == Spawned(t, "loop", "check")
  <2>1. /\ run \in [task : Tasks, by : {"loop", "user"}, at : {"check", "work"}, began : Times]
        /\ run.began = clock
    BY <1>1 DEF Spawned, LoopsTyped
  <2>2. runs' = runs \cup {run} /\ started' = [started EXCEPT ![t] = clock]
    BY <1>3 DEF Starts, Started
  <2> HIDE DEF run
  <2>3. clock - run.began <= RunLimit
    BY <1>1, <2>1, TimesAreNaturals
  <2> QED BY <1>1, <2>1, <2>2, <2>3 DEF RunsTyped, LoopsTyped
<1> QED BY <1>2, <1>3

LEMMA EvaluationKeepsTypes ==
  ASSUME SchedulesTyped, NEW t \in Tasks, EvaluateFixed(t) \/ EvaluatePeriodic(t) \/ QueryFails(t)
  PROVE  SchedulesTyped'
<1> USE DEF SchedulesTyped
<1>1. /\ UNCHANGED <<clock, enabled, link, report, due, ended, excused, missed, rebooted>>
      /\ auto' = [auto EXCEPT !.todo = @ \ {t}]
  BY DEF EvaluateFixed, EvaluatePeriodic, QueryFails, Evaluated
<1>2. faults' \in 0..MaxFaults
  BY FaultsStayBounded DEF EvaluateFixed, EvaluatePeriodic, QueryFails, LoopsTyped
<1>3. Starts(t) \/ UNCHANGED <<runs, started>>
  BY DEF EvaluateFixed, EvaluatePeriodic, QueryFails
<1>4. marked' \in [Fixed -> SUBSET Nat]
  BY MinutesAreNaturals DEF EvaluateFixed, EvaluatePeriodic, QueryFails, LoopsTyped
<1>5. LogsOK(logs', clock) /\ forgotten' \subseteq Periodic
  <2>1. CASE QueryFails(t)
    <3>1. logs' = Cleaned \/ logs' = logs
      BY <2>1 DEF QueryFails
    <3>2. clock \in Nat
      BY MinutesAreNaturals DEF LoopsTyped
    <3>3. LogsOK(logs', clock)
      BY <3>1, <3>2, CleanupKeepsOrder, Zenon
    <3>4. t \in Periodic
      BY <2>1, TimesAreNaturals DEF QueryFails, Periodic
    <3>5. forgotten' \subseteq Periodic
      BY <2>1, <3>4 DEF QueryFails, LostBy, LoopsTyped
    <3> QED BY <3>3, <3>5
  <2>2. CASE EvaluateFixed(t) \/ EvaluatePeriodic(t)
    <3>1. Cleanup \/ UNCHANGED <<logs, forgotten>>
      BY <2>2 DEF EvaluateFixed, EvaluatePeriodic, MaybeCleanup
    <3> QED BY <3>1, CleanupKeepsTypes
  <2> QED BY <2>1, <2>2
<1>6. RunsTyped' /\ started' \in [Entries -> Times \cup {Never}]
  BY <1>1, <1>3, StartingKeepsTypes
<1>7. auto' \in [tick : Times, todo : SUBSET Tasks]
  BY <1>1 DEF LoopsTyped
<1>8. LogsOK(logs, clock)'
  BY <1>1, <1>5 DEF LogsOK
<1> QED BY <1>1, <1>2, <1>4, <1>5, <1>6, <1>7, <1>8 DEF LoopsTyped

(* The runs, which touch neither loop.                                      *)
LEMMA CheckKeepsTypes ==
  ASSUME SchedulesTyped, NEW r \in runs, Check(r)
  PROVE  SchedulesTyped'
<1> USE DEF SchedulesTyped
<1>1. UNCHANGED <<clock, enabled, link, auto, report, memory, logs, started, ended, forgotten,
                  excused, missed, rebooted, faults>>
  BY DEF Check, RunStep
<1>2. RunsTyped'
  <2> DEFINE new == [r EXCEPT !.at = "work"]
  <2>1. /\ new \in [task : Tasks, by : {"loop", "user"}, at : {"check", "work"}, began : Times]
        /\ new.began = r.began
    BY DEF RunsTyped
  <2>2. runs' \subseteq runs \cup {new}
    BY DEF Check
  <2> HIDE DEF new
  <2> QED BY <1>1, <2>1, <2>2 DEF RunsTyped
<1> QED BY <1>1, <1>2 DEF LoopsTyped, LogsOK, memory

LEMMA FinishKeepsTypes ==
  ASSUME SchedulesTyped, NEW r \in runs, Finish(r)
  PROVE  SchedulesTyped'
<1> USE DEF SchedulesTyped
<1>1. /\ UNCHANGED <<clock, enabled, link, auto, report, memory, started, excused, missed,
                     rebooted>>
      /\ runs' = runs \ {r}
  BY DEF Finish, RunStep
<1>2. RunsTyped'
  BY <1>1 DEF RunsTyped
<1>3. r.task \in Tasks /\ clock \in Nat
  BY MinutesAreNaturals DEF RunsTyped, LoopsTyped
<1>4. logs' = Append(logs, [task |-> r.task, at |-> clock]) \/ logs' = logs
  BY DEF Finish
<1>5. LogsOK(logs', clock)
  BY <1>3, <1>4, WritingKeepsOrder DEF LoopsTyped
<1>6. faults' \in 0..MaxFaults
  BY FaultsStayBounded DEF Finish, LoopsTyped
<1>7. forgotten' \subseteq Periodic
  BY DEF Finish, LoopsTyped
<1>8. ended' \in [Periodic -> Times \cup {Never}]
  BY DEF Finish, LoopsTyped
<1> QED BY <1>1, <1>2, <1>5, <1>6, <1>7, <1>8 DEF LoopsTyped, LogsOK, memory

(* The report loop.                                                         *)
LEMMA ReportLoopKeepsTypes ==
  ASSUME SchedulesTyped, ReportTick \/ Reported
  PROVE  SchedulesTyped'
<1> USE DEF SchedulesTyped
<1>1. UNCHANGED <<clock, enabled, link, auto, memory, logs, runs, history, faults>>
  BY DEF ReportTick, Reported
<1>2. report' \in [tick : Times, todo : SUBSET Rules, busy : Rules \cup {None}]
  BY DEF ReportTick, Reported, LoopsTyped
<1> QED BY <1>1, <1>2 DEF LoopsTyped, RunsTyped, LogsOK, memory, history

LEMMA EvaluateRuleKeepsTypes ==
  ASSUME SchedulesTyped, NEW r \in Rules, EvaluateRule(r)
  PROVE  SchedulesTyped'
<1> USE DEF SchedulesTyped
<1>1. UNCHANGED <<clock, enabled, link, auto, logs, runs, excused, missed, rebooted, faults>>
  BY DEF EvaluateRule
<1>2. report' \in [tick : Times, todo : SUBSET Rules, busy : Rules \cup {None}]
  <2>1. PICK b \in {r, None} : report' = [report EXCEPT !.todo = @ \ {r}, !.busy = b]
    <3>1. \E q \in BOOLEAN :
            report' = [report EXCEPT !.todo = @ \ {r},
                                     !.busy = IF RuleDue(r) /\ ~q THEN r ELSE None]
      BY DEF EvaluateRule
    <3> HIDE DEF SchedulesTyped
    <3> QED BY <3>1, Zenon
  <2> QED BY <2>1 DEF LoopsTyped
<1>3. marked' \in [Fixed -> SUBSET Nat] /\ due' \in [Rules \cap Periodic -> Times \cup {Never}]
  <2>1. Remember(r) \/ UNCHANGED memory
    BY DEF EvaluateRule
  <2>2. clock \in Times /\ Minute \in Nat
    BY MinutesAreNaturals DEF LoopsTyped
  <2> QED BY <2>1, <2>2 DEF LoopsTyped, Remember, memory
<1>4. started' \in [Entries -> Times \cup {Never}]
  BY DEF EvaluateRule, Started, LoopsTyped
<1>5. ended' \in [Periodic -> Times \cup {Never}]
  BY DEF EvaluateRule, LoopsTyped
<1>6. forgotten' \subseteq Periodic
  BY DEF EvaluateRule, LoopsTyped
<1> QED BY <1>1, <1>2, <1>3, <1>4, <1>5, <1>6 DEF LoopsTyped, RunsTyped, LogsOK

(* The user, the link, restarts.                                            *)
LEMMA UserKeepsTypes ==
  ASSUME SchedulesTyped,
         (\E e \in Entries : Toggle(e)) \/ (\E t \in Tasks : TestRun(t)) \/ ClearLogs
  PROVE  SchedulesTyped'
<1> USE DEF SchedulesTyped
<1>1. faults' \in 0..MaxFaults
  BY FaultsStayBounded DEF Toggle, TestRun, ClearLogs, LoopsTyped
<1>2. CASE \E e \in Entries : Toggle(e)
  <2>1. PICK e \in Entries : Toggle(e)
    BY <1>2
  <2>2. enabled' \subseteq Entries /\ excused' \subseteq Fixed
    BY <2>1 DEF Toggle, LoopsTyped
  <2> QED BY <1>1, <2>1, <2>2 DEF Toggle, LoopsTyped, RunsTyped, LogsOK, memory
<1>3. CASE \E t \in Tasks : TestRun(t)
  <2>1. PICK t \in Tasks : TestRun(t)
    BY <1>3
  <2> DEFINE run == Spawned(t, "user", "work")
  <2>2. /\ run \in [task : Tasks, by : {"loop", "user"}, at : {"check", "work"}, began : Times]
        /\ run.began = clock
    BY DEF Spawned, LoopsTyped
  <2>3. runs' = runs \cup {run}
    BY <2>1 DEF TestRun
  <2>4. UNCHANGED <<clock, enabled, link, auto, report, memory, logs, history>>
    BY <2>1 DEF TestRun
  <2> HIDE DEF run
  <2>5. clock - run.began <= RunLimit
    BY <2>2, MinutesAreNaturals, TimesAreNaturals DEF LoopsTyped
  <2>6. RunsTyped'
    BY <2>2, <2>3, <2>4, <2>5 DEF RunsTyped
  <2> QED BY <1>1, <2>4, <2>6 DEF LoopsTyped, LogsOK, memory, history
<1>4. CASE ClearLogs
  <2>1. LogsOK(<<>>, clock)
    BY DEF LogsOK
  <2>2. forgotten' \subseteq Periodic
    BY <1>4 DEF ClearLogs, LostBy, LoopsTyped
  <2> QED BY <1>1, <1>4, <2>1, <2>2 DEF ClearLogs, LoopsTyped, RunsTyped, LogsOK, memory
<1> QED BY <1>2, <1>3, <1>4

LEMMA LinkKeepsTypes ==
  ASSUME SchedulesTyped, LinkChanges
  PROVE  SchedulesTyped'
<1> USE DEF SchedulesTyped
<1>1. faults' \in 0..MaxFaults
  BY FaultsStayBounded DEF LinkChanges, LoopsTyped
<1>2. link' \in [enabled : BOOLEAN, online : BOOLEAN, since : Times]
  <2>1. link \in [enabled : BOOLEAN, online : BOOLEAN, since : Times] /\ clock \in Times
    BY DEF LoopsTyped
  <2>2. \/ link' = [link EXCEPT !.online = TRUE]
        \/ link' = [link EXCEPT !.online = FALSE, !.since = clock]
        \/ link' = [enabled |-> FALSE, online |-> FALSE, since |-> 0]
        \/ link' = [enabled |-> TRUE, online |-> FALSE, since |-> clock]
    BY DEF LinkChanges
  <2>3. CASE link' = [link EXCEPT !.online = TRUE]
    BY <2>1, <2>3
  <2>4. CASE link' = [link EXCEPT !.online = FALSE, !.since = clock]
    BY <2>1, <2>4
  <2>5. CASE link' = [enabled |-> FALSE, online |-> FALSE, since |-> 0]
    BY <2>5, TimesAreNaturals
  <2>6. CASE link' = [enabled |-> TRUE, online |-> FALSE, since |-> clock]
    BY <2>1, <2>6
  <2> QED BY <2>2, <2>3, <2>4, <2>5, <2>6
<1>3. excused' \subseteq Fixed
  BY DEF LinkChanges, LoopsTyped
<1> QED BY <1>1, <1>2, <1>3 DEF LinkChanges, LoopsTyped, RunsTyped, LogsOK, memory

LEMMA RestartKeepsTypes ==
  ASSUME SchedulesTyped, Restart
  PROVE  SchedulesTyped'
<1> USE DEF SchedulesTyped
<1>1. faults' \in 0..MaxFaults
  BY FaultsStayBounded DEF Restart, LoopsTyped
<1>2. link' \in [enabled : BOOLEAN, online : BOOLEAN, since : Times]
  BY TimesAreNaturals DEF Restart, LoopsTyped
<1>3. marked' \in [Fixed -> SUBSET Nat] /\ due' \in [Rules \cap Periodic -> Times \cup {Never}]
  BY DEF Restart
<1>4. forgotten' \subseteq Periodic /\ excused' \subseteq Fixed /\ rebooted' \subseteq Nat
  BY MinutesAreNaturals DEF Restart, LoopsTyped
<1>5. /\ auto' \in [tick : Times, todo : SUBSET Tasks]
      /\ report' \in [tick : Times, todo : SUBSET Rules, busy : Rules \cup {None}]
  BY DEF Restart, LoopsTyped
<1>6. RunsTyped'
  BY DEF Restart, RunsTyped
<1> QED BY <1>1, <1>2, <1>3, <1>4, <1>5, <1>6 DEF Restart, LoopsTyped, LogsOK

LEMMA TypesAreKept ==
  ASSUME SchedulesTyped, [SchedulesNext]_schedules
  PROVE  SchedulesTyped'
<1>1. CASE UNCHANGED schedules
  BY <1>1 DEF schedules, memory, history, SchedulesTyped, LoopsTyped, RunsTyped, LogsOK
<1>2. CASE SchedulesNext
  BY <1>2, AdvanceKeepsTypes, AutoTickKeepsTypes, EvaluationKeepsTypes, CheckKeepsTypes,
     FinishKeepsTypes, ReportLoopKeepsTypes, EvaluateRuleKeepsTypes, UserKeepsTypes,
     LinkKeepsTypes, RestartKeepsTypes, Zenon DEF SchedulesNext
<1> QED BY <1>1, <1>2

-----------------------------------------------------------------------------
(* Fixed entries.  A minute is marked because the entry was started in it,  *)
(* and forgotten by a restart at most; no mark is of a minute to come.      *)
StartedNow(e) == started[e] # Never /\ started[e] \div 2 = Minute

PastInv ==
  /\ auto.tick <= clock /\ report.tick <= clock
  /\ \A e \in Entries : started[e] <= clock

MarkInv ==
  \A e \in Fixed :
    /\ \A m \in marked[e] : m <= Minute
    /\ Minute \in marked[e] => StartedNow(e)
    /\ StartedNow(e) => Minute \in marked[e] \cup rebooted

(* Of the entries that are due in a minute and have no excuse, those that   *)
(* the loop came to in this minute are still to be evaluated or started.    *)
Served(e, todo) == e \in todo \/ (Matches(Minute) => StartedNow(e))

TaskInv ==
  \A e \in (Fixed \cap Tasks) \ excused :
    /\ e \in enabled
    /\ auto.tick >= 2 * Minute /\ (auto.tick < clock \/ DeviceSchedules) => Served(e, auto.todo)

RuleInv ==
  \A e \in (Fixed \cap Rules) \ excused :
    e \in enabled /\ (report.tick >= 2 * Minute => Served(e, report.todo))

FixedInv == PastInv /\ MarkInv /\ TaskInv /\ RuleInv /\ missed = {}

-----------------------------------------------------------------------------
(* Periodic entries.  Unless the end of an entry is out of reach, the log   *)
(* tells it of a task and due of a rule.                                    *)
PeriodInv ==
  /\ \A t \in (Tasks \cap Periodic) \ forgotten : ended[t] # Never => Told(logs, t, ended[t])
  /\ \A r \in (Rules \cap Periodic) \ forgotten : ended[r] # Never => due[r] = ended[r]

LEMMA FixedAtSchedulesInit == SchedulesInit => FixedInv
<1> SUFFICES ASSUME SchedulesInit PROVE FixedInv
  OBVIOUS
<1>1. PastInv
  BY DEF SchedulesInit, PastInv, Never
<1>2. MarkInv
  <2>1. \A e \in Fixed : marked[e] = {} /\ started[e] = Never
    BY TimesAreNaturals DEF SchedulesInit
  <2> QED BY <2>1 DEF MarkInv, StartedNow
<1>3. TaskInv /\ RuleInv /\ missed = {}
  BY DEF SchedulesInit, TaskInv, RuleInv
<1> QED BY <1>1, <1>2, <1>3 DEF FixedInv

(* What a step does not touch.                                              *)
LEMMA MarksStay ==
  ASSUME MarkInv, UNCHANGED <<clock, marked>>, rebooted \subseteq rebooted',
         \A e \in Fixed : started'[e] = started[e]
  PROVE  MarkInv' /\ \A e \in Fixed : StartedNow(e)' <=> StartedNow(e)
<1>1. Minute' = Minute
  BY DEF Minute
<1>2. \A e \in Fixed : StartedNow(e)' <=> StartedNow(e)
  BY <1>1 DEF StartedNow
<1> QED BY <1>1, <1>2 DEF MarkInv

LEMMA StartingMarks ==
  ASSUME LoopsTyped, PastInv, MarkInv, NEW e \in Fixed, NEW S, UNCHANGED <<clock, rebooted>>,
         started' = [started EXCEPT ![e] = clock], marked' = [marked EXCEPT ![e] = S],
         Minute \in S, \A m \in S : m <= Minute
  PROVE  /\ MarkInv' /\ StartedNow(e)'
         /\ \A f \in Fixed \ {e} : StartedNow(f)' <=> StartedNow(f)
<1>1. Minute' = Minute
  BY DEF Minute
<1>2. started'[e] = clock /\ marked'[e] = S
  BY TimesAreNaturals DEF LoopsTyped
<1>3. \A f \in Fixed \ {e} : started'[f] = started[f] /\ marked'[f] = marked[f]
  BY TimesAreNaturals DEF LoopsTyped
<1>4. clock # Never
  BY MinutesAreNaturals DEF LoopsTyped, Never
<1>5. StartedNow(e)'
  BY <1>1, <1>2, <1>4 DEF StartedNow, Minute, Never
<1>6. \A f \in Fixed \ {e} : StartedNow(f)' <=> StartedNow(f)
  BY <1>1, <1>3 DEF StartedNow, Never
<1>7. MarkInv'
  <2> SUFFICES ASSUME NEW f \in Fixed
               PROVE  /\ \A m \in marked'[f] : m <= Minute'
                      /\ Minute' \in marked'[f] => StartedNow(f)'
                      /\ StartedNow(f)' => Minute' \in marked'[f] \cup rebooted'
    BY DEF MarkInv
  <2>1. CASE f = e
    BY <1>1, <1>2, <1>5, <2>1
  <2>2. CASE f # e
    BY <1>1, <1>3, <1>6, <2>2 DEF MarkInv
  <2> QED BY <2>1, <2>2
<1> QED BY <1>5, <1>6, <1>7

(* Time.  A loop came by since the minute before began; at the end of a     *)
(* minute it has therefore seen all of this minute's entries.               *)
LEMMA HalfMinutes ==
  ASSUME NEW c \in Nat
  PROVE  /\ (c + 1) % 2 = 0 => (c + 1) \div 2 = c \div 2 + 1 /\ c = 2 * (c \div 2) + 1
         /\ (c + 1) % 2 # 0 => (c + 1) \div 2 = c \div 2 /\ c = 2 * (c \div 2)
  OBVIOUS

LEMMA AdvanceKeepsFixed ==
  ASSUME LoopsTyped, FixedInv, Advance
  PROVE  FixedInv'
<1> DEFINE over == (clock + 1) % 2 = 0
           idle == (IF DeviceSchedules THEN {} ELSE Tasks)
                   \cup (IF report.busy = None THEN {} ELSE Rules)
                   \cup (Entries \ enabled)
           late == {e \in Fixed \ (excused \cup idle) :
                      started[e] = Never \/ started[e] \div 2 # Minute}
<1>1. /\ clock \in Nat /\ clock' = clock + 1 /\ Minute \in Nat
      /\ over => Minute' = Minute + 1 /\ clock = 2 * Minute + 1
      /\ ~over => Minute' = Minute /\ clock = 2 * Minute
  BY MinutesAreNaturals, HalfMinutes DEF LoopsTyped, Advance, Minute
<1>2. /\ UNCHANGED <<enabled, link, auto, report, marked, started, rebooted>>
      /\ missed' = IF over /\ Matches(Minute) THEN missed \cup late ELSE missed
      /\ excused' = Fixed \cap (IF over THEN idle ELSE excused \cup idle)
  BY DEF Advance, memory
<1>3. /\ auto.todo = {} /\ auto.tick >= clock - 1
      /\ report.busy # None \/ (report.todo = {} /\ report.tick >= clock - 1)
  BY DEF Advance
<1>4. /\ auto.tick \in Nat /\ report.tick \in Nat
      /\ auto.tick <= clock /\ report.tick <= clock
  BY TimesAreNaturals DEF LoopsTyped, FixedInv, PastInv
<1>5. \A e \in Entries : started[e] \in Int /\ started[e] <= clock
  <2>1. \A e \in Entries : started[e] \in Times \cup {Never}
    BY DEF LoopsTyped
  <2>2. Times \cup {Never} \subseteq Int
    BY TimesAreNaturals DEF Never
  <2> HIDE DEF over, idle, late
  <2>3. \A e \in Entries : started[e] \in Int
    BY <2>1, <2>2
  <2>4. \A e \in Entries : started[e] <= clock
    BY DEF FixedInv, PastInv
  <2> QED BY <2>3, <2>4
<1> HIDE DEF over, idle, late
<1>6. PastInv'
  BY <1>1, <1>2, <1>4, <1>5 DEF PastInv
<1>7. \A e \in Fixed : StartedNow(e)' => ~over /\ StartedNow(e)
  <2> SUFFICES ASSUME NEW e \in Fixed, StartedNow(e)' PROVE ~over /\ StartedNow(e)
    OBVIOUS
  <2>1. started[e] # Never /\ started[e] \div 2 = Minute'
    BY <1>2 DEF StartedNow, Never
  <2>2. started[e] \in Int /\ started[e] <= clock
    BY <1>5, TimesAreNaturals
  <2>3. started[e] \div 2 <= Minute
    BY <1>1, <2>2 DEF Minute
  <2>4. ~over
    BY <1>1, <2>1, <2>3
  <2> QED BY <1>1, <2>1, <2>4 DEF StartedNow
<1>8. \A e \in Fixed : ~over /\ StartedNow(e) => StartedNow(e)'
  BY <1>1, <1>2 DEF StartedNow, Never
<1>9. MarkInv'
  <2> SUFFICES ASSUME NEW e \in Fixed
               PROVE  /\ \A m \in marked'[e] : m <= Minute'
                      /\ Minute' \in marked'[e] => StartedNow(e)'
                      /\ StartedNow(e)' => Minute' \in marked'[e] \cup rebooted'
    BY DEF MarkInv
  <2>1. \A m \in marked[e] : m \in Nat /\ m <= Minute
    BY DEF LoopsTyped, FixedInv, MarkInv
  <2>2. CASE over
    BY <1>1, <1>2, <1>7, <2>1, <2>2
  <2>3. CASE ~over
    BY <1>1, <1>2, <1>7, <1>8, <2>1, <2>3 DEF FixedInv, MarkInv
  <2> QED BY <2>2, <2>3
<1>10. TaskInv'
  <2> SUFFICES ASSUME NEW e \in (Fixed \cap Tasks) \ excused'
               PROVE  /\ e \in enabled
                      /\ auto.tick >= 2 * Minute' => Served(e, auto.todo)'
    BY <1>2 DEF TaskInv
  <2>1. e \notin idle /\ e \in enabled
    BY <1>2, TimesAreNaturals DEF idle
  <2>2. CASE over
    BY <1>1, <1>4, <2>1, <2>2
  <2>3. CASE ~over
    <3>1. e \notin excused /\ DeviceSchedules
      BY <1>2, <2>1, <2>3 DEF idle
    <3>2. auto.tick >= 2 * Minute => Served(e, auto.todo)
      BY <3>1 DEF FixedInv, TaskInv
    <3>3. Served(e, auto.todo) => Served(e, auto.todo)'
      BY <1>1, <1>2, <1>8, <2>3 DEF Served, Matches
    <3> QED BY <1>1, <2>1, <2>3, <3>2, <3>3
  <2> QED BY <2>2, <2>3
<1>11. RuleInv'
  <2> SUFFICES ASSUME NEW e \in (Fixed \cap Rules) \ excused'
               PROVE  /\ e \in enabled
                      /\ report.tick >= 2 * Minute' => Served(e, report.todo)'
    BY <1>2 DEF RuleInv
  <2>1. e \notin idle /\ e \in enabled
    BY <1>2, TimesAreNaturals DEF idle
  <2>2. CASE over
    BY <1>1, <1>4, <2>1, <2>2
  <2>3. CASE ~over
    <3>1. e \notin excused
      BY <1>2, <2>1, <2>3
    <3>2. report.tick >= 2 * Minute => Served(e, report.todo)
      BY <3>1 DEF FixedInv, RuleInv
    <3>3. Served(e, report.todo) => Served(e, report.todo)'
      BY <1>1, <1>2, <1>8, <2>3 DEF Served, Matches
    <3> QED BY <1>1, <2>1, <2>3, <3>2, <3>3
  <2> QED BY <2>2, <2>3
<1>12. over /\ Matches(Minute) => late = {}
  <2> SUFFICES ASSUME over, Matches(Minute), NEW e \in Fixed \ (excused \cup idle)
               PROVE  StartedNow(e)
    BY DEF late, StartedNow
  <2>1. e \in Tasks \/ e \in Rules
    BY TimesAreNaturals DEF Entries
  <2>2. CASE e \in Tasks
    <3>1. DeviceSchedules
      BY <2>2 DEF idle
    <3>2. auto.tick >= 2 * Minute /\ auto.todo = {}
      BY <1>1, <1>3, <1>4
    <3> QED BY <2>2, <3>1, <3>2 DEF FixedInv, TaskInv, Served
  <2>3. CASE e \in Rules
    <3>1. report.busy = None
      BY <2>3 DEF idle
    <3>2. report.tick >= 2 * Minute /\ report.todo = {}
      BY <1>1, <1>3, <1>4, <3>1
    <3> QED BY <2>3, <3>2 DEF FixedInv, RuleInv, Served
  <2> QED BY <2>1, <2>2, <2>3
<1>13. missed' = {}
  BY <1>2, <1>12 DEF FixedInv
<1> QED BY <1>6, <1>9, <1>10, <1>11, <1>13 DEF FixedInv

(* The loops come by.                                                       *)
LEMMA AutoTickKeepsFixed ==
  ASSUME LoopsTyped, FixedInv, AutoTick
  PROVE  FixedInv'
<1>1. UNCHANGED <<clock, enabled, link, report, marked, started, excused, missed, rebooted>>
  BY DEF AutoTick, memory
<1>2. /\ Minute' = Minute /\ DeviceSchedules' = DeviceSchedules
      /\ \A e \in Fixed : StartedNow(e)' <=> StartedNow(e)
  BY <1>1, MarksStay DEF FixedInv, Minute, DeviceSchedules
<1>3. /\ auto'.tick = clock
      /\ DeviceSchedules => auto'.todo = Tasks \cap enabled
  BY DEF AutoTick, LoopsTyped
<1>4. PastInv' /\ MarkInv'
  <2>1. clock \in Nat
    BY MinutesAreNaturals DEF LoopsTyped
  <2> QED BY <1>1, <1>3, <2>1, MarksStay DEF FixedInv, PastInv
<1>5. TaskInv'
  <2> SUFFICES ASSUME NEW e \in (Fixed \cap Tasks) \ excused
               PROVE  e \in enabled /\ (auto'.tick < clock \/ DeviceSchedules => e \in auto'.todo)
    BY <1>1, <1>2 DEF TaskInv, Served
  <2>1. clock \in Nat
    BY MinutesAreNaturals DEF LoopsTyped
  <2> QED BY <1>3, <2>1 DEF FixedInv, TaskInv
<1>6. RuleInv'
  BY <1>1, <1>2 DEF FixedInv, RuleInv, Served
<1> QED BY <1>1, <1>4, <1>5, <1>6 DEF FixedInv

LEMMA ReportTickKeepsFixed ==
  ASSUME LoopsTyped, FixedInv, ReportTick
  PROVE  FixedInv'
<1>1. UNCHANGED <<clock, enabled, link, auto, marked, started, excused, missed, rebooted>>
  BY DEF ReportTick, memory, history
<1>2. /\ Minute' = Minute /\ DeviceSchedules' = DeviceSchedules
      /\ \A e \in Fixed : StartedNow(e)' <=> StartedNow(e)
  BY <1>1, MarksStay DEF FixedInv, Minute, DeviceSchedules
<1>3. report'.tick = clock /\ report'.todo = Rules \cap enabled
  BY DEF ReportTick, LoopsTyped
<1>4. PastInv' /\ MarkInv'
  <2>1. clock \in Nat
    BY MinutesAreNaturals DEF LoopsTyped
  <2> QED BY <1>1, <1>3, <2>1, MarksStay DEF FixedInv, PastInv
<1>5. TaskInv'
  BY <1>1, <1>2 DEF FixedInv, TaskInv, Served
<1>6. RuleInv'
  BY <1>1, <1>2, <1>3 DEF FixedInv, RuleInv, Served
<1> QED BY <1>1, <1>4, <1>5, <1>6 DEF FixedInv

(* A fixed entry is evaluated: in a minute of its own it is started, or was *)
(* already.                                                                 *)
LEMMA TakenIsStarted ==
  ASSUME MarkInv, NEW e \in Fixed, ~Takes(e)
  PROVE  Matches(Minute) => StartedNow(e)
  BY DEF MarkInv, Takes

LEMMA TakingKeepsMarks ==
  ASSUME LoopsTyped, PastInv, MarkInv, NEW e \in Fixed, UNCHANGED <<clock, rebooted>>,
         NEW S, Minute \in S, \A m \in S : m \in marked[e] \cup {Minute},
         IF Takes(e) THEN /\ started' = [started EXCEPT ![e] = clock]
                          /\ marked' = [marked EXCEPT ![e] = S]
         ELSE UNCHANGED <<started, marked>>
  PROVE  /\ MarkInv' /\ (Matches(Minute) => StartedNow(e)')
         /\ \A f \in Fixed : StartedNow(f) => StartedNow(f)'
<1>1. CASE Takes(e)
  <2>1. \A m \in S : m <= Minute
    BY MinutesAreNaturals DEF MarkInv, LoopsTyped
  <2> QED BY <1>1, <2>1, StartingMarks
<1>2. CASE ~Takes(e)
  BY <1>2, MarksStay, TakenIsStarted
<1> QED BY <1>1, <1>2

(* Starting an entry now keeps the times of the past.                       *)
LEMMA StartingNowKeepsPast ==
  ASSUME LoopsTyped, PastInv, NEW e \in Entries, UNCHANGED clock,
         auto'.tick = auto.tick, report'.tick = report.tick,
         started' = started \/ started' = [started EXCEPT ![e] = clock]
  PROVE  PastInv'
<1>1. clock \in Nat
  BY MinutesAreNaturals DEF LoopsTyped
<1>2. \A f \in Entries : started'[f] = started[f] \/ started'[f] = clock
  BY DEF LoopsTyped
<1>3. \A f \in Entries : started'[f] <= clock
  BY <1>1, <1>2 DEF PastInv
<1> QED BY <1>3 DEF PastInv

LEMMA EvaluationKeepsFixed ==
  ASSUME LoopsTyped, FixedInv, NEW t \in Tasks,
         EvaluateFixed(t) \/ EvaluatePeriodic(t) \/ QueryFails(t)
  PROVE  FixedInv'
<1>1. UNCHANGED <<clock, enabled, link, report, excused, missed, rebooted>>
  BY DEF EvaluateFixed, EvaluatePeriodic, QueryFails, Evaluated
<1>2. auto'.tick = auto.tick /\ auto'.todo = auto.todo \ {t}
  BY DEF EvaluateFixed, EvaluatePeriodic, QueryFails, Evaluated, LoopsTyped
<1>3. Minute' = Minute /\ DeviceSchedules' = DeviceSchedules
  BY <1>1 DEF Minute, DeviceSchedules
<1>4. started' = started \/ started' = [started EXCEPT ![t] = clock]
  BY DEF EvaluateFixed, EvaluatePeriodic, QueryFails, Starts, Started
<1>5. PastInv'
  BY <1>1, <1>2, <1>4, TimesAreNaturals, StartingNowKeepsPast DEF FixedInv
<1>6. /\ MarkInv' /\ (t \in Fixed => (Matches(Minute) => StartedNow(t)'))
      /\ \A f \in Fixed : StartedNow(f) => StartedNow(f)'
  <2>1. CASE EvaluateFixed(t)
    <3>1. /\ t \in Fixed
          /\ IF Takes(t) THEN /\ started' = [started EXCEPT ![t] = clock]
                              /\ marked' = [marked EXCEPT ![t] = {Minute}]
             ELSE UNCHANGED <<started, marked>>
      BY <2>1 DEF EvaluateFixed, Starts, Started
    <3> QED BY <1>1, <3>1, TakingKeepsMarks DEF FixedInv
  <2>2. CASE EvaluatePeriodic(t) \/ QueryFails(t)
    <3>1. t \notin Fixed /\ UNCHANGED marked
      BY <2>2 DEF EvaluatePeriodic, QueryFails
    <3>2. \A f \in Fixed : started'[f] = started[f]
      BY <1>4, <3>1, TimesAreNaturals DEF LoopsTyped
    <3> QED BY <1>1, <3>1, <3>2, MarksStay DEF FixedInv
  <2> QED BY <2>1, <2>2
<1>7. TaskInv'
  <2> SUFFICES ASSUME NEW e \in (Fixed \cap Tasks) \ excused,
                      auto.tick >= 2 * Minute, auto.tick < clock \/ DeviceSchedules
               PROVE  e \in auto'.todo \/ (Matches(Minute) => StartedNow(e)')
    BY <1>1, <1>2, <1>3 DEF FixedInv, TaskInv, Served
  <2>1. e \in auto.todo \/ (Matches(Minute) => StartedNow(e))
    BY DEF FixedInv, TaskInv, Served
  <2> QED BY <1>2, <1>6, <2>1
<1>8. RuleInv'
  BY <1>1, <1>3, <1>6 DEF FixedInv, RuleInv, Served
<1> QED BY <1>1, <1>5, <1>6, <1>7, <1>8 DEF FixedInv

LEMMA EvaluateRuleKeepsFixed ==
  ASSUME LoopsTyped, FixedInv, NEW r \in Rules, EvaluateRule(r)
  PROVE  FixedInv'
<1>1. UNCHANGED <<clock, enabled, link, auto, excused, missed, rebooted>>
  BY DEF EvaluateRule
<1>2. report'.tick = report.tick /\ report'.todo = report.todo \ {r}
  BY DEF EvaluateRule, LoopsTyped
<1>3. Minute' = Minute /\ DeviceSchedules' = DeviceSchedules
  BY <1>1 DEF Minute, DeviceSchedules
<1>4. IF RuleDue(r) THEN Remember(r) /\ started' = [started EXCEPT ![r] = clock]
      ELSE UNCHANGED <<started, marked>>
  BY DEF EvaluateRule, Started, memory
<1>5. PastInv'
  BY <1>1, <1>2, <1>4, TimesAreNaturals, StartingNowKeepsPast DEF FixedInv
<1>6. /\ MarkInv' /\ (r \in Fixed => (Matches(Minute) => StartedNow(r)'))
      /\ \A f \in Fixed : StartedNow(f) => StartedNow(f)'
  <2>1. CASE r \in Fixed
    <3> DEFINE S == marked[r] \cup {Minute}
    <3>1. IF Takes(r) THEN /\ started' = [started EXCEPT ![r] = clock]
                           /\ marked' = [marked EXCEPT ![r] = S]
          ELSE UNCHANGED <<started, marked>>
      BY <1>4, <2>1 DEF RuleDue, Remember
    <3>2. Minute \in S /\ \A m \in S : m \in marked[r] \cup {Minute}
      OBVIOUS
    <3> HIDE DEF S
    <3> QED BY <1>1, <2>1, <3>1, <3>2, TakingKeepsMarks DEF FixedInv
  <2>2. CASE r \notin Fixed
    <3>1. UNCHANGED marked
      BY <1>4, <2>2 DEF Remember
    <3>2. \A f \in Fixed : started'[f] = started[f]
      BY <1>4, <2>2, TimesAreNaturals DEF LoopsTyped
    <3> QED BY <1>1, <2>2, <3>1, <3>2, MarksStay DEF FixedInv
  <2> QED BY <2>1, <2>2
<1>7. TaskInv'
  BY <1>1, <1>3, <1>6 DEF FixedInv, TaskInv, Served
<1>8. RuleInv'
  <2> SUFFICES ASSUME NEW e \in (Fixed \cap Rules) \ excused, report.tick >= 2 * Minute
               PROVE  e \in report'.todo \/ (Matches(Minute) => StartedNow(e)')
    BY <1>1, <1>2, <1>3 DEF FixedInv, RuleInv, Served
  <2>1. e \in report.todo \/ (Matches(Minute) => StartedNow(e))
    BY DEF FixedInv, RuleInv, Served
  <2> QED BY <1>2, <1>6, <2>1
<1> QED BY <1>1, <1>5, <1>6, <1>7, <1>8 DEF FixedInv

(* The other steps start nothing; those that take the ground from an entry  *)
(* excuse it.                                                               *)
LEMMA OthersKeepFixed ==
  ASSUME FixedInv, UNCHANGED <<clock, marked, started, missed>>, rebooted \subseteq rebooted',
         excused \subseteq excused',
         \A e \in Fixed : e \in enabled => e \in enabled' \/ e \in excused',
         auto' = auto, report'.tick = report.tick, report'.todo = report.todo,
         Fixed \cap Tasks \subseteq excused' \/ link' = link
  PROVE  FixedInv'
<1>1. Minute' = Minute /\ (link' = link => DeviceSchedules' = DeviceSchedules)
  BY DEF Minute, DeviceSchedules
<1>2. MarkInv' /\ \A e \in Fixed : StartedNow(e)' <=> StartedNow(e)
  BY MarksStay DEF FixedInv
<1>3. PastInv'
  BY DEF FixedInv, PastInv
<1>4. TaskInv'
  BY <1>1, <1>2 DEF FixedInv, TaskInv, Served
<1>5. RuleInv'
  BY <1>1, <1>2 DEF FixedInv, RuleInv, Served
<1> QED BY <1>2, <1>3, <1>4, <1>5 DEF FixedInv

LEMMA RunsKeepFixed ==
  ASSUME LoopsTyped, FixedInv, NEW r \in runs, Check(r) \/ Finish(r)
  PROVE  FixedInv'
<1>1. UNCHANGED <<clock, enabled, link, auto, report, memory, started, excused, missed, rebooted>>
  BY DEF Check, Finish, RunStep
<1> QED BY <1>1, OthersKeepFixed DEF memory

LEMMA UserKeepsFixed ==
  ASSUME LoopsTyped, FixedInv,
         \/ Reported \/ ClearLogs \/ LinkChanges
         \/ (\E e \in Entries : Toggle(e)) \/ (\E t \in Tasks : TestRun(t))
  PROVE  FixedInv'
<1>1. UNCHANGED <<clock, auto, memory, started, missed, rebooted>>
  BY DEF Reported, ClearLogs, LinkChanges, Toggle, TestRun, memory, history
<1>2. report'.tick = report.tick /\ report'.todo = report.todo
  BY DEF Reported, ClearLogs, LinkChanges, Toggle, TestRun, LoopsTyped
<1>3. excused \subseteq excused'
  BY DEF Reported, ClearLogs, LinkChanges, Toggle, TestRun, history
<1>4. \A e \in Fixed : e \in enabled => e \in enabled' \/ e \in excused'
  BY DEF Reported, ClearLogs, LinkChanges, Toggle, TestRun, history
<1>5. Fixed \cap Tasks \subseteq excused' \/ link' = link
  BY DEF Reported, ClearLogs, LinkChanges, Toggle, TestRun, history
<1> QED BY <1>1, <1>2, <1>3, <1>4, <1>5, OthersKeepFixed DEF memory

(* A restart forgets all marks, in a minute that is remembered as such.     *)
LEMMA RestartKeepsFixed ==
  ASSUME LoopsTyped, FixedInv, Restart
  PROVE  FixedInv'
<1>1. /\ UNCHANGED <<clock, enabled, started, missed>>
      /\ auto'.tick = clock /\ report'.tick = clock
      /\ marked' = [e \in Fixed |-> {}] /\ excused' = Fixed
      /\ rebooted' = rebooted \cup {Minute}
  BY DEF Restart
<1>2. Minute' = Minute /\ clock \in Nat
  BY <1>1, MinutesAreNaturals DEF Minute, LoopsTyped
<1>3. PastInv'
  BY <1>1, <1>2 DEF FixedInv, PastInv
<1>4. MarkInv'
  BY <1>1, <1>2 DEF MarkInv
<1>5. TaskInv' /\ RuleInv'
  BY <1>1 DEF TaskInv, RuleInv
<1> QED BY <1>1, <1>3, <1>4, <1>5 DEF FixedInv

LEMMA FixedIsKept ==
  ASSUME SchedulesTyped, FixedInv, [SchedulesNext]_schedules
  PROVE  FixedInv'
<1>1. LoopsTyped
  BY DEF SchedulesTyped
<1>2. CASE UNCHANGED schedules
  <2>1. UNCHANGED <<clock, enabled, link, auto, report, memory, started, excused, missed, rebooted>>
    BY <1>2 DEF schedules, memory, history
  <2> QED BY <2>1, OthersKeepFixed DEF memory
<1>3. CASE SchedulesNext
  BY <1>1, <1>3, AdvanceKeepsFixed, AutoTickKeepsFixed, ReportTickKeepsFixed, EvaluationKeepsFixed,
     EvaluateRuleKeepsFixed, RunsKeepFixed, UserKeepsFixed, RestartKeepsFixed, Zenon
     DEF SchedulesNext
<1> QED BY <1>2, <1>3

LEMMA PeriodAtSchedulesInit == SchedulesInit => PeriodInv
<1> SUFFICES ASSUME SchedulesInit PROVE PeriodInv
  OBVIOUS
<1>1. \A e \in Periodic : ended[e] = Never
  BY DEF SchedulesInit
<1> QED BY <1>1 DEF PeriodInv

(* No end is added, and the log loses at most what is then forgotten.       *)
LEMMA KeptLogTells ==
  ASSUME SchedulesTyped, PeriodInv, UNCHANGED <<ended, due>>, forgotten \subseteq forgotten',
         \/ logs' = logs
         \/ logs' = Cleaned /\ LostBy(Cleaned) \subseteq forgotten'
  PROVE  PeriodInv'
<1>1. LogsOK(logs, clock) /\ clock \in Nat
  BY MinutesAreNaturals DEF SchedulesTyped, LoopsTyped
<1>2. ASSUME NEW t \in (Tasks \cap Periodic) \ forgotten', ended[t] # Never
      PROVE  Told(logs', t, ended[t])
  <2>1. Told(logs, t, ended[t])
    BY <1>2 DEF PeriodInv
  <2>2. ended[t] \in Int
    <3>1. ended[t] \in Times \cup {Never}
      BY <1>2 DEF SchedulesTyped, LoopsTyped
    <3>2. Times \cup {Never} \subseteq Int
      BY TimesAreNaturals DEF Never
    <3> QED BY <3>1, <3>2
  <2>3. CASE logs' = logs
    BY <2>1, <2>3
  <2>4. CASE logs' = Cleaned /\ LostBy(Cleaned) \subseteq forgotten'
    <3>1. t \in Tasks \cap Periodic /\ t \notin LostBy(Cleaned)
      BY <2>4
    <3> QED BY <1>1, <2>1, <2>2, <2>4, <3>1, CleanupKeepsLatest
  <2> QED BY <2>3, <2>4
<1>3. \A r \in (Rules \cap Periodic) \ forgotten' : ended'[r] # Never => due'[r] = ended'[r]
  BY DEF PeriodInv
<1> QED BY <1>2, <1>3 DEF PeriodInv

LEMMA EvaluationKeepsPeriod ==
  ASSUME SchedulesTyped, PeriodInv, NEW t \in Tasks,
         EvaluateFixed(t) \/ EvaluatePeriodic(t) \/ QueryFails(t)
  PROVE  PeriodInv'
<1>1. UNCHANGED <<ended, due>>
  BY DEF EvaluateFixed, EvaluatePeriodic, QueryFails, Evaluated
<1>2. /\ forgotten \subseteq forgotten'
      /\ logs' = logs \/ (logs' = Cleaned /\ LostBy(Cleaned) \subseteq forgotten')
  BY DEF EvaluateFixed, EvaluatePeriodic, QueryFails, MaybeCleanup, Cleanup
<1> QED BY <1>1, <1>2, KeptLogTells

LEMMA AutoTickKeepsPeriod ==
  ASSUME SchedulesTyped, PeriodInv, AutoTick
  PROVE  PeriodInv'
<1>1. UNCHANGED <<ended, due>>
  BY DEF AutoTick, memory
<1>2. /\ forgotten \subseteq forgotten'
      /\ logs' = logs \/ (logs' = Cleaned /\ LostBy(Cleaned) \subseteq forgotten')
  BY DEF AutoTick, Cleanup
<1> QED BY <1>1, <1>2, KeptLogTells

(* The end of a run is written to the log, or is forgotten.                 *)
LEMMA FinishKeepsPeriod ==
  ASSUME SchedulesTyped, PeriodInv, NEW r \in runs, Finish(r)
  PROVE  PeriodInv'
<1> DEFINE t == r.task
           row == [task |-> t, at |-> clock]
<1>1. t \in Tasks /\ clock \in Times /\ clock \in Nat /\ LogsOK(logs, clock)
  BY MinutesAreNaturals DEF SchedulesTyped, LoopsTyped, RunsTyped
<1>2. /\ UNCHANGED due
      /\ ended' = [e \in Periodic |-> IF e = t THEN clock ELSE ended[e]]
      /\ \/ logs' = Append(logs, row) /\ forgotten' = forgotten \ {t}
         \/ logs' = logs /\ forgotten' = forgotten \cup ({t} \cap Periodic)
  BY DEF Finish, RunStep, memory
<1> HIDE DEF t
<1>3. \A u \in Periodic \ {t} : ended'[u] = ended[u]
  BY <1>2
<1>4. t \in Periodic => ended'[t] = clock
  BY <1>2
<1>5. \A u \in Periodic : u \notin forgotten' /\ u # t => u \notin forgotten
  BY <1>2
<1>6. \A u, end : Told(logs, u, end) => Told(logs', u, end)
  BY <1>1, <1>2, WritingKeepsOrder
<1>7. ASSUME NEW u \in (Tasks \cap Periodic) \ forgotten', ended'[u] # Never
      PROVE  Told(logs', u, ended'[u])
  <2>1. CASE u = t
    <3>1. logs' = Append(logs, row)
      BY <1>2, <1>7, <2>1
    <3> QED BY <1>1, <1>4, <2>1, <3>1, WritingKeepsOrder
  <2>2. CASE u # t
    BY <1>3, <1>5, <1>6, <1>7, <2>2 DEF PeriodInv
  <2> QED BY <2>1, <2>2
<1>8. ASSUME NEW u \in (Rules \cap Periodic) \ forgotten', ended'[u] # Never
      PROVE  due'[u] = ended'[u]
  <2>1. u # t
    BY <1>1, TimesAreNaturals
  <2> QED BY <1>2, <1>3, <1>5, <1>8, <2>1 DEF PeriodInv
<1> QED BY <1>7, <1>8 DEF PeriodInv

(* A periodic rule that is due has ended, for its period, when it is due.   *)
LEMMA EvaluateRuleKeepsPeriod ==
  ASSUME SchedulesTyped, PeriodInv, NEW r \in Rules, EvaluateRule(r)
  PROVE  PeriodInv'
<1>1. logs' = logs /\ LoopsTyped
  BY DEF EvaluateRule, SchedulesTyped
<1>2. CASE RuleDue(r)
  <2>1. /\ Remember(r) /\ forgotten' = forgotten \ {r}
        /\ ended' = [e \in Periodic |-> IF e = r THEN clock ELSE ended[e]]
    BY <1>2 DEF EvaluateRule
  <2>2. \A e \in Periodic \ {r} :
          ended'[e] = ended[e] /\ (e \notin forgotten' => e \notin forgotten)
    BY <2>1
  <2>3. \A e \in (Rules \cap Periodic) \ {r} : due'[e] = due[e]
    BY <1>1, <2>1 DEF Remember, LoopsTyped
  <2>4. r \in Periodic => due'[r] = ended'[r]
    <3> SUFFICES ASSUME r \in Periodic PROVE due'[r] = ended'[r]
      OBVIOUS
    <3>1. r \notin Fixed
      BY TimesAreNaturals
    <3>2. due' = [due EXCEPT ![r] = clock]
      BY <2>1, <3>1 DEF Remember
    <3> QED BY <1>1, <2>1, <3>2 DEF LoopsTyped
  <2>5. r \notin Tasks
    BY TimesAreNaturals
  <2> QED BY <1>1, <2>2, <2>3, <2>4, <2>5 DEF PeriodInv
<1>3. CASE ~RuleDue(r)
  <2>1. UNCHANGED <<memory, ended, forgotten>>
    BY <1>3 DEF EvaluateRule
  <2> QED BY <1>1, <2>1 DEF PeriodInv, memory
<1> QED BY <1>2, <1>3

LEMMA ClearingKeepsPeriod ==
  ASSUME SchedulesTyped, PeriodInv, ClearLogs
  PROVE  PeriodInv'
<1>1. UNCHANGED <<ended, due>> /\ forgotten' = forgotten \cup LostBy(<<>>)
  BY DEF ClearLogs, memory
<1>2. ASSUME NEW t \in (Tasks \cap Periodic) \ forgotten', ended[t] # Never
      PROVE  FALSE
  <2>1. Told(logs, t, ended[t])
    BY <1>1, <1>2 DEF PeriodInv
  <2>2. t \in LostBy(<<>>)
    BY <2>1 DEF LostBy, HasLog, Told
  <2> QED BY <1>1, <1>2, <2>2
<1>3. \A r \in (Rules \cap Periodic) \ forgotten' : ended'[r] # Never => due'[r] = ended'[r]
  BY <1>1 DEF PeriodInv
<1> QED BY <1>1, <1>2, <1>3 DEF PeriodInv

(* A restart forgets when the rules were due.                               *)
LEMMA RestartKeepsPeriod ==
  ASSUME SchedulesTyped, PeriodInv, Restart
  PROVE  PeriodInv'
<1>1. UNCHANGED <<logs, ended>> /\ forgotten' = forgotten \cup (Rules \cap Periodic)
  BY DEF Restart
<1> QED BY <1>1 DEF PeriodInv

LEMMA OthersKeepPeriod ==
  ASSUME PeriodInv, UNCHANGED <<logs, ended, due, forgotten>>
  PROVE  PeriodInv'
  BY DEF PeriodInv

LEMMA PeriodIsKept ==
  ASSUME SchedulesTyped, PeriodInv, [SchedulesNext]_schedules
  PROVE  PeriodInv'
<1>1. CASE \/ UNCHANGED schedules \/ Advance \/ ReportTick \/ Reported \/ LinkChanges
           \/ (\E r \in runs : Check(r)) \/ (\E e \in Entries : Toggle(e))
           \/ (\E t \in Tasks : TestRun(t))
  <2>1. UNCHANGED <<logs, ended, due, forgotten>>
    BY <1>1 DEF schedules, memory, history, Advance, ReportTick, Reported, LinkChanges, Check,
                RunStep, Toggle, TestRun
  <2> QED BY <2>1, OthersKeepPeriod
<1>2. CASE SchedulesNext
  BY <1>1, <1>2, AutoTickKeepsPeriod, EvaluationKeepsPeriod, FinishKeepsPeriod,
     EvaluateRuleKeepsPeriod, ClearingKeepsPeriod, RestartKeepsPeriod, Zenon DEF SchedulesNext
<1> QED BY <1>1, <1>2

-----------------------------------------------------------------------------
SchedulesInv == SchedulesTyped /\ FixedInv /\ PeriodInv

LEMMA SchedulesInvHolds == SchedulesSpec => []SchedulesInv
<1>1. SchedulesInit => SchedulesInv
  BY TypesAtSchedulesInit, FixedAtSchedulesInit, PeriodAtSchedulesInit DEF SchedulesInv
<1>2. SchedulesInv /\ [SchedulesNext]_schedules => SchedulesInv'
  BY TypesAreKept, FixedIsKept, PeriodIsKept DEF SchedulesInv
<1> QED BY <1>1, <1>2, PTL DEF SchedulesSpec

(* Only an evaluation starts an entry.                                      *)
LEMMA StartedByEvaluation ==
  ASSUME LoopsTyped, [SchedulesNext]_schedules, NEW e \in Entries, started'[e] # started[e]
  PROVE  \/ e \in Tasks /\ (EvaluateFixed(e) \/ EvaluatePeriodic(e) \/ QueryFails(e)) /\ Starts(e)
         \/ e \in Rules /\ EvaluateRule(e) /\ RuleDue(e)
<1>1. CASE \E t \in Tasks : EvaluateFixed(t) \/ EvaluatePeriodic(t) \/ QueryFails(t)
  <2>1. PICK t \in Tasks : EvaluateFixed(t) \/ EvaluatePeriodic(t) \/ QueryFails(t)
    BY <1>1
  <2>2. Starts(t)
    BY <2>1 DEF EvaluateFixed, EvaluatePeriodic, QueryFails
  <2>3. e = t
    BY <2>2 DEF Starts, Started, LoopsTyped
  <2> QED BY <2>1, <2>2, <2>3
<1>2. CASE \E r \in Rules : EvaluateRule(r)
  <2>1. PICK r \in Rules : EvaluateRule(r)
    BY <1>2
  <2>2. RuleDue(r) /\ Started(r)
    BY <2>1 DEF EvaluateRule
  <2>3. e = r
    BY <2>2 DEF Started, LoopsTyped
  <2> QED BY <2>1, <2>2, <2>3
<1>3. CASE \/ UNCHANGED schedules \/ Advance \/ AutoTick \/ ReportTick \/ Reported \/ LinkChanges
           \/ (\E r \in runs : Check(r) \/ Finish(r)) \/ (\E f \in Entries : Toggle(f))
           \/ (\E t \in Tasks : TestRun(t)) \/ ClearLogs \/ Restart
  BY <1>3 DEF schedules, memory, history, Advance, AutoTick, ReportTick, Reported, LinkChanges,
              Check, Finish, RunStep, Toggle, TestRun, ClearLogs, Restart
<1> QED BY <1>1, <1>2, <1>3, Zenon DEF SchedulesNext

\* A fixed entry starts exactly once in a minute it names, unless it is excused
\* in that minute or the service restarted in it: for any entries, minutes and
\* any overlap of the loops with the user, the link and slow reports.
\* (fixed_last_run, fixed_sent_keys, start_automation_scheduler)
THEOREM FixedEntriesStartOnce == SchedulesSpec => FixedOnce
<1>1. SchedulesInv => SchedulesTypeOK /\ missed = {}
  BY TypedMeansTypeOK DEF SchedulesInv, FixedInv
<1>2. ASSUME SchedulesInv, [SchedulesNext]_schedules, NEW e \in Fixed, started'[e] # started[e]
      PROVE  started[e] = Never \/ started[e] \div 2 # Minute \/ Minute \in rebooted
  <2>1. LoopsTyped /\ MarkInv
    BY <1>2 DEF SchedulesInv, SchedulesTyped, FixedInv
  <2>2. Takes(e)
    <3>1. \/ e \in Tasks /\ (EvaluateFixed(e) \/ EvaluatePeriodic(e) \/ QueryFails(e))
          \/ e \in Rules /\ EvaluateRule(e) /\ RuleDue(e)
      BY <1>2, <2>1, StartedByEvaluation, TimesAreNaturals
    <3>2. CASE e \in Rules /\ EvaluateRule(e) /\ RuleDue(e)
      BY <1>2, <3>2 DEF RuleDue
    <3>3. CASE e \in Tasks /\ (EvaluateFixed(e) \/ EvaluatePeriodic(e) \/ QueryFails(e))
      BY <1>2, <3>3 DEF EvaluateFixed, EvaluatePeriodic, QueryFails
    <3> QED BY <3>1, <3>2, <3>3
  <2> QED BY <2>1, <2>2 DEF MarkInv, StartedNow, Takes
<1>3. SchedulesInv /\ [SchedulesNext]_schedules =>
        [\A e \in Fixed :
           started'[e] # started[e] =>
             started[e] = Never \/ started[e] \div 2 # Minute \/ Minute \in rebooted]_schedules
  BY <1>2
<1> QED BY <1>1, <1>3, SchedulesInvHolds, PTL DEF FixedOnce, SchedulesSpec

\* A loop does not start a periodic entry within its period after its last end,
\* unless that end is out of the program's reach: for any entries, periods,
\* limits of the log and any overlap of runs.
\* (get_last_log_for_task, last_interval_sent)
THEOREM PeriodsFollowEnds == SchedulesSpec => PeriodAfterEnd
<1>1. ASSUME SchedulesInv, [SchedulesNext]_schedules, NEW e \in Periodic, started'[e] # started[e],
             ended[e] # Never, e \notin forgotten, e \notin forgotten'
      PROVE  clock - ended[e] >= Period
  <2>1. LoopsTyped /\ PeriodInv /\ LogsOK(logs, clock)
    BY <1>1 DEF SchedulesInv, SchedulesTyped
  <2>2. \/ e \in Tasks /\ (EvaluateFixed(e) \/ EvaluatePeriodic(e) \/ QueryFails(e))
        \/ e \in Rules /\ EvaluateRule(e) /\ RuleDue(e)
    BY <1>1, <2>1, StartedByEvaluation, TimesAreNaturals
  <2>3. CASE e \in Rules /\ EvaluateRule(e) /\ RuleDue(e)
    <3>1. due[e] = ended[e] /\ e \notin Fixed
      BY <1>1, <2>1, <2>3, TimesAreNaturals DEF PeriodInv
    <3> QED BY <1>1, <2>3, <3>1 DEF RuleDue
  <2>4. CASE e \in Tasks /\ (EvaluateFixed(e) \/ EvaluatePeriodic(e) \/ QueryFails(e))
    <3>1. EvaluatePeriodic(e)
      BY <1>1, <2>4, TimesAreNaturals DEF EvaluateFixed, QueryFails
    <3>2. IntervalElapsed(e)
      BY <1>1, <3>1 DEF EvaluatePeriodic
    <3>3. PICK i \in DOMAIN logs : logs[i].task = e /\ logs[i].at >= ended[e]
      BY <1>1, <2>1, <2>4 DEF PeriodInv, Told
    <3>4. clock - logs[i].at >= Period
      BY <3>2, <3>3 DEF IntervalElapsed, Elapsed
    <3>5. logs[i] \in Rows
      BY <2>1, <3>3 DEF LogsOK
    <3>6. ended[e] \in Int /\ logs[i].at \in Int /\ clock \in Int /\ Period \in Int
      <4>1. Times \subseteq Int /\ Never \in Int
        BY TimesAreNaturals DEF Never
      <4>2. ended[e] \in Times \cup {Never} /\ clock \in Times
        BY <2>1 DEF LoopsTyped
      <4>3. logs[i].at \in Times
        BY <3>5 DEF Rows
      <4>4. ended[e] \in Int
        BY <4>1, <4>2
      <4>5. logs[i].at \in Int /\ clock \in Int
        BY <4>1, <4>2, <4>3
      <4>6. Period \in Int
        BY TimesAreNaturals
      <4> QED BY <4>4, <4>5, <4>6
    <3> QED BY <3>3, <3>4, <3>6
  <2> QED BY <2>2, <2>3, <2>4
<1>2. SchedulesInv /\ [SchedulesNext]_schedules =>
        [\A e \in Periodic :
           started'[e] # started[e] =>
             \/ ended[e] = Never \/ clock - ended[e] >= Period
             \/ e \in forgotten \cup forgotten']_schedules
  BY <1>1
<1> QED BY <1>2, SchedulesInvHolds, PTL DEF PeriodAfterEnd, SchedulesSpec
=============================================================================
