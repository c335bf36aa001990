----------------------------- MODULE AgentLink -----------------------------
(***************************************************************************)
(* How the agent brings the device's SMS, SMS deletions and events to the  *)
(* Hub: the sync status each item has in the device database, the agent's  *)
(* own delivered_items and agent_outbox tables, the session that fills and *)
(* flushes the outbox and handles the Hub's acks, and the full SMS         *)
(* synchronisation when the agent meets a Hub it does not know.            *)
(*                                                                         *)
(* The database writes of an ack, and those of a change of Hub, are steps  *)
(* of their own: the session, or the process, may stop between any two.    *)
(* The Hub is external: it may accept an item, ask for a retry, refuse it  *)
(* for good, or not answer; it may also be replaced by another one.        *)
(***************************************************************************)
EXTENDS Naturals, FiniteSets

CONSTANTS
  SmsItems,      \* the SMS of the device, numbered in the order of their ids
  OtherItems,    \* deletions or events, numbered likewise
  Refused,       \* the items every Hub refuses for good
  Hubs,          \* Hub instances
  NoHub,         \* the hub_instance_id of an agent that never met a Hub
  Limit,         \* items of one kind read per business tick (100 in the code)
  MaxEnvelopes,  \* bound on the envelopes made for one item
  MaxBreaks,     \* bound on the sessions that end
  MaxMoves       \* bound on replacements of the Hub and new enrollments

Items == SmsItems \cup OtherItems

ASSUME ConstantsAssumption ==
  /\ SmsItems \in SUBSET Nat /\ OtherItems \in SUBSET Nat
  /\ SmsItems \cap OtherItems = {}
  /\ Refused \subseteq Items
  /\ NoHub \notin Hubs
  /\ Limit \in Nat \ {0}
  /\ MaxEnvelopes \in Nat
  /\ MaxBreaks \in Nat
  /\ MaxMoves \in Nat

VARIABLES
  status,    \* sync status of each item in the device database
  delivered, \* delivered_items of the agent's store
  outbox,    \* agent_outbox
  sent,      \* the envelopes of the outbox with attempt_count > 0
  dead,      \* agent_dead_letters
  made,      \* how many envelopes were made for each item
  known,     \* hub_instance_id of the saved configuration
  session,   \* how far run_session got
  handling,  \* the accepted envelope whose ack is being handled, if any
  wire,      \* envelopes on their way to the Hub
  replies,   \* the Hub's answers on their way back
  hub,       \* the Hub the agent reaches
  holds,     \* the items each Hub accepted
  breaks,
  moves

table == <<status, delivered, outbox, sent, dead, made>>
vars  == <<table, known, session, handling, wire, replies, hub, holds, breaks, moves>>

-----------------------------------------------------------------------------
Envelope == [item: Items, number: 1..MaxEnvelopes]
Answers  == {"accepted", "retry", "refused"}

Nothing == [step |-> "none"]
Handled == {Nothing} \cup [step: {"synced", "delivered"}, envelope: Envelope]

TypeOK ==
  /\ status \in [Items -> {"absent", "pending", "synced"}]
  /\ delivered \in SUBSET Items
  /\ outbox \in SUBSET Envelope
  /\ sent \in SUBSET outbox
  /\ dead \in SUBSET Envelope
  /\ made \in [Items -> 0..MaxEnvelopes]
  /\ known \in Hubs \cup {NoHub}
  /\ session \in {"down", "ready", "cleared", "reset", "up", "broken"}
  /\ handling \in Handled
  /\ wire \in SUBSET Envelope
  /\ replies \in SUBSET (Envelope \X Answers)
  /\ hub \in Hubs
  /\ holds \in [Hubs -> SUBSET Items]
  /\ breaks \in 0..MaxBreaks
  /\ moves \in 0..MaxMoves

Init ==
  /\ status = [i \in Items |-> "absent"]
  /\ delivered = {}
  /\ outbox = {}
  /\ sent = {}
  /\ dead = {}
  /\ made = [i \in Items |-> 0]
  /\ known = NoHub
  /\ session = "down"
  /\ handling = Nothing
  /\ wire = {}
  /\ replies = {}
  /\ hub \in Hubs
  /\ holds = [h \in Hubs |-> {}]
  /\ breaks = 0
  /\ moves = 0

\* The session loop waits for its next event.
Idle == session = "up" /\ handling = Nothing

-----------------------------------------------------------------------------
(* The device database: an SMS, a deletion or an event is recorded.         *)

RecordItem(i) ==
  /\ status[i] = "absent"
  /\ status' = [status EXCEPT ![i] = "pending"]
  /\ UNCHANGED <<delivered, outbox, sent, dead, made, known, session, handling,
                 wire, replies, hub, holds, breaks, moves>>

-----------------------------------------------------------------------------
(* flush_outbox, once the outbox is box and marked its envelopes with a     *)
(* positive attempt_count: the others are sent one by one, and all of them  *)
(* are marked after the last send.                                          *)

FlushCompletes(box, marked) ==
  /\ outbox' = box
  /\ sent' = box
  /\ wire' = wire \cup (box \ marked)
  /\ UNCHANGED session

\* A send fails: nothing is marked and the error ends the session.
FlushFails(box, marked) ==
  /\ breaks < MaxBreaks
  /\ outbox' = box
  /\ sent' = marked
  /\ \E some \in SUBSET (box \ marked) : wire' = wire \cup some
  /\ session' = "broken"

Flush(box, marked) == FlushCompletes(box, marked) \/ FlushFails(box, marked)

\* Mutant: the attempts are kept.
ResetNothing == sent

\* reset_outbox_attempts: the envelopes that stay marked.
ResetAttempts == {}

-----------------------------------------------------------------------------
(* run_session, up to its loop.                                             *)

\* A session_ready of a Hub the agent knows: nothing to synchronise again.
MeetKnownHub ==
  /\ session = "down"
  /\ hub = known
  /\ session' = "up"
  /\ sent' = ResetAttempts
  /\ UNCHANGED <<status, delivered, outbox, dead, made, known, handling, wire, replies,
                 hub, holds, breaks, moves>>

MeetNewHub ==
  /\ session = "down"
  /\ hub # known
  /\ session' = "ready"
  /\ UNCHANGED <<table, known, handling, wire, replies, hub, holds, breaks, moves>>

\* clear_delivered_items("sms_batch").
ClearDelivered ==
  /\ session = "ready"
  /\ session' = "cleared"
  /\ delivered' = delivered \ SmsItems
  /\ UNCHANGED <<status, outbox, sent, dead, made, known, handling, wire, replies,
                 hub, holds, breaks, moves>>

\* Mutant: the SMS stay synced.
ResetSyncForgotten ==
  /\ session = "cleared"
  /\ session' = "reset"
  /\ UNCHANGED <<table, known, handling, wire, replies, hub, holds, breaks, moves>>

\* prepare_full_sms_sync.
ResetSync ==
  /\ session = "cleared"
  /\ session' = "reset"
  /\ status' = [i \in Items |-> IF i \in SmsItems /\ status[i] = "synced" THEN "pending"
                                                                          ELSE status[i]]
  /\ UNCHANGED <<delivered, outbox, sent, dead, made, known, handling, wire, replies,
                 hub, holds, breaks, moves>>

\* save_config with the new hub_instance_id, and the attempts are reset.
AdoptHub ==
  /\ session = "reset"
  /\ session' = "up"
  /\ known' = hub
  /\ sent' = ResetAttempts
  /\ UNCHANGED <<status, delivered, outbox, dead, made, handling, wire, replies,
                 hub, holds, breaks, moves>>

\* The session ends, by an error, by the Hub or with the process.
SessionEnds ==
  /\ session # "down"
  /\ breaks < MaxBreaks
  /\ breaks' = breaks + 1
  /\ session' = "down"
  /\ handling' = Nothing
  /\ wire' = {}
  /\ replies' = {}
  /\ UNCHANGED <<table, known, hub, holds, moves>>

-----------------------------------------------------------------------------
(* enqueue_business and the flush behind it.                                *)

Pending(kind) == {i \in kind : status[i] = "pending"}

\* The Limit items with the lowest ids.
FirstPending(kind) ==
  {i \in Pending(kind) : Cardinality({j \in Pending(kind) : j < i}) < Limit}

InOutbox(i) == \E m \in outbox : m.item = i

ToEnqueue ==
  {i \in (FirstPending(SmsItems) \cup FirstPending(OtherItems)) \ delivered : ~InOutbox(i)}

Enqueued(S) == {[item |-> i, number |-> made[i] + 1] : i \in S}

Enqueue(S) ==
  /\ Idle
  /\ S # {}
  /\ made' = [i \in Items |-> IF i \in S THEN made[i] + 1 ELSE made[i]]
  /\ Flush(outbox \cup Enqueued(S), sent)
  /\ UNCHANGED <<status, delivered, dead, known, handling, replies, hub, holds, breaks, moves>>

BusinessTick == Enqueue({i \in ToEnqueue : made[i] < MaxEnvelopes})

\* Any other flush: heartbeats, status ticks and wakeups.
FlushOutbox ==
  /\ Idle
  /\ outbox \ sent # {}
  /\ Flush(outbox, sent)
  /\ UNCHANGED <<status, delivered, dead, made, known, handling, replies, hub, holds,
                 breaks, moves>>

\* The outbox_retry tick.
RetryOutbox ==
  /\ Idle
  /\ outbox # {}
  /\ Flush(outbox, ResetAttempts)
  /\ UNCHANGED <<status, delivered, dead, made, known, handling, replies, hub, holds,
                 breaks, moves>>

-----------------------------------------------------------------------------
(* handle_server, "message_ack".                                            *)

Reply(m, answer) ==
  /\ Idle
  /\ <<m, answer>> \in replies
  /\ replies' = replies \ {<<m, answer>>}
  /\ UNCHANGED <<known, session, wire, hub, holds, breaks, moves>>

\* handle_message_ack: the device database is written first, ...
AckMarksSynced(m) ==
  /\ Reply(m, "accepted")
  /\ m \in outbox
  /\ status' = [status EXCEPT ![m.item] = "synced"]
  /\ handling' = [step |-> "synced", envelope |-> m]
  /\ UNCHANGED <<delivered, outbox, sent, dead, made>>

\* ... then delivered_items, ...
AckMarksDelivered ==
  /\ session = "up"
  /\ handling.step = "synced"
  /\ delivered' = delivered \cup {handling.envelope.item}
  /\ handling' = [handling EXCEPT !.step = "delivered"]
  /\ UNCHANGED <<status, outbox, sent, dead, made, known, session, wire, replies, hub,
                 holds, breaks, moves>>

\* ... and last the envelope leaves the outbox.
AckRemoves ==
  /\ session = "up"
  /\ handling.step = "delivered"
  /\ outbox' = outbox \ {handling.envelope}
  /\ sent' = sent \ {handling.envelope}
  /\ handling' = Nothing
  /\ UNCHANGED <<status, delivered, dead, made, known, session, wire, replies, hub,
                 holds, breaks, moves>>

\* reject_message: the envelope becomes a dead letter.
AckRefuses(m) ==
  /\ Reply(m, "refused")
  /\ dead' = IF m \in outbox THEN dead \cup {m} ELSE dead
  /\ outbox' = outbox \ {m}
  /\ sent' = sent \ {m}
  /\ UNCHANGED <<status, delivered, made, handling>>

\* A retry leaves the envelope for the next outbox_retry; an answer to an
\* envelope that is gone changes nothing.
AckIgnores(m) ==
  /\ \E answer \in Answers :
       /\ Reply(m, answer)
       /\ answer = "retry" \/ (answer = "accepted" /\ m \notin outbox)
  /\ UNCHANGED <<status, delivered, outbox, sent, dead, made, handling>>

-----------------------------------------------------------------------------
(* The Hub and the operator (external).                                     *)

Answer(m, answer) ==
  /\ m \in wire
  /\ wire' = wire \ {m}
  /\ replies' = replies \cup {<<m, answer>>}
  /\ UNCHANGED <<table, known, session, handling, hub, breaks, moves>>

HubAccepts(m) ==
  /\ m.item \notin Refused
  /\ Answer(m, "accepted")
  /\ holds' = [holds EXCEPT ![hub] = @ \cup {m.item}]

HubDefers(m) ==
  /\ m.item \notin Refused
  /\ Answer(m, "retry")
  /\ UNCHANGED holds

HubRefuses(m) ==
  /\ m.item \in Refused
  /\ Answer(m, "refused")
  /\ UNCHANGED holds

\* The Hub gives no answer.
HubSilent(m) ==
  /\ m \in wire
  /\ wire' = wire \ {m}
  /\ UNCHANGED <<table, known, session, handling, replies, hub, holds, breaks, moves>>

\* Another Hub answers at the address.
HubReplaced ==
  /\ session = "down"
  /\ moves < MaxMoves
  /\ moves' = moves + 1
  /\ hub' \in Hubs \ {hub}
  /\ UNCHANGED <<table, known, session, handling, wire, replies, holds, breaks>>

\* apply_config with a new address or enrollment token starts from a
\* configuration without a hub_instance_id.
Enroll ==
  /\ session = "down"
  /\ moves < MaxMoves
  /\ moves' = moves + 1
  /\ known' = NoHub
  /\ hub' \in Hubs
  /\ UNCHANGED <<table, session, handling, wire, replies, holds, breaks>>

-----------------------------------------------------------------------------
SessionStart ==
  \/ MeetKnownHub
  \/ MeetNewHub
  \/ ClearDelivered
  \/ ResetSync
  \/ AdoptHub

SessionLoop ==
  \/ BusinessTick
  \/ FlushOutbox
  \/ RetryOutbox
  \/ AckMarksDelivered
  \/ AckRemoves
  \/ \E m \in Envelope : AckMarksSynced(m) \/ AckRefuses(m) \/ AckIgnores(m)

HubStep(m) ==
  \/ HubAccepts(m)
  \/ HubDefers(m)
  \/ HubRefuses(m)
  \/ HubSilent(m)

Next ==
  \/ \E i \in Items : RecordItem(i)
  \/ SessionStart
  \/ SessionLoop
  \/ SessionEnds
  \/ \E m \in Envelope : HubStep(m)
  \/ HubReplaced
  \/ Enroll

Spec == Init /\ [][Next]_vars

(* The session reconnects and its loop serves its timers and the messages   *)
(* it gets; a Hub that gets an item again and again takes it in the end.    *)
Fairness ==
  /\ WF_vars(SessionStart)
  /\ WF_vars(session = "broken" /\ SessionEnds)
  /\ SF_vars(BusinessTick)
  /\ SF_vars(RetryOutbox)
  /\ WF_vars(AckMarksDelivered)
  /\ WF_vars(AckRemoves)
  /\ SF_vars(\E m \in Envelope : AckMarksSynced(m))
  /\ SF_vars(\E m \in Envelope : HubAccepts(m))

FairSpec == Spec /\ Fairness

-----------------------------------------------------------------------------
(* An item counts as synced only when a Hub accepted it, and an SMS only    *)
(* when the Hub of the saved configuration did: a Hub the agent changes to  *)
(* is never taken for one that has the SMS already, also when the agent     *)
(* stops halfway through the change.  And an item in delivered_items is     *)
(* synced: otherwise it would be read at every tick and never be sent.  All *)
(* this in a well-typed state.                                              *)
SyncedIsHeld ==
  /\ TypeOK
  /\ \A i \in Items : status[i] = "synced" =>
       /\ i \in UNION {holds[h] : h \in Hubs}
       /\ i \in SmsItems /\ known # NoHub => i \in holds[known]
  /\ \A i \in delivered : status[i] = "synced"

(* Every SMS the Hub does not refuse reaches the Hub the agent is connected *)
(* to, through lost connections, unanswered envelopes and changes of Hub.   *)
SmsReachesHub ==
  \A i \in SmsItems \ Refused : status[i] = "pending" ~> i \in holds[hub]
=============================================================================
