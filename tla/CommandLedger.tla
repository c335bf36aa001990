--------------------------- MODULE CommandLedger ---------------------------
(***************************************************************************)
(* Hub commands in the agent: the session loop that accepts a command, the *)
(* durable command_ledger and agent_outbox tables, the spawned task that   *)
(* executes the command and outlives the session, and the link, which may  *)
(* break at any await.  The Hub (external) sends a command any number of   *)
(* times and acknowledges what it receives.                                *)
(*                                                                         *)
(* A receipt of a command is numbered; an envelope is identified by its    *)
(* command, its kind and the receipt it answers (correlation_id).  When an *)
(* envelope of the outbox is sent, and sent again, is left open here:      *)
(* AgentLink models the attempt counts, the flushes and rejections.        *)
(***************************************************************************)
EXTENDS Naturals, FiniteSets

CONSTANTS
  Commands,
  MaxReceipts,  \* bound on the times the Hub sends one command
  MaxBreaks,    \* bound on the sessions that end
  MaxOpens,     \* bound on process restarts and runtime replacements
  StoreFaults   \* may a write of the execution task to the store fail?

ASSUME ConstantsAssumption ==
  /\ MaxReceipts \in Nat
  /\ MaxBreaks \in Nat
  /\ MaxOpens \in Nat
  /\ StoreFaults \in BOOLEAN

VARIABLES
  ledger,   \* command_ledger.status of each command, "absent" without a row
  outbox,   \* agent_outbox
  task,     \* the execution task started for each receipt
  session,  \* "down", "up", or "broken": a send failed, the session is ending
  inbox,    \* receipts on their way to the agent
  wire,     \* envelopes on their way to the Hub
  replies,  \* message_acks on their way to the agent
  heard,    \* history: what the Hub was told, as <<command, kind>>
  receipts, \* how many times the Hub sent the command
  expired,  \* the commands whose expires_at has passed
  effects,  \* history: how many times the command acted on the device
  breaks,
  opens

link == <<session, inbox, wire, replies, heard, receipts, breaks>>
vars == <<ledger, outbox, task, link, expired, effects, opens>>

-----------------------------------------------------------------------------
Outcomes == {"succeeded", "failed", "unknown"}
Statuses == {"absent", "running"} \cup Outcomes
Receipts == 1..MaxReceipts

(* command_ack ("accepted" or "expired") and command_result, which is       *)
(* identified by the outcome it reports.                                    *)
Envelope ==
  [command: Commands, receipt: Receipts, kind: {"accepted", "expired"} \cup Outcomes]

Msg(c, r, kind) == [command |-> c, receipt |-> r, kind |-> kind]

ResultsOf(S, c) == {m \in S : m.command = c /\ m.kind \in Outcomes}

\* The outcomes of c the Hub was told.
Told(c) == {o \in Outcomes : <<c, o>> \in heard}

\* The outcome is that of the execution, then the one the ledger recorded.
Task == [pc: {"none", "spawned", "ended"}, outcome: {"none"}]
          \cup [pc: {"executed"}, outcome: {"succeeded", "failed"}]
          \cup [pc: {"recorded"}, outcome: Outcomes]

NoTask   == [pc |-> "none", outcome |-> "none"]
Spawned  == [pc |-> "spawned", outcome |-> "none"]
Ended    == [pc |-> "ended", outcome |-> "none"]

TypeOK ==
  /\ ledger \in [Commands -> Statuses]
  /\ outbox \in SUBSET Envelope
  /\ task \in [Commands -> [Receipts -> Task]]
  /\ session \in {"down", "up", "broken"}
  /\ inbox \in SUBSET (Commands \X Receipts)
  /\ wire \in SUBSET Envelope
  /\ replies \in SUBSET Envelope
  /\ heard \in SUBSET (Commands \X ({"accepted", "expired"} \cup Outcomes))
  /\ receipts \in [Commands -> 0..MaxReceipts]
  /\ expired \in SUBSET Commands
  /\ effects \in [Commands -> Nat]
  /\ breaks \in Nat
  /\ opens \in Nat

Init ==
  /\ ledger = [c \in Commands |-> "absent"]
  /\ outbox = {}
  /\ task = [c \in Commands |-> [r \in Receipts |-> NoTask]]
  /\ session = "down"
  /\ inbox = {}
  /\ wire = {}
  /\ replies = {}
  /\ heard = {}
  /\ receipts = [c \in Commands |-> 0]
  /\ expired = {}
  /\ effects = [c \in Commands |-> 0]
  /\ breaks = 0
  /\ opens = 0

-----------------------------------------------------------------------------
(* handle_server, "command": one action per command received, up to the     *)
(* point where the session loop reads its next event.                       *)

Receive(c, r) ==
  /\ session = "up"
  /\ <<c, r>> \in inbox
  /\ inbox' = inbox \ {<<c, r>>}
  /\ UNCHANGED <<replies, heard, receipts, expired, effects, breaks, opens>>

\* flush_outbox with the outbox box returns: all of box that was not sent yet.
Flushes(box) ==
  /\ outbox' = box
  /\ wire' = wire \cup (box \ outbox)
  /\ UNCHANGED session

\* A send of flush_outbox fails, which ends the session.
FlushFails(box) ==
  /\ breaks < MaxBreaks
  /\ outbox' = box
  /\ \E some \in SUBSET (box \ outbox) : wire' = wire \cup some
  /\ session' = "broken"

Answers(box) == Flushes(box) \/ FlushFails(box)

Refuse(c, r) ==
  /\ Receive(c, r)
  /\ c \in expired
  /\ Answers(outbox \cup {Msg(c, r, "expired")})
  /\ UNCHANGED <<ledger, task>>

SetTask(c, r, t) == task' = [task EXCEPT ![c][r] = t]

\* Mutant: a command is started again while its first execution runs.
AcceptNewRestarts(c, r) ==
  /\ Receive(c, r)
  /\ c \notin expired
  /\ ledger[c] \in {"absent", "running"}
  /\ ledger' = [ledger EXCEPT ![c] = "running"]
  /\ Flushes(outbox \cup {Msg(c, r, "accepted")})
  /\ SetTask(c, r, Spawned)

\* The row, the ack and the claim are one transaction (accept_command); the
\* task is spawned once the ack is flushed, and never if that fails.
AcceptNew(c, r) ==
  /\ Receive(c, r)
  /\ c \notin expired
  /\ ledger[c] = "absent"
  /\ ledger' = [ledger EXCEPT ![c] = "running"]
  /\ LET box == outbox \cup {Msg(c, r, "accepted")}
     IN  \/ Flushes(box) /\ SetTask(c, r, Spawned)
         \/ FlushFails(box) /\ UNCHANGED task

\* A command that is still running is only acknowledged.
AcceptRunning(c, r) ==
  /\ Receive(c, r)
  /\ c \notin expired
  /\ ledger[c] = "running"
  /\ Answers(outbox \cup {Msg(c, r, "accepted")})
  /\ UNCHANGED <<ledger, task>>

\* The result of a settled command is queued again behind the ack, unless
\* the flush of the ack fails.
AcceptSettled(c, r) ==
  /\ Receive(c, r)
  /\ c \notin expired
  /\ ledger[c] \in Outcomes
  /\ LET acked == outbox \cup {Msg(c, r, "accepted")}
     IN  FlushFails(acked) \/ Answers(acked \cup {Msg(c, r, ledger[c])})
  /\ UNCHANGED <<ledger, task>>

-----------------------------------------------------------------------------
(* The execution task.                                                      *)

Executed(o) == [pc |-> "executed", outcome |-> o]

ExecuteExpired(c, r) ==
  /\ task[c][r].pc = "spawned"
  /\ c \in expired
  /\ SetTask(c, r, Executed("failed"))
  /\ UNCHANGED <<ledger, outbox, link, expired, effects, opens>>

\* The command acts on the device; it may still report an error.
Execute(c, r) ==
  /\ task[c][r].pc = "spawned"
  /\ c \notin expired
  /\ effects' = [effects EXCEPT ![c] = @ + 1]
  /\ \E o \in {"succeeded", "failed"} : SetTask(c, r, Executed(o))
  /\ UNCHANGED <<ledger, outbox, link, expired, opens>>

ExecuteFails(c, r) ==
  /\ task[c][r].pc = "spawned"
  /\ c \notin expired
  /\ SetTask(c, r, Executed("failed"))
  /\ UNCHANGED <<ledger, outbox, link, expired, effects, opens>>

\* Mutant: the outcome overwrites one that was already recorded.
RecordOverwrites(c, r) ==
  /\ task[c][r].pc = "executed"
  /\ ledger' = [ledger EXCEPT ![c] = task[c][r].outcome]
  /\ SetTask(c, r, [pc |-> "recorded", outcome |-> ledger'[c]])
  /\ UNCHANGED <<outbox, link, expired, effects, opens>>

\* Mutant: the task reports its own outcome, not the recorded one.
RecordReportsOwn(c, r) ==
  /\ task[c][r].pc = "executed"
  /\ ledger' = [ledger EXCEPT ![c] = IF @ \in Outcomes THEN @ ELSE task[c][r].outcome]
  /\ SetTask(c, r, [task[c][r] EXCEPT !.pc = "recorded"])
  /\ UNCHANGED <<outbox, link, expired, effects, opens>>

\* finish_command: the first outcome stays, and the one recorded is returned.
Record(c, r) ==
  /\ task[c][r].pc = "executed"
  /\ ledger' = [ledger EXCEPT ![c] = IF @ \in Outcomes THEN @ ELSE task[c][r].outcome]
  /\ SetTask(c, r, [pc |-> "recorded", outcome |-> ledger'[c]])
  /\ UNCHANGED <<outbox, link, expired, effects, opens>>

\* Mutant: the report does not wait for the recorded outcome.
ReportUnrecorded(c, r) ==
  /\ task[c][r].pc \in {"spawned", "executed", "recorded"}
  /\ outbox' = outbox \cup {Msg(c, r, task[c][r].outcome)}
  /\ SetTask(c, r, Ended)
  /\ UNCHANGED <<ledger, link, expired, effects, opens>>

\* enqueue_command_result.
Report(c, r) ==
  /\ task[c][r].pc = "recorded"
  /\ outbox' = outbox \cup {Msg(c, r, task[c][r].outcome)}
  /\ SetTask(c, r, Ended)
  /\ UNCHANGED <<ledger, link, expired, effects, opens>>

\* A failed write is logged and ends the task.
StoreFails(c, r) ==
  /\ StoreFaults
  /\ task[c][r].pc \in {"executed", "recorded"}
  /\ SetTask(c, r, Ended)
  /\ UNCHANGED <<ledger, outbox, link, expired, effects, opens>>

-----------------------------------------------------------------------------
(* The session: run_session and the acks it handles.                        *)

SessionStarts ==
  /\ session = "down"
  /\ session' = "up"
  /\ UNCHANGED <<ledger, outbox, task, inbox, wire, replies, heard, receipts, breaks,
                 expired, effects, opens>>

\* A flush or a retry of the outbox sends the envelope.
SendEnvelope(m) ==
  /\ session = "up"
  /\ m \in outbox \ wire
  /\ wire' = wire \cup {m}
  /\ UNCHANGED <<ledger, outbox, task, session, inbox, replies, heard, receipts, breaks,
                 expired, effects, opens>>

\* Mutant: an ack removes all that answers the same command message.
HandleAckByReceipt(m) ==
  /\ session = "up"
  /\ m \in replies
  /\ replies' = replies \ {m}
  /\ outbox' = {n \in outbox : <<n.command, n.receipt>> # <<m.command, m.receipt>>}
  /\ UNCHANGED <<ledger, task, session, inbox, wire, heard, receipts, breaks,
                 expired, effects, opens>>

\* message_ack: the envelope it names leaves the outbox.
HandleAck(m) ==
  /\ session = "up"
  /\ m \in replies
  /\ replies' = replies \ {m}
  /\ outbox' = outbox \ {m}
  /\ UNCHANGED <<ledger, task, session, inbox, wire, heard, receipts, breaks,
                 expired, effects, opens>>

SessionEnds ==
  /\ session # "down"
  /\ breaks < MaxBreaks
  /\ breaks' = breaks + 1
  /\ session' = "down"
  /\ inbox' = {}
  /\ wire' = {}
  /\ replies' = {}
  /\ UNCHANGED <<ledger, outbox, task, heard, receipts, expired, effects, opens>>

-----------------------------------------------------------------------------
(* AgentStore::open, by a start of the process or by apply_config, which    *)
(* replaces the runtime while the execution tasks of the old one go on.     *)

OpenStore ==
  ledger' = [c \in Commands |-> IF ledger[c] = "running" THEN "unknown" ELSE ledger[c]]

StopSession ==
  /\ opens < MaxOpens
  /\ opens' = opens + 1
  /\ session' = "down"
  /\ inbox' = {}
  /\ wire' = {}
  /\ replies' = {}
  /\ UNCHANGED <<outbox, heard, receipts, breaks, expired, effects>>

ReplaceRuntime ==
  /\ StopSession
  /\ OpenStore
  /\ UNCHANGED task

Restart ==
  /\ StopSession
  /\ OpenStore
  /\ task' = [c \in Commands |-> [r \in Receipts |->
                IF task[c][r] = NoTask THEN NoTask ELSE Ended]]

-----------------------------------------------------------------------------
(* The Hub and time (external).                                             *)

HubSends(c) ==
  /\ session = "up"
  /\ receipts[c] < MaxReceipts
  /\ receipts' = [receipts EXCEPT ![c] = @ + 1]
  /\ inbox' = inbox \cup {<<c, receipts[c] + 1>>}
  /\ UNCHANGED <<ledger, outbox, task, session, wire, replies, heard, breaks,
                 expired, effects, opens>>

HubProcesses(m) ==
  /\ m \in wire
  /\ wire' = wire \ {m}
  /\ heard' = heard \cup {<<m.command, m.kind>>}
  /\ replies' = replies \cup {m}
  /\ UNCHANGED <<ledger, outbox, task, session, inbox, receipts, breaks,
                 expired, effects, opens>>

Expire(c) ==
  /\ c \notin expired
  /\ expired' = expired \cup {c}
  /\ UNCHANGED <<ledger, outbox, task, link, effects, opens>>

-----------------------------------------------------------------------------
HandleCommand(c, r) ==
  \/ Refuse(c, r)
  \/ AcceptNew(c, r)
  \/ AcceptRunning(c, r)
  \/ AcceptSettled(c, r)

TaskStep(c, r) ==
  \/ ExecuteExpired(c, r)
  \/ Execute(c, r)
  \/ ExecuteFails(c, r)
  \/ Record(c, r)
  \/ Report(c, r)
  \/ StoreFails(c, r)

EnvelopeStep(m) ==
  \/ SendEnvelope(m)
  \/ HubProcesses(m)
  \/ HandleAck(m)

Next ==
  \/ \E c \in Commands, r \in Receipts : HandleCommand(c, r) \/ TaskStep(c, r)
  \/ \E m \in outbox \cup wire \cup replies : EnvelopeStep(m)
  \/ \E c \in Commands : HubSends(c) \/ Expire(c)
  \/ SessionStarts
  \/ SessionEnds
  \/ ReplaceRuntime
  \/ Restart

Spec == Init /\ [][Next]_vars

(* The session loop reconnects after a failure, sends what is in the outbox *)
(* and handles the acks, tasks run, and the Hub processes what reaches it.  *)
(* How often the Hub sends a command and when sessions end is left open.    *)
Fairness ==
  /\ WF_vars(SessionStarts)
  /\ WF_vars(session = "broken" /\ SessionEnds)
  /\ \A c \in Commands, r \in Receipts : /\ WF_vars(HandleCommand(c, r))
                                         /\ WF_vars(TaskStep(c, r))
  /\ \A m \in Envelope : /\ WF_vars(SendEnvelope(m))
                         /\ WF_vars(HubProcesses(m))
                         /\ WF_vars(HandleAck(m))

FairSpec == Spec /\ Fairness

-----------------------------------------------------------------------------
(* A command acts on the device at most once, however often the Hub sends   *)
(* it, whatever is lost and wherever the agent stops.                       *)
AtMostOnce == \A c \in Commands : effects[c] <= 1

(* All that reports the outcome of a command agrees with the ledger: the    *)
(* results in the outbox, on the wire and at the Hub, also when a task      *)
(* finishes after its command was declared unknown.                         *)
OneOutcome ==
  \A c \in Commands :
    /\ \A m \in ResultsOf(outbox \cup wire, c) : m.kind = ledger[c]
    /\ \A o \in Told(c) : o = ledger[c]

(* The life of a command: nothing runs before its row exists; one receipt   *)
(* at most started a task; a task that has not acted leaves no effect; an   *)
(* outcome is reported after it was recorded, and success only after the    *)
(* command acted.  This is what AtMostOnce and OneOutcome follow from.      *)
Lifecycle(c) ==
  /\ ledger[c] = "absent" => effects[c] = 0 /\ \A r \in Receipts : task[c][r].pc = "none"
  /\ \A r, s \in Receipts : task[c][r].pc # "none" /\ task[c][s].pc # "none" => r = s
  /\ \A r \in Receipts :
       /\ task[c][r].pc = "spawned" => /\ ledger[c] \in {"running", "unknown"}
                                       /\ effects[c] = 0
       /\ task[c][r] = Executed("succeeded") => effects[c] = 1
       /\ task[c][r].pc = "recorded" => /\ task[c][r].outcome = ledger[c]
                                        /\ ledger[c] \in Outcomes
  /\ effects[c] <= 1
  /\ ledger[c] = "succeeded" => effects[c] = 1

CommandsInOrder == \A c \in Commands : Lifecycle(c)

(* The promise of CommandOutcome, with the ledger as the phase: at most one *)
(* action, one outcome that never changes, and nothing else told.           *)
Phase(c) == CASE ledger[c] = "absent"  -> "new"
              [] ledger[c] = "running" -> "open"
              [] OTHER                 -> ledger[c]

Outcome == INSTANCE CommandOutcome WITH
  phase   <- [c \in Commands |-> Phase(c)],
  effects <- effects,
  told    <- [c \in Commands |-> Told(c)]

ImplementsOutcome == Outcome!Spec

(* A result in the outbox reaches the Hub, through lost connections, failed *)
(* flushes and restarts, once sessions stop ending.                         *)
ResultsArrive ==
  \A c \in Commands : ResultsOf(outbox, c) # {} ~> Told(c) # {}
=============================================================================
