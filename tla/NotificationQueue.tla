------------------------- MODULE NotificationQueue -------------------------
(***************************************************************************)
(* The outgoing notification path of one channel: the direct delivery that *)
(* routing an event attempts, the notification_queue table an undelivered  *)
(* one falls into, the worker that spawns a task for every due row, those  *)
(* tasks, the operator's retry / delete / retry-all / clear requests, and  *)
(* the restart of the process.                                             *)
(*                                                                         *)
(* A row is identified with the delivery (event, rule, channel) that may   *)
(* create it.  Time is abstract: a row is due or not, and "logged" counts  *)
(* the success log entries that are still inside the rate-limit window.    *)
(***************************************************************************)
EXTENDS Naturals, FiniteSets

CONSTANTS
  Rows,          \* deliveries, each the row it becomes when it is queued
  Slots,         \* tasks that may exist for one row at once (model bound)
  MaxAttempts,   \* max_attempts of a row
  MaxMessages,   \* rate_limit.max_messages of the channel
  BatchLimit,    \* rows the worker loads per tick
  MaxRetries,    \* bound on operator retries of one row
  MaxRestarts,   \* bound on restarts of the process
  ChannelFlaps,  \* may the channel be disabled and enabled again?
  DbFaults       \* may a write to the database fail?

ASSUME ConstantsAssumption ==
  /\ IsFiniteSet(Slots)
  /\ MaxAttempts \in Nat \ {0}
  /\ MaxMessages \in Nat \ {0}
  /\ BatchLimit \in Nat \ {0}
  /\ MaxRetries \in Nat
  /\ MaxRestarts \in Nat
  /\ ChannelFlaps \in BOOLEAN
  /\ DbFaults \in BOOLEAN

VARIABLES
  row,       \* notification_queue: status, attempt_count, is it due
  task,      \* process_notification_queue_item tasks, with the attempt_count they loaded
  direct,    \* the direct delivery made when the event is routed
  logged,    \* success entries of notification_logs inside the window
  channelUp, \* the channel is configured and enabled
  restarts,
  acked,     \* history: sends of the delivery the channel acknowledged
  retries    \* history: operator retries that touched the row

vars == <<row, task, direct, logged, channelUp, restarts, acked, retries>>

-----------------------------------------------------------------------------
Claimable == {"pending", "scheduled", "retrying"}
Active    == Claimable \cup {"sending", "failed"}
Statuses  == Active \cup {"absent", "sent", "cancelled"}

Row  == [status: Statuses, attempt: Nat, due: BOOLEAN]
Task == [pc: {"idle", "spawned", "claimed", "sending", "delivered", "logging"},
         attempt: Nat]

NoRow  == [status |-> "absent", attempt |-> 0, due |-> FALSE]
NoTask == [pc |-> "idle", attempt |-> 0]

\* Tasks that hold the row's claim and have not learned the outcome of a send.
InFlight(i) == {s \in Slots : task[i][s].pc \in {"claimed", "sending"}}

TypeOK ==
  /\ row \in [Rows -> Row]
  /\ task \in [Rows -> [Slots -> Task]]
  /\ direct \in [Rows -> {"new", "sending", "logging", "done"}]
  /\ logged \in Nat
  /\ channelUp \in BOOLEAN
  /\ restarts \in 0..MaxRestarts
  /\ acked \in [Rows -> Nat]
  /\ retries \in [Rows -> Nat]

Init ==
  /\ row = [i \in Rows |-> NoRow]
  /\ task = [i \in Rows |-> [s \in Slots |-> NoTask]]
  /\ direct = [i \in Rows |-> "new"]
  /\ logged = 0
  /\ channelUp = TRUE
  /\ restarts = 0
  /\ acked = [i \in Rows |-> 0]
  /\ retries = [i \in Rows |-> 0]

-----------------------------------------------------------------------------
RateLimited == logged >= MaxMessages

\* Writes of one row; a failed write leaves it as it was.
Write(i, r) ==
  \/ row' = [row EXCEPT ![i] = r]
  \/ DbFaults /\ row' = row

\* Recording a success; the log row may fail to be written.
LogSuccess ==
  \/ logged' = logged + 1
  \/ DbFaults /\ logged' = logged

SetTask(i, s, t) == task' = [task EXCEPT ![i][s] = t]
EndTask(i, s)    == SetTask(i, s, NoTask)

-----------------------------------------------------------------------------
(* route_event_for_rule and send_text_to_channel_with_queue: the direct     *)
(* delivery of an event to the channel.                                     *)

\* The channel is missing or disabled, the rule is in its quiet hours, or the
\* window cannot be counted.
RouteDropped(i) ==
  /\ direct[i] = "new"
  /\ direct' = [direct EXCEPT ![i] = "done"]
  /\ UNCHANGED <<row, task, logged, channelUp, restarts, acked, retries>>

Enqueue(i, status) ==
  /\ Write(i, [status |-> status, attempt |-> 0, due |-> FALSE])
  /\ direct' = [direct EXCEPT ![i] = "done"]
  /\ UNCHANGED <<task, logged, channelUp, restarts, acked, retries>>

RouteLimited(i) ==
  /\ direct[i] = "new"
  /\ channelUp
  /\ RateLimited
  /\ Enqueue(i, "scheduled")

RoutePasses(i) ==
  /\ direct[i] = "new"
  /\ channelUp
  /\ ~RateLimited
  /\ direct' = [direct EXCEPT ![i] = "sending"]
  /\ UNCHANGED <<row, task, logged, channelUp, restarts, acked, retries>>

RouteSendFails(i) ==
  /\ direct[i] = "sending"
  /\ Enqueue(i, "retrying")

RouteSendSucceeds(i) ==
  /\ direct[i] = "sending"
  /\ acked' = [acked EXCEPT ![i] = @ + 1]
  /\ direct' = [direct EXCEPT ![i] = "logging"]
  /\ UNCHANGED <<row, task, logged, channelUp, restarts, retries>>

RouteLogs(i) ==
  /\ direct[i] = "logging"
  /\ LogSuccess
  /\ direct' = [direct EXCEPT ![i] = "done"]
  /\ UNCHANGED <<row, task, channelUp, restarts, acked, retries>>

-----------------------------------------------------------------------------
(* run_queue_worker: one tick loads at most BatchLimit due rows and spawns  *)
(* a task per row with the attempt_count it loaded.                         *)

DueRows == {i \in Rows : row[i].status \in Claimable /\ row[i].due}

FreeSlots(i) == {s \in Slots : task[i][s].pc = "idle"}

Spawned(i) ==
  LET free == CHOOSE s \in FreeSlots(i) : TRUE
  IN  [task[i] EXCEPT ![free] = [pc |-> "spawned", attempt |-> row[i].attempt]]

WorkerTick ==
  /\ DueRows # {}
  /\ \E batch \in SUBSET DueRows :
       /\ Cardinality(batch) = IF Cardinality(DueRows) < BatchLimit
                               THEN Cardinality(DueRows) ELSE BatchLimit
       /\ \A i \in batch : FreeSlots(i) # {}
       /\ task' = [i \in Rows |-> IF i \in batch THEN Spawned(i) ELSE task[i]]
  /\ UNCHANGED <<row, direct, logged, channelUp, restarts, acked, retries>>

-----------------------------------------------------------------------------
(* process_notification_queue_item, one action per database call or await.  *)

\* Mutant: the claim does not look at the status.
ClaimUnguarded(i, s) ==
  /\ task[i][s].pc = "spawned"
  /\ row' = [row EXCEPT ![i].status = "sending"]
  /\ SetTask(i, s, [task[i][s] EXCEPT !.pc = "claimed"])
  /\ UNCHANGED <<direct, logged, channelUp, restarts, acked, retries>>

\* mark_notification_queue_sending: the claim, a compare-and-set on status.
Claim(i, s) ==
  /\ task[i][s].pc = "spawned"
  /\ row[i].status \in Claimable
  /\ row' = [row EXCEPT ![i].status = "sending"]
  /\ SetTask(i, s, [task[i][s] EXCEPT !.pc = "claimed"])
  /\ UNCHANGED <<direct, logged, channelUp, restarts, acked, retries>>

ClaimLost(i, s) ==
  /\ task[i][s].pc = "spawned"
  /\ row[i].status \notin Claimable \/ DbFaults
  /\ EndTask(i, s)
  /\ UNCHANGED <<row, direct, logged, channelUp, restarts, acked, retries>>

\* finish_queue_item_failed: unconditional on the row's present status.
GiveUp(i, s) ==
  /\ Write(i, [status |-> "failed", attempt |-> row[i].attempt + 1, due |-> row[i].due])
  /\ EndTask(i, s)
  /\ UNCHANGED <<direct, logged, channelUp, restarts, acked, retries>>

ChannelGone(i, s) ==
  /\ task[i][s].pc = "claimed"
  /\ ~channelUp
  /\ GiveUp(i, s)

\* Mutant: a deferral forgets to put the row back.
DeferredForgets(i, s) ==
  /\ task[i][s].pc = "claimed"
  /\ channelUp
  /\ RateLimited
  /\ EndTask(i, s)
  /\ UNCHANGED <<row, direct, logged, channelUp, restarts, acked, retries>>

\* mark_notification_queue_scheduled: unconditional, and no attempt is counted.
Deferred(i, s) ==
  /\ task[i][s].pc = "claimed"
  /\ channelUp
  /\ RateLimited
  /\ Write(i, [status |-> "scheduled", attempt |-> row[i].attempt, due |-> FALSE])
  /\ EndTask(i, s)
  /\ UNCHANGED <<direct, logged, channelUp, restarts, acked, retries>>

\* An error while the window is counted is taken for "not limited".
StartSend(i, s) ==
  /\ task[i][s].pc = "claimed"
  /\ channelUp
  /\ ~RateLimited \/ DbFaults
  /\ SetTask(i, s, [task[i][s] EXCEPT !.pc = "sending"])
  /\ UNCHANGED <<row, direct, logged, channelUp, restarts, acked, retries>>

SendSucceeds(i, s) ==
  /\ task[i][s].pc = "sending"
  /\ acked' = [acked EXCEPT ![i] = @ + 1]
  /\ SetTask(i, s, [task[i][s] EXCEPT !.pc = "delivered"])
  /\ UNCHANGED <<row, direct, logged, channelUp, restarts, retries>>

MarkSent(i, s) ==
  /\ task[i][s].pc = "delivered"
  /\ Write(i, [row[i] EXCEPT !.status = "sent"])
  /\ SetTask(i, s, [task[i][s] EXCEPT !.pc = "logging"])
  /\ UNCHANGED <<direct, logged, channelUp, restarts, acked, retries>>

RecordSuccess(i, s) ==
  /\ task[i][s].pc = "logging"
  /\ LogSuccess
  /\ EndTask(i, s)
  /\ UNCHANGED <<row, direct, channelUp, restarts, acked, retries>>

\* The decision uses the attempt_count the worker loaded, the write the row's.
Exhausted(i, s) == task[i][s].attempt + 1 >= MaxAttempts

SendFails(i, s) ==
  /\ task[i][s].pc = "sending"
  /\ ~Exhausted(i, s)
  /\ Write(i, [status |-> "retrying", attempt |-> row[i].attempt + 1, due |-> FALSE])
  /\ EndTask(i, s)
  /\ UNCHANGED <<direct, logged, channelUp, restarts, acked, retries>>

SendFailsForGood(i, s) ==
  /\ task[i][s].pc = "sending"
  /\ Exhausted(i, s)
  /\ GiveUp(i, s)

-----------------------------------------------------------------------------
(* The operator's requests (notification_queue.rs).                         *)

Requeued(r) == [status |-> "pending", attempt |-> 0, due |-> TRUE]

\* retry_notification_queue_item and retry_all_notification_queue_items.
RetryRows(S) ==
  /\ S # {}
  /\ \A i \in S : row[i].status \in Active /\ retries[i] < MaxRetries
  /\ row' = [i \in Rows |-> IF i \in S THEN Requeued(row[i]) ELSE row[i]]
  /\ retries' = [i \in Rows |-> IF i \in S THEN retries[i] + 1 ELSE retries[i]]
  /\ UNCHANGED <<task, direct, logged, channelUp, restarts, acked>>

ActiveRows == {i \in Rows : row[i].status \in Active}

RetryItem(i) == RetryRows({i})
RetryAll     == RetryRows(ActiveRows)

\* delete_notification_queue_item and clear_active_notification_queue.
CancelRows(S) ==
  /\ S # {}
  /\ \A i \in S : row[i].status \in Active
  /\ row' = [i \in Rows |-> IF i \in S THEN [row[i] EXCEPT !.status = "cancelled"]
                                       ELSE row[i]]
  /\ UNCHANGED <<task, direct, logged, channelUp, restarts, acked, retries>>

DeleteItem(i) == CancelRows({i})
ClearActive   == CancelRows(ActiveRows)

-----------------------------------------------------------------------------
(* The environment: time passes, the channel is edited, the process stops   *)
(* and starts again (the tasks are gone, the table stays as it was).        *)

BecomesDue(i) ==
  /\ row[i].status \in Claimable
  /\ ~row[i].due
  /\ row' = [row EXCEPT ![i].due = TRUE]
  /\ UNCHANGED <<task, direct, logged, channelUp, restarts, acked, retries>>

WindowSlides ==
  /\ logged > 0
  /\ logged' = logged - 1
  /\ UNCHANGED <<row, task, direct, channelUp, restarts, acked, retries>>

ToggleChannel ==
  /\ ChannelFlaps
  /\ channelUp' = ~channelUp
  /\ UNCHANGED <<row, task, direct, logged, restarts, acked, retries>>

\* Mutant: a start queues the failed rows again.
RestartRequeuesFailed ==
  /\ restarts < MaxRestarts
  /\ restarts' = restarts + 1
  /\ task' = [i \in Rows |-> [s \in Slots |-> NoTask]]
  /\ direct' = [i \in Rows |-> IF direct[i] = "new" THEN "new" ELSE "done"]
  /\ row' = [i \in Rows |-> IF row[i].status = "failed" THEN [row[i] EXCEPT !.status = "pending"]
                                                        ELSE row[i]]
  /\ UNCHANGED <<logged, channelUp, acked, retries>>

Restart ==
  /\ restarts < MaxRestarts
  /\ restarts' = restarts + 1
  /\ task' = [i \in Rows |-> [s \in Slots |-> NoTask]]
  /\ direct' = [i \in Rows |-> IF direct[i] = "new" THEN "new" ELSE "done"]
  /\ UNCHANGED <<row, logged, channelUp, acked, retries>>

-----------------------------------------------------------------------------
RouteStep(i) ==
  \/ RouteDropped(i)
  \/ RouteLimited(i)
  \/ RoutePasses(i)
  \/ RouteSendFails(i)
  \/ RouteSendSucceeds(i)
  \/ RouteLogs(i)

TaskStep(i, s) ==
  \/ Claim(i, s)
  \/ ClaimLost(i, s)
  \/ ChannelGone(i, s)
  \/ Deferred(i, s)
  \/ StartSend(i, s)
  \/ SendSucceeds(i, s)
  \/ MarkSent(i, s)
  \/ RecordSuccess(i, s)
  \/ SendFails(i, s)
  \/ SendFailsForGood(i, s)

OperatorStep ==
  \/ \E i \in Rows : RetryItem(i) \/ DeleteItem(i)
  \/ RetryAll
  \/ ClearActive

Next ==
  \/ \E i \in Rows : RouteStep(i)
  \/ WorkerTick
  \/ \E i \in Rows, s \in Slots : TaskStep(i, s)
  \/ OperatorStep
  \/ \E i \in Rows : BecomesDue(i)
  \/ WindowSlides
  \/ ToggleChannel
  \/ Restart

Spec == Init /\ [][Next]_vars

(* The worker and its tasks keep running and time passes; the operator, the *)
(* channel's configuration and the network owe nothing.                     *)
Fairness ==
  /\ WF_vars(WorkerTick)
  /\ WF_vars(WindowSlides)
  /\ \A i \in Rows : WF_vars(BecomesDue(i))
  /\ \A i \in Rows : WF_vars(RouteStep(i))
  /\ \A i \in Rows, s \in Slots : WF_vars(TaskStep(i, s))

FairSpec == Spec /\ Fairness

-----------------------------------------------------------------------------
(* Deliveries still to come of a row, without a further operator retry: the *)
(* direct one, the one a queued row stands for, one per task in flight.     *)
Routing(i)     == IF direct[i] \in {"new", "sending"} THEN 1 ELSE 0
Queued(i)      == IF row[i].status \in Claimable THEN 1 ELSE 0
Outstanding(i) == Routing(i) + Queued(i) + Cardinality(InFlight(i))

(* A delivery is acknowledged at most once more than the operator retried   *)
(* it, whatever the restarts, the failed writes and the overlapping tasks:  *)
(* no automatic retry ever repeats a send that succeeded.                   *)
DeliveryBound == \A i \in Rows : acked[i] <= 1 + retries[i]

(* The inductive form of DeliveryBound: what was acknowledged and what may  *)
(* still be sent never exceed one delivery per operator request.            *)
WithinBudget(i) == acked[i] + Outstanding(i) <= 1 + retries[i]
DeliveryBudget == \A i \in Rows : WithinBudget(i)

(* Tasks that claimed the row and will still write its status.              *)
Holders(i) == {s \in Slots : task[i][s].pc \in {"claimed", "sending", "delivered"}}

(* Until the operator retries a row, at most one task works on it, and the  *)
(* row shows "sending" (or the operator's cancel) all the while, although   *)
(* the marks that end a task do not look at the status they overwrite.      *)
ExclusiveClaim ==
  \A i \in Rows : retries[i] = 0 =>
    /\ \A s, r \in Holders(i) : s = r
    /\ Holders(i) # {} => row[i].status \in {"sending", "cancelled"}

(* The row of a delivery appears after its direct attempt, and no task      *)
(* works on a row that is not there.                                        *)
RowAfterRouting ==
  \A i \in Rows :
    /\ direct[i] \in {"new", "sending"} => row[i].status = "absent"
    /\ Holders(i) # {} => row[i].status # "absent"

(* The outcome of a row the operator never retried is final: a sent row     *)
(* stays sent, and a failed one can only be discarded.                      *)
OutcomeIsFinal ==
  [][\A i \in Rows : retries'[i] = 0 =>
       /\ row[i].status = "sent"   => row'[i].status = "sent"
       /\ row[i].status = "failed" => row'[i].status \in {"failed", "cancelled"}]_row

(* Every queued row is eventually sent, given up or cancelled, through rate *)
(* limiting, failed attempts, operator retries and a channel that comes and *)
(* goes, as long as the writes succeed.  A restart may leave a row behind   *)
(* as sending: the worker does not load that status, so that the row waits  *)
(* for an operator's retry, after which the promise holds for it again.     *)
QueueDrains ==
  \A i \in Rows :
    row[i].status \in Claimable \cup {"sending"}
      ~> \/ row[i].status \in {"sent", "failed", "cancelled"}
         \/ restarts > 0 /\ row[i].status = "sending" /\ Holders(i) = {}
=============================================================================
