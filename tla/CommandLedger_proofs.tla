------------------------ MODULE CommandLedger_proofs ------------------------
(***************************************************************************)
(* Proofs about CommandLedger for any set of commands and any bounds: the  *)
(* invariants behind at-most-once execution, and that the agent implements *)
(* the promise of CommandOutcome.                                          *)
(***************************************************************************)
EXTENDS CommandLedger, TLAPS

(* Replacing the record of one task. *)
LEMMA SetTaskStep ==
  ASSUME TypeOK, NEW c \in Commands, NEW r \in Receipts, NEW t \in Task, SetTask(c, r, t)
  PROVE  /\ task' \in [Commands -> [Receipts -> Task]]
         /\ \A d \in Commands, s \in Receipts :
              task'[d][s] = IF d = c /\ s = r THEN t ELSE task[d][s]
BY DEF TypeOK, SetTask

(* The records the steps of a task write. *)
LEMMA TaskRecords ==
  /\ NoTask \in Task
  /\ Spawned \in Task
  /\ Ended \in Task
  /\ \A o \in {"succeeded", "failed"} : Executed(o) \in Task
  /\ \A o \in Outcomes : [pc |-> "recorded", outcome |-> o] \in Task
BY DEF NoTask, Spawned, Ended, Executed, Task, Outcomes

LEMMA Envelopes ==
  ASSUME NEW c \in Commands, NEW r \in Receipts,
         NEW k \in {"accepted", "expired"} \cup Outcomes
  PROVE  Msg(c, r, k) \in Envelope
BY DEF Msg, Envelope

(* The envelopes of a handler: new ones join the outbox, only envelopes of  *)
(* the outbox are sent, and the only result among the new ones is the       *)
(* ledger's.                                                                *)
Queues(new, c) ==
  /\ outbox' = outbox \cup new
  /\ wire' \subseteq wire \cup outbox \cup new
  /\ \A m \in new : m.kind \in Outcomes => m.command = c /\ m.kind = ledger[c]

(* A flush, whether it completes or fails, leaves the outbox it was given   *)
(* and puts nothing but its envelopes on the wire.                          *)
LEMMA FlushStep ==
  ASSUME NEW c \in Commands, NEW new \in SUBSET Envelope, Answers(outbox \cup new),
         \A m \in new : m.kind \in Outcomes => m.command = c /\ m.kind = ledger[c]
  PROVE  /\ session' \in {session, "broken"}
         /\ Queues(new, c)
<1>1. outbox' = outbox \cup new /\ session' \in {session, "broken"}
  BY DEF Answers, Flushes, FlushFails
<1>2. wire' \subseteq wire \cup outbox \cup new
  BY DEF Answers, Flushes, FlushFails
<1> QED BY <1>1, <1>2 DEF Queues

-----------------------------------------------------------------------------
(* What the handler of a command does to the ledger, the tasks and the      *)
(* outbox, case by case; the rest it leaves alone.                          *)
LEMMA CommandStep ==
  ASSUME TypeOK, NEW c \in Commands, NEW r \in Receipts, HandleCommand(c, r)
  PROVE  /\ UNCHANGED <<replies, heard, receipts, expired, effects, breaks, opens>>
         /\ inbox' \subseteq inbox
         /\ session' \in {session, "broken"}
         /\ \/ ledger' = ledger /\ task' = task
            \/ /\ ledger[c] = "absent"
               /\ ledger' = [ledger EXCEPT ![c] = "running"]
               /\ task' = task \/ SetTask(c, r, Spawned)
         /\ \E new \in SUBSET Envelope : Queues(new, c)
<1> DEFINE ack == Msg(c, r, "accepted")
           refusal == Msg(c, r, "expired")
           result == Msg(c, r, ledger[c])
           Good(new) == \A m \in new : m.kind \in Outcomes => m.command = c /\ m.kind = ledger[c]
<1>1. /\ UNCHANGED <<replies, heard, receipts, expired, effects, breaks, opens>>
      /\ inbox' \subseteq inbox
  BY DEF HandleCommand, Refuse, AcceptNew, AcceptRunning, AcceptSettled, Receive
<1>2. /\ {ack} \in SUBSET Envelope /\ Good({ack})
      /\ {refusal} \in SUBSET Envelope /\ Good({refusal})
      /\ ledger[c] \in Outcomes => {ack, result} \in SUBSET Envelope /\ Good({ack, result})
  <2>1. "accepted" \notin Outcomes /\ "expired" \notin Outcomes
    BY DEF Outcomes
  <2>2. /\ ack.kind = "accepted" /\ refusal.kind = "expired"
        /\ result.command = c /\ result.kind = ledger[c]
    BY DEF Msg
  <2>3. /\ ack \in Envelope /\ refusal \in Envelope
        /\ ledger[c] \in Outcomes => result \in Envelope
    BY Envelopes
  <2> QED BY <2>1, <2>2, <2>3
<1>3. ASSUME Answers(outbox \cup {ack}) PROVE Queues({ack}, c) /\ session' \in {session, "broken"}
  BY <1>2, <1>3, FlushStep
<1>4. CASE Refuse(c, r)
  <2>1. Answers(outbox \cup {refusal}) /\ UNCHANGED <<ledger, task>>
    BY <1>4 DEF Refuse
  <2>2. Queues({refusal}, c) /\ session' \in {session, "broken"}
    BY <1>2, <2>1, FlushStep
  <2> QED BY <1>1, <1>2, <2>1, <2>2
<1>5. CASE AcceptNew(c, r)
  <2>1. /\ Answers(outbox \cup {ack})
        /\ ledger[c] = "absent"
        /\ ledger' = [ledger EXCEPT ![c] = "running"]
        /\ task' = task \/ SetTask(c, r, Spawned)
    BY <1>5 DEF AcceptNew, Answers
  <2> QED BY <1>1, <1>2, <1>3, <2>1
<1>6. CASE AcceptRunning(c, r)
  <2>1. Answers(outbox \cup {ack}) /\ UNCHANGED <<ledger, task>>
    BY <1>6 DEF AcceptRunning
  <2> QED BY <1>1, <1>2, <1>3, <2>1
<1>7. CASE AcceptSettled(c, r)
  <2>1. /\ Answers(outbox \cup {ack}) \/ Answers((outbox \cup {ack}) \cup {result})
        /\ ledger[c] \in Outcomes
        /\ UNCHANGED <<ledger, task>>
    BY <1>7 DEF AcceptSettled, Answers
  <2>2. CASE Answers(outbox \cup {ack})
    BY <1>1, <1>2, <1>3, <2>1, <2>2
  <2>3. CASE Answers((outbox \cup {ack}) \cup {result})
    <3>1. (outbox \cup {ack}) \cup {result} = outbox \cup {ack, result}
      OBVIOUS
    <3>2. Queues({ack, result}, c) /\ session' \in {session, "broken"}
      BY <1>2, <2>1, <2>3, <3>1, FlushStep
    <3> QED BY <1>1, <1>2, <2>1, <3>2
  <2> QED BY <2>1, <2>2, <2>3
<1> QED BY <1>4, <1>5, <1>6, <1>7 DEF HandleCommand

(* The four things a step of an execution task can do; t is its new record. *)
Acts(c, r, t) ==
  /\ task[c][r].pc = "spawned"
  /\ t.pc = "executed"
  /\ UNCHANGED <<ledger, outbox>>
  /\ \/ effects' = [effects EXCEPT ![c] = @ + 1]
     \/ effects' = effects /\ t.outcome = "failed"

Records(c, r, t) ==
  /\ task[c][r].pc = "executed"
  /\ ledger' = [ledger EXCEPT ![c] = IF @ \in Outcomes THEN @ ELSE task[c][r].outcome]
  /\ t = [pc |-> "recorded", outcome |-> ledger'[c]]
  /\ UNCHANGED <<outbox, effects>>

Reports(c, r, t) ==
  /\ task[c][r].pc = "recorded"
  /\ t.pc = "ended"
  /\ outbox' = outbox \cup {Msg(c, r, task[c][r].outcome)}
  /\ UNCHANGED <<ledger, effects>>

Ends(c, r, t) ==
  /\ t.pc = "ended"
  /\ UNCHANGED <<ledger, outbox, effects>>

LEMMA ExecutionStep ==
  ASSUME TypeOK, NEW c \in Commands, NEW r \in Receipts, TaskStep(c, r)
  PROVE  /\ UNCHANGED <<link, expired, opens>>
         /\ \E t \in Task :
              /\ SetTask(c, r, t)
              /\ t.pc # "none" /\ t.pc # "spawned" /\ task[c][r].pc # "none"
              /\ Acts(c, r, t) \/ Records(c, r, t) \/ Reports(c, r, t) \/ Ends(c, r, t)
<1> USE TaskRecords
<1>1. /\ UNCHANGED <<link, expired, opens>>
  BY DEF TaskStep, ExecuteExpired, Execute, ExecuteFails, Record, Report, StoreFails
<1>2. ASSUME NEW o \in {"succeeded", "failed"}
      PROVE  /\ Executed(o) \in Task
             /\ Executed(o).pc = "executed" /\ Executed(o).outcome = o
  BY DEF Executed, Outcomes
<1>3. CASE ExecuteExpired(c, r) \/ ExecuteFails(c, r)
  BY <1>1, <1>2, <1>3 DEF ExecuteExpired, ExecuteFails, Acts
<1>4. CASE Execute(c, r)
  BY <1>1, <1>2, <1>4 DEF Execute, Acts
<1>5. CASE Record(c, r)
  <2>1. task[c][r].outcome \in Outcomes
    BY <1>5 DEF Record, TypeOK, Task, Outcomes
  <2>2. ledger'[c] \in Outcomes
    BY <1>5, <2>1 DEF Record, TypeOK
  <2>3. [pc |-> "recorded", outcome |-> ledger'[c]] \in Task
    BY <2>2
  <2> QED BY <1>1, <1>5, <2>3 DEF Record, Records
<1>6. CASE Report(c, r) \/ StoreFails(c, r)
  BY <1>1, <1>6 DEF Report, StoreFails, Ended, Reports, Ends
<1> QED BY <1>3, <1>4, <1>5, <1>6 DEF TaskStep
-----------------------------------------------------------------------------
(* Every step keeps the variables in their types. *)
LEMMA TypeStep == TypeOK /\ [Next]_vars => TypeOK'
<1> SUFFICES ASSUME TypeOK, [Next]_vars PROVE TypeOK'
  OBVIOUS
<1>1. ASSUME NEW c \in Commands, NEW r \in Receipts, HandleCommand(c, r) PROVE TypeOK'
  <2>1. ledger' \in [Commands -> Statuses] /\ task' \in [Commands -> [Receipts -> Task]]
    BY <1>1, CommandStep, SetTaskStep, TaskRecords DEF TypeOK, Statuses
  <2>2. outbox' \in SUBSET Envelope /\ wire' \in SUBSET Envelope
    BY <1>1, CommandStep DEF TypeOK, Queues
  <2> QED BY <1>1, <2>1, <2>2, CommandStep DEF TypeOK
<1>2. ASSUME NEW c \in Commands, NEW r \in Receipts, TaskStep(c, r) PROVE TypeOK'
  <2>1. PICK t \in Task :
          /\ SetTask(c, r, t)
          /\ Acts(c, r, t) \/ Records(c, r, t) \/ Reports(c, r, t) \/ Ends(c, r, t)
    BY <1>2, ExecutionStep
  <2>2. task[c][r].pc \in {"executed", "recorded"} => task[c][r].outcome \in Outcomes
    BY DEF TypeOK, Task, Outcomes
  <2>3. task' \in [Commands -> [Receipts -> Task]]
    BY <2>1, SetTaskStep
  <2>4. ledger' \in [Commands -> Statuses]
    BY <2>1, <2>2 DEF Acts, Records, Reports, Ends, TypeOK, Statuses
  <2>5. effects' \in [Commands -> Nat]
    BY <2>1 DEF Acts, Records, Reports, Ends, TypeOK
  <2>6. outbox' \in SUBSET Envelope
    <3>1. CASE Reports(c, r, t)
      <4>1. Msg(c, r, task[c][r].outcome) \in Envelope
        BY <2>2, <3>1, Envelopes DEF Reports
      <4> QED BY <3>1, <4>1 DEF Reports, TypeOK
    <3>2. CASE Acts(c, r, t) \/ Records(c, r, t) \/ Ends(c, r, t)
      BY <3>2 DEF Acts, Records, Ends, TypeOK
    <3> QED BY <2>1, <3>1, <3>2
  <2> QED BY <1>2, <2>3, <2>4, <2>5, <2>6, ExecutionStep DEF TypeOK, link
<1>3. ASSUME NEW m \in Envelope, EnvelopeStep(m) PROVE TypeOK'
  <2>1. m.command \in Commands /\ m.kind \in {"accepted", "expired"} \cup Outcomes
    BY DEF Envelope
  <2> QED BY <1>3, <2>1 DEF EnvelopeStep, SendEnvelope, HubProcesses, HandleAck, TypeOK
<1>4. ASSUME NEW c \in Commands, HubSends(c) PROVE TypeOK'
  <2>1. receipts[c] + 1 \in Receipts /\ receipts[c] + 1 \in 0..MaxReceipts
    BY <1>4, ConstantsAssumption DEF HubSends, TypeOK, Receipts
  <2> QED BY <1>4, <2>1 DEF HubSends, TypeOK
<1>5. ASSUME NEW c \in Commands, Expire(c) PROVE TypeOK'
  BY <1>5 DEF Expire, TypeOK, link
<1>6. CASE SessionStarts
  BY <1>6 DEF SessionStarts, TypeOK
<1>7. CASE SessionEnds
  BY <1>7 DEF SessionEnds, TypeOK
<1>8. CASE ReplaceRuntime
  BY <1>8 DEF ReplaceRuntime, StopSession, OpenStore, TypeOK, Statuses, Outcomes
<1>9. CASE Restart
  BY <1>9, TaskRecords DEF Restart, StopSession, OpenStore, TypeOK, Statuses, Outcomes
<1>10. CASE UNCHANGED vars
  BY <1>10 DEF vars, link, TypeOK
<1>11. outbox \cup wire \cup replies \subseteq Envelope
  BY DEF TypeOK
<1> QED BY <1>1, <1>2, <1>3, <1>4, <1>5, <1>6, <1>7, <1>8, <1>9, <1>10, <1>11 DEF Next

(* The variables of the ledger always have their types. *)
THEOREM TypeCorrect == Spec => []TypeOK
<1>1. Init => TypeOK
  BY ConstantsAssumption, TaskRecords DEF Init, TypeOK, Statuses, Receipts
<1> QED BY <1>1, TypeStep, PTL DEF Spec

-----------------------------------------------------------------------------
(* A step that leaves ledger, tasks and effects alone keeps the life of     *)
(* every command in order.                                                  *)
LEMMA LifecycleStep == TypeOK /\ CommandsInOrder /\ [Next]_vars => CommandsInOrder'
<1> SUFFICES ASSUME TypeOK, CommandsInOrder, [Next]_vars, NEW d \in Commands
             PROVE  Lifecycle(d)'
  BY DEF CommandsInOrder
<1>0. Lifecycle(d)
  BY DEF CommandsInOrder
<1>1. ASSUME ledger'[d] = ledger[d], effects'[d] = effects[d], task'[d] = task[d]
      PROVE  Lifecycle(d)'
  BY <1>0, <1>1 DEF Lifecycle
<1>2. ASSUME NEW c \in Commands, NEW r \in Receipts, HandleCommand(c, r) PROVE Lifecycle(d)'
  <2>1. CASE ledger' = ledger /\ task' = task
    BY <1>1, <1>2, <2>1, CommandStep
  <2>2. CASE /\ ledger[c] = "absent"
             /\ ledger' = [ledger EXCEPT ![c] = "running"]
             /\ task' = task \/ SetTask(c, r, Spawned)
    <3>1. effects' = effects
      BY <1>2, CommandStep
    <3>2. CASE d # c
      BY <1>1, <2>2, <3>1, <3>2, SetTaskStep, TaskRecords DEF TypeOK, SetTask
    <3>3. CASE d = c
      <4>1. ledger'[c] = "running" /\ effects[c] = 0 /\ \A s \in Receipts : task[c][s].pc = "none"
        BY <1>0, <2>2, <3>3 DEF Lifecycle, TypeOK
      <4>2. \A s \in Receipts :
              /\ task'[c][s].pc \in {"none", "spawned"}
              /\ s # r => task'[c][s].pc = "none"
        BY <2>2, <4>1, SetTaskStep, TaskRecords DEF Spawned
      <4> QED BY <3>1, <3>3, <4>1, <4>2 DEF Lifecycle, Executed
    <3> QED BY <3>2, <3>3
  <2> QED BY <1>2, <2>1, <2>2, CommandStep
<1>3. ASSUME NEW c \in Commands, NEW r \in Receipts, TaskStep(c, r) PROVE Lifecycle(d)'
  <2>1. CASE d # c
    <3>1. PICK t \in Task :
            /\ SetTask(c, r, t)
            /\ Acts(c, r, t) \/ Records(c, r, t) \/ Reports(c, r, t) \/ Ends(c, r, t)
      BY <1>3, ExecutionStep
    <3>2. ledger'[d] = ledger[d] /\ effects'[d] = effects[d]
      BY <2>1, <3>1 DEF Acts, Records, Reports, Ends, TypeOK
    <3>3. task'[d] = task[d]
      BY <2>1, <3>1 DEF TypeOK, SetTask
    <3> QED BY <1>1, <3>2, <3>3
  <2>2. CASE d = c
    <3>1. PICK t \in Task :
            /\ SetTask(c, r, t)
            /\ t.pc # "none" /\ t.pc # "spawned" /\ task[c][r].pc # "none"
            /\ Acts(c, r, t) \/ Records(c, r, t) \/ Reports(c, r, t) \/ Ends(c, r, t)
      BY <1>3, ExecutionStep
    <3>2. \A s \in Receipts : task'[c][s] = IF s = r THEN t ELSE task[c][s]
      BY <3>1, SetTaskStep
    <3>3. \A s \in Receipts : s # r => task[c][s].pc = "none" /\ task'[c][s].pc = "none"
      BY <1>0, <2>2, <3>1, <3>2 DEF Lifecycle
    <3>4. task'[c][r] = t /\ ledger[c] # "absent" /\ effects[c] \in Nat
      BY <1>0, <2>2, <3>1, <3>2 DEF Lifecycle, TypeOK
    <3>5. CASE Reports(c, r, t) \/ Ends(c, r, t)
      BY <1>0, <2>2, <3>3, <3>4, <3>5 DEF Reports, Ends, Lifecycle, Executed
    <3>6. CASE Acts(c, r, t)
      <4>1. effects[c] = 0 /\ ledger[c] \in {"running", "unknown"} /\ ledger'[c] = ledger[c]
        BY <1>0, <2>2, <3>6 DEF Lifecycle, Acts
      <4>2. /\ effects'[c] \in {0, 1}
            /\ t = Executed("succeeded") => effects'[c] = 1
        BY <3>6, <4>1 DEF Acts, TypeOK, Executed
      <4>3. t.pc = "executed"
        BY <3>6 DEF Acts
      <4> QED BY <2>2, <3>3, <3>4, <4>1, <4>2, <4>3 DEF Lifecycle, Executed
    <3>7. CASE Records(c, r, t)
      <4>1. /\ task[c][r].outcome \in {"succeeded", "failed"}
            /\ task[c][r] = Executed(task[c][r].outcome)
        BY <3>7 DEF Records, TypeOK, Task, Executed
      <4>2. /\ ledger'[c] = IF ledger[c] \in Outcomes THEN ledger[c] ELSE task[c][r].outcome
            /\ ledger'[c] \in Outcomes
        BY <3>7, <4>1 DEF Records, TypeOK, Outcomes
      <4>3. ledger'[c] = "succeeded" => effects[c] = 1
        BY <1>0, <2>2, <4>1, <4>2 DEF Lifecycle
      <4>4. effects'[c] = effects[c] /\ effects[c] <= 1
        BY <1>0, <2>2, <3>7 DEF Records, Lifecycle
      <4>5. t.pc = "recorded" /\ t.outcome = ledger'[c] /\ "absent" \notin Outcomes
        BY <3>7 DEF Records, Outcomes
      <4> QED BY <2>2, <3>3, <3>4, <4>2, <4>3, <4>4, <4>5 DEF Lifecycle, Executed
    <3> QED BY <3>1, <3>5, <3>6, <3>7
  <2> QED BY <2>1, <2>2
<1>4. ASSUME NEW m \in Envelope, EnvelopeStep(m) PROVE Lifecycle(d)'
  BY <1>1, <1>4 DEF EnvelopeStep, SendEnvelope, HubProcesses, HandleAck
<1>5. ASSUME NEW c \in Commands, HubSends(c) \/ Expire(c) PROVE Lifecycle(d)'
  BY <1>1, <1>5 DEF HubSends, Expire
<1>6. CASE SessionStarts \/ SessionEnds
  BY <1>1, <1>6 DEF SessionStarts, SessionEnds
<1>7. ASSUME OpenStore, StopSession,
             \A s \in Receipts : task'[d][s] = task[d][s] \/ (task'[d][s].pc = "ended" /\ task[d][s].pc # "none")
      PROVE  Lifecycle(d)'
  <2>1. effects'[d] = effects[d]
    BY <1>7 DEF StopSession
  <2>2. ledger'[d] = IF ledger[d] = "running" THEN "unknown" ELSE ledger[d]
    BY <1>7 DEF OpenStore
  <2>3. "running" \notin Outcomes
    BY DEF Outcomes
  <2> QED BY <1>0, <1>7, <2>1, <2>2, <2>3 DEF Lifecycle, Executed
<1>8. CASE ReplaceRuntime
  <2>1. OpenStore /\ StopSession /\ task' = task
    BY <1>8 DEF ReplaceRuntime
  <2>2. \A s \in Receipts : task'[d][s] = task[d][s]
    BY <2>1
  <2> QED BY <1>7, <2>1, <2>2
<1>9. CASE Restart
  <2>1. OpenStore /\ StopSession
    BY <1>9 DEF Restart
  <2>2. ASSUME NEW s \in Receipts
        PROVE  task'[d][s] = task[d][s] \/ (task'[d][s].pc = "ended" /\ task[d][s].pc # "none")
    <3>1. task'[d][s] = IF task[d][s] = NoTask THEN NoTask ELSE Ended
      BY <1>9 DEF Restart
    <3>2. task[d][s].pc = "none" => task[d][s] = NoTask
      BY DEF TypeOK, Task, NoTask
    <3>3. Ended.pc = "ended"
      BY DEF Ended
    <3>4. CASE task[d][s] = NoTask
      BY <3>1, <3>4
    <3>5. CASE task[d][s] # NoTask
      BY <3>1, <3>2, <3>3, <3>5
    <3> QED BY <3>4, <3>5
  <2> QED BY <1>7, <2>1, <2>2
<1>10. CASE UNCHANGED vars
  BY <1>1, <1>10 DEF vars
<1>11. outbox \cup wire \cup replies \subseteq Envelope
  BY DEF TypeOK
<1> QED BY <1>2, <1>3, <1>4, <1>5, <1>6, <1>8, <1>9, <1>10, <1>11 DEF Next

(* Commands run in order, and so each acts at most once. *)
THEOREM ExecutesAtMostOnce == Spec => [](CommandsInOrder /\ AtMostOnce)
<1>1. Init => CommandsInOrder
  BY DEF Init, CommandsInOrder, Lifecycle, NoTask, Executed
<1>2. CommandsInOrder => AtMostOnce
  BY DEF CommandsInOrder, Lifecycle, AtMostOnce
<1> QED BY <1>1, <1>2, TypeCorrect, LifecycleStep, PTL DEF Spec

-----------------------------------------------------------------------------
(* A settled command keeps its outcome. *)
LEMMA OutcomeStays ==
  ASSUME TypeOK, [Next]_vars, NEW d \in Commands, ledger[d] \in Outcomes
  PROVE  ledger'[d] = ledger[d]
<1>1. "absent" \notin Outcomes /\ "running" \notin Outcomes
  BY DEF Outcomes
<1>2. ASSUME NEW c \in Commands, NEW r \in Receipts, HandleCommand(c, r) PROVE ledger'[d] = ledger[d]
  BY <1>1, <1>2, CommandStep DEF TypeOK
<1>3. ASSUME NEW c \in Commands, NEW r \in Receipts, TaskStep(c, r) PROVE ledger'[d] = ledger[d]
  <2>1. PICK t \in Task : Acts(c, r, t) \/ Records(c, r, t) \/ Reports(c, r, t) \/ Ends(c, r, t)
    BY <1>3, ExecutionStep
  <2> QED BY <2>1 DEF Acts, Records, Reports, Ends, TypeOK
<1>4. ASSUME NEW m \in Envelope, EnvelopeStep(m) PROVE ledger'[d] = ledger[d]
  BY <1>4 DEF EnvelopeStep, SendEnvelope, HubProcesses, HandleAck
<1>5. ASSUME NEW c \in Commands, HubSends(c) \/ Expire(c) PROVE ledger'[d] = ledger[d]
  BY <1>5 DEF HubSends, Expire
<1>6. CASE SessionStarts \/ SessionEnds
  BY <1>6 DEF SessionStarts, SessionEnds
<1>7. CASE ReplaceRuntime \/ Restart
  BY <1>1, <1>7 DEF ReplaceRuntime, Restart, OpenStore
<1>8. CASE UNCHANGED vars
  BY <1>8 DEF vars
<1>9. outbox \cup wire \cup replies \subseteq Envelope
  BY DEF TypeOK
<1> QED BY <1>2, <1>3, <1>4, <1>5, <1>6, <1>7, <1>8, <1>9 DEF Next

(* Where the results of a command and what the Hub was told come from. *)
LEMMA ResultsStep ==
  ASSUME TypeOK, CommandsInOrder, [Next]_vars
  PROVE  /\ \A m \in outbox' \cup wire' :
              m.kind \in Outcomes =>
                m \in outbox \cup wire \/ (m.command \in Commands /\ m.kind = ledger[m.command])
         /\ \A d \in Commands, o \in Outcomes :
              <<d, o>> \in heard' =>
                <<d, o>> \in heard \/ (\E m \in wire : m.command = d /\ m.kind = o)
<1> DEFINE Goal ==
      /\ \A m \in outbox' \cup wire' :
           m.kind \in Outcomes =>
             m \in outbox \cup wire \/ (m.command \in Commands /\ m.kind = ledger[m.command])
      /\ \A d \in Commands, o \in Outcomes :
           <<d, o>> \in heard' =>
             <<d, o>> \in heard \/ (\E m \in wire : m.command = d /\ m.kind = o)
<1>1. ASSUME outbox' \subseteq outbox \cup wire, wire' \subseteq outbox \cup wire, heard' = heard
      PROVE  Goal
  BY <1>1
<1>2. ASSUME NEW c \in Commands, NEW r \in Receipts, HandleCommand(c, r) PROVE Goal
  <2>1. PICK new \in SUBSET Envelope : Queues(new, c)
    BY <1>2, CommandStep
  <2>2. heard' = heard
    BY <1>2, CommandStep
  <2> QED BY <2>1, <2>2 DEF Queues
<1>3. ASSUME NEW c \in Commands, NEW r \in Receipts, TaskStep(c, r) PROVE Goal
  <2>1. PICK t \in Task : Acts(c, r, t) \/ Records(c, r, t) \/ Reports(c, r, t) \/ Ends(c, r, t)
    BY <1>3, ExecutionStep
  <2>2. wire' = wire /\ heard' = heard
    BY <1>3, ExecutionStep DEF link
  <2>3. CASE Reports(c, r, t)
    <3> DEFINE m == Msg(c, r, task[c][r].outcome)
    <3>1. m.command = c /\ m.kind = ledger[c]
      BY <2>3 DEF Reports, CommandsInOrder, Lifecycle, Msg
    <3>2. outbox' = outbox \cup {m}
      BY <2>3 DEF Reports
    <3> HIDE DEF m
    <3> QED BY <2>2, <3>1, <3>2
  <2>4. CASE Acts(c, r, t) \/ Records(c, r, t) \/ Ends(c, r, t)
    BY <1>1, <2>2, <2>4 DEF Acts, Records, Ends
  <2> QED BY <2>1, <2>3, <2>4
<1>4. ASSUME NEW m \in Envelope, EnvelopeStep(m) PROVE Goal
  <2>1. CASE SendEnvelope(m) \/ HandleAck(m)
    BY <1>1, <2>1 DEF SendEnvelope, HandleAck
  <2>2. CASE HubProcesses(m)
    BY <2>2 DEF HubProcesses
  <2> QED BY <1>4, <2>1, <2>2 DEF EnvelopeStep
<1>5. ASSUME NEW c \in Commands, HubSends(c) \/ Expire(c) PROVE Goal
  BY <1>1, <1>5 DEF HubSends, Expire, link
<1>6. CASE SessionStarts \/ SessionEnds
  BY <1>1, <1>6 DEF SessionStarts, SessionEnds
<1>7. CASE ReplaceRuntime \/ Restart
  BY <1>1, <1>7 DEF ReplaceRuntime, Restart, StopSession
<1>8. CASE UNCHANGED vars
  BY <1>1, <1>8 DEF vars, link
<1>9. outbox \cup wire \cup replies \subseteq Envelope
  BY DEF TypeOK
<1> QED BY <1>2, <1>3, <1>4, <1>5, <1>6, <1>7, <1>8, <1>9 DEF Next

LEMMA OneOutcomeStep == TypeOK /\ CommandsInOrder /\ OneOutcome /\ [Next]_vars => OneOutcome'
<1> SUFFICES ASSUME TypeOK, CommandsInOrder, OneOutcome, [Next]_vars, NEW d \in Commands
             PROVE  /\ \A m \in outbox' \cup wire' :
                         m.command = d /\ m.kind \in Outcomes => m.kind = ledger'[d]
                    /\ \A o \in Outcomes : <<d, o>> \in heard' => o = ledger'[d]
  BY DEF OneOutcome, ResultsOf, Told
<1>1. \A m \in outbox \cup wire : m.command = d /\ m.kind \in Outcomes => m.kind = ledger[d]
  BY DEF OneOutcome, ResultsOf
<1>2. \A o \in Outcomes : <<d, o>> \in heard => o = ledger[d]
  BY DEF OneOutcome, Told
<1>3. ledger[d] \in Outcomes => ledger'[d] = ledger[d]
  BY OutcomeStays
<1>4. \A m \in outbox' \cup wire' :
        m.command = d /\ m.kind \in Outcomes => m.kind = ledger'[d]
  BY <1>1, <1>3, ResultsStep
<1>5. \A o \in Outcomes : <<d, o>> \in heard' => o = ledger'[d]
  BY <1>1, <1>2, <1>3, ResultsStep
<1> QED BY <1>4, <1>5

(* The ledger, the outbox, the wire and the Hub agree on every outcome. *)
THEOREM OutcomesAgree == Spec => []OneOutcome
<1>1. Init => OneOutcome
  BY DEF Init, OneOutcome, ResultsOf, Told
<1> QED BY <1>1, TypeCorrect, ExecutesAtMostOnce, OneOutcomeStep, PTL DEF Spec

-----------------------------------------------------------------------------
(* The refinement: every step is a step of CommandOutcome or a stutter.     *)

PhaseOf == [c \in Commands |-> Phase(c)]
ToldOf  == [c \in Commands |-> Told(c)]

LEMMA PhaseValues ==
  ASSUME TypeOK, NEW c \in Commands
  PROVE  /\ Phase(c) = "new" <=> ledger[c] = "absent"
         /\ Phase(c) = "open" <=> ledger[c] = "running"
         /\ Phase(c) \in Outcomes <=> ledger[c] \in Outcomes
         /\ ledger[c] \in Outcomes => Phase(c) = ledger[c]
BY DEF Phase, TypeOK, Statuses, Outcomes

(* A step that touches neither the ledger, nor the effects, nor what the    *)
(* Hub was told is a stutter.                                               *)
LEMMA Stutter ==
  ASSUME ledger' = ledger, effects' = effects, ToldOf' = ToldOf
  PROVE  UNCHANGED Outcome!avars
<1>1. PhaseOf' = PhaseOf
  BY DEF PhaseOf, Phase
<1> QED BY <1>1 DEF Outcome!avars, PhaseOf, ToldOf

LEMMA RefinementStep ==
  ASSUME TypeOK, CommandsInOrder, OneOutcome, [Next]_vars, TypeOK'
  PROVE  [Outcome!Next]_(Outcome!avars)
<1> USE DEF Outcome!Next, Outcome!avars
<1>1. ASSUME heard' = heard PROVE ToldOf' = ToldOf
  BY <1>1 DEF ToldOf, Told
<1>2. ASSUME NEW c \in Commands, NEW r \in Receipts, HandleCommand(c, r)
      PROVE  [Outcome!Next]_(Outcome!avars)
  <2>1. effects' = effects /\ ToldOf' = ToldOf
    BY <1>1, <1>2, CommandStep
  <2>2. CASE ledger' = ledger
    BY <2>1, <2>2, Stutter
  <2>3. CASE ledger[c] = "absent" /\ ledger' = [ledger EXCEPT ![c] = "running"]
    <3>1. Phase(c) = "new"
      BY <2>3, PhaseValues
    <3>2. PhaseOf' = [PhaseOf EXCEPT ![c] = "open"]
      BY <2>3 DEF PhaseOf, Phase, TypeOK
    <3>3. Outcome!Open(c)
      BY <2>1, <3>1, <3>2 DEF Outcome!Open, PhaseOf, ToldOf
    <3> QED BY <3>3
  <2> QED BY <1>2, <2>2, <2>3, CommandStep
<1>3. ASSUME NEW c \in Commands, NEW r \in Receipts, TaskStep(c, r)
      PROVE  [Outcome!Next]_(Outcome!avars)
  <2>1. PICK t \in Task :
          /\ task[c][r].pc # "none"
          /\ Acts(c, r, t) \/ Records(c, r, t) \/ Reports(c, r, t) \/ Ends(c, r, t)
    BY <1>3, ExecutionStep
  <2>2. heard' = heard
    BY <1>3, ExecutionStep DEF link
  <2>3. ToldOf' = ToldOf
    BY <1>1, <2>2
  <2>4. Lifecycle(c)
    BY DEF CommandsInOrder
  <2>5. CASE Acts(c, r, t)
    <3>1. ledger' = ledger
      BY <2>5 DEF Acts
    <3>2. CASE effects' = effects
      BY <2>3, <3>1, <3>2, Stutter
    <3>3. CASE effects' = [effects EXCEPT ![c] = @ + 1]
      <4>1. ledger[c] \in {"running", "unknown"} /\ effects[c] = 0
        BY <2>4, <2>5 DEF Acts, Lifecycle
      <4>2. Phase(c) \in {"open", "unknown"}
        BY <4>1 DEF Phase
      <4>3. PhaseOf' = PhaseOf
        BY <3>1 DEF PhaseOf, Phase
      <4>4. effects' = [effects EXCEPT ![c] = 1]
        BY <3>3, <4>1 DEF TypeOK
      <4>5. Outcome!Act(c)
        BY <2>3, <4>1, <4>2, <4>3, <4>4 DEF Outcome!Act, PhaseOf, ToldOf
      <4> QED BY <4>5
    <3> QED BY <2>5, <3>2, <3>3 DEF Acts
  <2>6. CASE Records(c, r, t)
    <3>1. effects' = effects
      BY <2>6 DEF Records
    <3>2. CASE ledger[c] \in Outcomes
      <4>1. ledger' = ledger
        BY <2>6, <3>2 DEF Records, TypeOK
      <4> QED BY <2>3, <3>1, <4>1, Stutter
    <3>3. CASE ledger[c] \notin Outcomes
      <4> DEFINE o == task[c][r].outcome
      <4>1. o \in {"succeeded", "failed"} /\ task[c][r] = Executed(o)
        BY <2>6 DEF Records, TypeOK, Task, Executed
      <4>2. o = "succeeded" => effects[c] = 1
        BY <2>4, <4>1 DEF Lifecycle
      <4>3. ledger[c] = "running"
        BY <2>1, <2>4, <3>3 DEF Lifecycle, TypeOK, Statuses
      <4>4. ledger' = [ledger EXCEPT ![c] = o]
        BY <2>6, <3>3 DEF Records, TypeOK
      <4> HIDE DEF o
      <4>5. PhaseOf' = [PhaseOf EXCEPT ![c] = o]
        BY <4>1, <4>4 DEF PhaseOf, Phase, TypeOK
      <4>6. Phase(c) = "open"
        BY <4>3, PhaseValues
      <4>7. Outcome!Settle(c, o)
        BY <2>3, <3>1, <4>2, <4>5, <4>6 DEF Outcome!Settle, PhaseOf, ToldOf
      <4> QED BY <4>1, <4>7 DEF Outcome!Outcomes
    <3> QED BY <3>2, <3>3
  <2>7. CASE Reports(c, r, t) \/ Ends(c, r, t)
    BY <2>3, <2>7, Stutter DEF Reports, Ends
  <2> QED BY <2>1, <2>5, <2>6, <2>7
<1>4. ASSUME NEW m \in wire, HubProcesses(m) PROVE [Outcome!Next]_(Outcome!avars)
  <2>1. m.command \in Commands
    BY DEF TypeOK, Envelope
  <2>2. /\ ledger' = ledger /\ effects' = effects
        /\ heard' = heard \cup {<<m.command, m.kind>>}
    BY <1>4 DEF HubProcesses
  <2>3. CASE m.kind \notin Outcomes
    <3>1. ToldOf' = ToldOf
      BY <2>2, <2>3 DEF ToldOf, Told
    <3> QED BY <2>2, <3>1, Stutter
  <2>4. CASE m.kind \in Outcomes
    <3>1. m.kind = ledger[m.command]
      BY <2>1, <2>4 DEF OneOutcome, ResultsOf
    <3>2. Phase(m.command) = m.kind
      BY <2>1, <2>4, <3>1, PhaseValues
    <3>3. ToldOf' = [ToldOf EXCEPT ![m.command] = @ \cup {m.kind}]
      <4>1. \A c \in Commands :
              Told(c)' = IF c = m.command THEN Told(c) \cup {m.kind} ELSE Told(c)
        BY <2>2, <2>4 DEF Told
      <4> QED BY <2>1, <4>1 DEF ToldOf
    <3>4. PhaseOf' = PhaseOf
      BY <2>2 DEF PhaseOf, Phase
    <3>5. Outcome!Tell(m.command)
      BY <2>1, <2>2, <2>4, <3>2, <3>3, <3>4
      DEF Outcome!Tell, Outcome!Outcomes, Outcomes, PhaseOf, ToldOf
    <3> QED BY <2>1, <3>5
  <2> QED BY <2>3, <2>4
<1>5. ASSUME NEW m \in Envelope, SendEnvelope(m) \/ HandleAck(m)
      PROVE  [Outcome!Next]_(Outcome!avars)
  BY <1>1, <1>5, Stutter DEF SendEnvelope, HandleAck
<1>6. ASSUME NEW c \in Commands, HubSends(c) \/ Expire(c) PROVE [Outcome!Next]_(Outcome!avars)
  BY <1>1, <1>6, Stutter DEF HubSends, Expire, link
<1>7. CASE SessionStarts \/ SessionEnds
  BY <1>1, <1>7, Stutter DEF SessionStarts, SessionEnds
<1>8. CASE ReplaceRuntime \/ Restart
  <2>1. effects' = effects /\ heard' = heard /\ OpenStore
    BY <1>8 DEF ReplaceRuntime, Restart, StopSession
  <2>2. ASSUME NEW c \in Commands
        PROVE  Phase(c)' = IF Phase(c) = "open" THEN "unknown" ELSE Phase(c)
    <3>1. ledger'[c] = IF ledger[c] = "running" THEN "unknown" ELSE ledger[c]
      BY <2>1 DEF OpenStore
    <3> QED BY <3>1 DEF Phase, TypeOK, Statuses, Outcomes
  <2>3. Outcome!SettleAll
    BY <1>1, <2>1, <2>2 DEF Outcome!SettleAll, ToldOf, PhaseOf
  <2> QED BY <2>3
<1>9. CASE UNCHANGED vars
  BY <1>1, <1>9, Stutter DEF vars, link
<1>10. outbox \cup wire \cup replies \subseteq Envelope /\ \A m : HubProcesses(m) => m \in wire
  BY DEF TypeOK, HubProcesses
<1> QED BY <1>2, <1>3, <1>4, <1>5, <1>6, <1>7, <1>8, <1>9, <1>10 DEF Next, EnvelopeStep

(* The agent keeps the promise of CommandOutcome. *)
THEOREM KeepsPromise == Spec => ImplementsOutcome
<1>1. Init => Outcome!Init
  BY DEF Init, Outcome!Init, Phase, Told
<1>2. TypeOK /\ CommandsInOrder /\ OneOutcome /\ [Next]_vars /\ TypeOK'
        => [Outcome!Next]_(Outcome!avars)
  BY RefinementStep
<1> QED
  BY <1>1, <1>2, TypeCorrect, ExecutesAtMostOnce, OutcomesAgree, PTL
  DEF Spec, ImplementsOutcome, Outcome!Spec
=============================================================================
