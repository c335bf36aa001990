---------------------- MODULE NotificationQueue_proofs ----------------------
(***************************************************************************)
(* Proofs about the notifications: NotificationQueue for any set of rows,  *)
(* any finite number of overlapping tasks and any limits, and Routing, of  *)
(* a behaviour of Remote, for any finite sets of rules and channels.       *)
(***************************************************************************)
EXTENDS Remote, FiniteSetTheorems, TLAPS

(* A write, successful or not, leaves a table of rows. *)
LEMMA WriteStep ==
  ASSUME TypeOK, NEW i \in Rows, NEW r \in Row, Write(i, r)
  PROVE  /\ row' \in [Rows -> Row]
         /\ \A j \in Rows : j # i => row'[j] = row[j]
         /\ row'[i] \in {r, row[i]}
BY DEF TypeOK, Write

(* Replacing one task's record keeps the table of tasks one, and the task   *)
(* is in flight afterwards exactly when its new record says so.             *)
LEMMA SetTaskStep ==
  ASSUME TypeOK, NEW i \in Rows, NEW s \in Slots, NEW t \in Task, SetTask(i, s, t)
  PROVE  /\ task' \in [Rows -> [Slots -> Task]]
         /\ \A j \in Rows \ {i} : InFlight(j)' = InFlight(j)
         /\ t.pc \in {"claimed", "sending"} => InFlight(i)' = InFlight(i) \cup {s}
         /\ t.pc \notin {"claimed", "sending"} => InFlight(i)' = InFlight(i) \ {s}
<1>1. task' \in [Rows -> [Slots -> Task]]
  BY DEF TypeOK, SetTask
<1>2. \A j \in Rows, r \in Slots : task'[j][r] = IF j = i /\ r = s THEN t ELSE task[j][r]
  BY DEF TypeOK, SetTask
<1> QED BY <1>1, <1>2 DEF InFlight

(* The records the steps of a task write. *)
LEMMA TaskRecords ==
  ASSUME TypeOK, NEW i \in Rows, NEW s \in Slots
  PROVE  /\ NoTask \in Task
         /\ \A pc \in {"claimed", "sending", "delivered", "logging"} :
              /\ [task[i][s] EXCEPT !.pc = pc] \in Task
              /\ [task[i][s] EXCEPT !.pc = pc].pc = pc
BY DEF TypeOK, Task, NoTask

LEMMA RowRecords ==
  ASSUME TypeOK, NEW i \in Rows
  PROVE  /\ \A st \in Statuses : [row[i] EXCEPT !.status = st] \in Row
         /\ \A st \in Statuses, d \in BOOLEAN :
              [status |-> st, attempt |-> row[i].attempt + 1, due |-> d] \in Row
         /\ \A st \in Statuses, d \in BOOLEAN :
              /\ [status |-> st, attempt |-> row[i].attempt, due |-> d] \in Row
              /\ [status |-> st, attempt |-> 0, due |-> d] \in Row
         /\ row[i].due \in BOOLEAN
<1>1. row[i] \in Row
  BY DEF TypeOK
<1>2. row[i].attempt \in Nat /\ row[i].due \in BOOLEAN
  BY <1>1 DEF Row
<1>3. \A st \in Statuses : [row[i] EXCEPT !.status = st] \in Row
  BY <1>1 DEF Row
<1>4. \A st \in Statuses : \A n \in Nat : \A d \in BOOLEAN :
        [status |-> st, attempt |-> n, due |-> d] \in Row
  BY DEF Row
<1>5. row[i].attempt + 1 \in Nat /\ 0 \in Nat
  BY <1>2
<1> QED BY <1>2, <1>3, <1>4, <1>5

(* Every step keeps the variables in their types. *)
LEMMA TypeStep == TypeOK /\ [Next]_vars => TypeOK'
<1> SUFFICES ASSUME TypeOK, [Next]_vars PROVE TypeOK'
  OBVIOUS
<1> USE DEF TypeOK, Statuses, Active, Claimable
<1>1. ASSUME NEW i \in Rows, RouteStep(i) PROVE TypeOK'
  <2>1. CASE RouteDropped(i)
    BY <2>1 DEF RouteDropped
  <2>2. CASE RoutePasses(i)
    BY <2>2 DEF RoutePasses
  <2>3. CASE RouteLimited(i)
    BY <2>3, WriteStep, RowRecords DEF RouteLimited, Enqueue
  <2>4. CASE RouteSendFails(i)
    BY <2>4, WriteStep, RowRecords DEF RouteSendFails, Enqueue
  <2>5. CASE RouteSendSucceeds(i)
    BY <2>5 DEF RouteSendSucceeds
  <2>6. CASE RouteLogs(i)
    BY <2>6 DEF RouteLogs, LogSuccess
  <2> QED BY <1>1, <2>1, <2>2, <2>3, <2>4, <2>5, <2>6 DEF RouteStep
<1>2. CASE WorkerTick
  <2>1. PICK batch \in SUBSET DueRows :
          /\ \A i \in batch : FreeSlots(i) # {}
          /\ task' = [i \in Rows |-> IF i \in batch THEN Spawned(i) ELSE task[i]]
    BY <1>2 DEF WorkerTick
  <2>2. ASSUME NEW i \in Rows PROVE Spawned(i) \in [Slots -> Task]
    BY DEF Spawned, Task, Row
  <2> QED BY <1>2, <2>1, <2>2 DEF WorkerTick
<1>3. ASSUME NEW i \in Rows, NEW s \in Slots, TaskStep(i, s) PROVE TypeOK'
  <2> USE TaskRecords
  <2>1. CASE Claim(i, s)
    BY <2>1, SetTaskStep, RowRecords DEF Claim
  <2>2. CASE ClaimLost(i, s)
    BY <2>2, SetTaskStep DEF ClaimLost, EndTask
  <2>3. CASE StartSend(i, s)
    BY <2>3, SetTaskStep DEF StartSend
  <2>4. CASE Deferred(i, s)
    BY <2>4, WriteStep, SetTaskStep, RowRecords DEF Deferred, EndTask
  <2>5. CASE MarkSent(i, s)
    BY <2>5, WriteStep, SetTaskStep, RowRecords DEF MarkSent
  <2>6. CASE SendFails(i, s)
    BY <2>6, WriteStep, SetTaskStep, RowRecords DEF SendFails, EndTask
  <2>7. CASE GiveUp(i, s)
    BY <2>7, WriteStep, SetTaskStep, RowRecords DEF GiveUp, EndTask
  <2>8. CASE SendSucceeds(i, s)
    <3>1. task' \in [Rows -> [Slots -> Task]]
      BY <2>8, SetTaskStep DEF SendSucceeds
    <3>2. acked' \in [Rows -> Nat]
      BY <2>8 DEF SendSucceeds
    <3> QED BY <2>8, <3>1, <3>2 DEF SendSucceeds
  <2>9. CASE RecordSuccess(i, s)
    <3>1. task' \in [Rows -> [Slots -> Task]]
      BY <2>9, SetTaskStep DEF RecordSuccess, EndTask
    <3>2. logged' \in Nat
      BY <2>9 DEF RecordSuccess, LogSuccess
    <3> QED BY <2>9, <3>1, <3>2 DEF RecordSuccess
  <2> QED BY <1>3, <2>1, <2>2, <2>3, <2>4, <2>5, <2>6, <2>7, <2>8, <2>9
          DEF TaskStep, ChannelGone, SendFailsForGood
<1>4. ASSUME NEW S \in SUBSET Rows, RetryRows(S) PROVE TypeOK'
  BY <1>4 DEF RetryRows, Requeued, Row
<1>5. ASSUME NEW S \in SUBSET Rows, CancelRows(S) PROVE TypeOK'
  BY <1>5, RowRecords DEF CancelRows
<1>6. CASE OperatorStep
  <2>1. ActiveRows \in SUBSET Rows
    BY DEF ActiveRows
  <2> QED BY <1>4, <1>5, <1>6, <2>1
          DEF OperatorStep, RetryItem, RetryAll, DeleteItem, ClearActive
<1>7. ASSUME NEW i \in Rows, BecomesDue(i) PROVE TypeOK'
  BY <1>7 DEF BecomesDue, Row
<1>8. CASE WindowSlides
  BY <1>8 DEF WindowSlides
<1>11. CASE ToggleChannel
  BY <1>11 DEF ToggleChannel
<1>9. CASE Restart
  BY <1>9, ConstantsAssumption DEF Restart, Task, NoTask
<1>10. CASE UNCHANGED vars
  BY <1>10 DEF vars
<1> QED BY <1>1, <1>2, <1>3, <1>6, <1>7, <1>8, <1>9, <1>10, <1>11 DEF Next

(* The variables of the notification queue always have their types. *)
THEOREM TypeCorrect == Spec => []TypeOK
<1>1. Init => TypeOK
  BY ConstantsAssumption DEF Init, TypeOK, Row, Task, NoRow, NoTask, Statuses, Active, Claimable
<1> QED BY <1>1, TypeStep, PTL DEF Spec

-----------------------------------------------------------------------------
(* The number of tasks in flight for a row is a natural number. *)
LEMMA InFlightFinite ==
  ASSUME NEW i \in Rows
  PROVE  /\ IsFiniteSet(InFlight(i))
         /\ Cardinality(InFlight(i)) \in Nat
         /\ Cardinality(InFlight(i))' \in Nat
BY FS_Subset, FS_CardinalityType, ConstantsAssumption DEF InFlight

(* How one task's step changes the number of tasks in flight for its row. *)
LEMMA InFlightCount ==
  ASSUME TypeOK, NEW i \in Rows, NEW s \in Slots, NEW t \in Task, SetTask(i, s, t)
  PROVE  LET flying == t.pc \in {"claimed", "sending"}
             before == Cardinality(InFlight(i))
             after  == Cardinality(InFlight(i))'
         IN  /\ flying /\ s \notin InFlight(i) => after = before + 1
             /\ flying /\ s \in InFlight(i) => after = before
             /\ ~flying /\ s \in InFlight(i) => after = before - 1
             /\ ~flying /\ s \notin InFlight(i) => after = before
<1>1. IsFiniteSet(InFlight(i)) /\ Cardinality(InFlight(i)) \in Nat
  BY InFlightFinite
<1>2. CASE t.pc \in {"claimed", "sending"} /\ s \notin InFlight(i)
  <2>1. InFlight(i)' = InFlight(i) \cup {s}
    BY <1>2, SetTaskStep
  <2> QED BY <1>1, <1>2, <2>1, FS_AddElement
<1>3. CASE t.pc \in {"claimed", "sending"} /\ s \in InFlight(i)
  <2>1. InFlight(i)' = InFlight(i) \cup {s}
    BY <1>3, SetTaskStep
  <2>2. InFlight(i)' = InFlight(i)
    BY <1>3, <2>1
  <2> QED BY <1>3, <2>2
<1>4. CASE t.pc \notin {"claimed", "sending"} /\ s \in InFlight(i)
  <2>1. InFlight(i)' = InFlight(i) \ {s}
    BY <1>4, SetTaskStep
  <2> QED BY <1>1, <1>4, <2>1, FS_RemoveElement
<1>5. CASE t.pc \notin {"claimed", "sending"} /\ s \notin InFlight(i)
  <2>1. InFlight(i)' = InFlight(i) \ {s}
    BY <1>5, SetTaskStep
  <2>2. InFlight(i)' = InFlight(i)
    BY <1>5, <2>1
  <2> QED BY <1>5, <2>2
<1> QED BY <1>2, <1>3, <1>4, <1>5

(* The rows a step does not touch keep their budget. *)
LEMMA Untouched ==
  ASSUME NEW j \in Rows, WithinBudget(j),
         row'[j].status = row[j].status, direct'[j] = direct[j],
         acked'[j] = acked[j], retries'[j] = retries[j],
         InFlight(j)' = InFlight(j)
  PROVE  WithinBudget(j)'
BY DEF WithinBudget, Outstanding, Routing, Queued

(* What the steps of a task have in common. *)
LEMMA TaskFrame ==
  ASSUME TypeOK, NEW i \in Rows, NEW s \in Slots, TaskStep(i, s)
  PROVE  /\ \E t \in Task : SetTask(i, s, t)
         /\ \A j \in Rows : j # i => row'[j] = row[j] /\ acked'[j] = acked[j]
         /\ direct' = direct
         /\ retries' = retries
<1> USE TaskRecords
<1>1. CASE Claim(i, s)
  BY <1>1 DEF Claim, TypeOK
<1>2. CASE ClaimLost(i, s) \/ RecordSuccess(i, s)
  BY <1>2 DEF ClaimLost, RecordSuccess, EndTask
<1>3. CASE StartSend(i, s)
  BY <1>3 DEF StartSend
<1>4. CASE Deferred(i, s)
  BY <1>4, WriteStep, RowRecords DEF Deferred, EndTask, Statuses, Active, Claimable
<1>5. CASE MarkSent(i, s)
  BY <1>5, WriteStep, RowRecords DEF MarkSent, Statuses
<1>6. CASE SendFails(i, s)
  BY <1>6, WriteStep, RowRecords DEF SendFails, EndTask, Statuses, Active, Claimable
<1>7. CASE GiveUp(i, s)
  BY <1>7, WriteStep, RowRecords DEF GiveUp, EndTask, Statuses, Active
<1>8. CASE SendSucceeds(i, s)
  <2>1. \A j \in Rows : j # i => acked'[j] = acked[j]
    BY <1>8 DEF SendSucceeds, TypeOK
  <2> QED BY <1>8, <2>1 DEF SendSucceeds
<1> QED BY <1>1, <1>2, <1>3, <1>4, <1>5, <1>6, <1>7, <1>8
        DEF TaskStep, ChannelGone, SendFailsForGood

(* A step of a task spends at most what the row's budget still allows: the  *)
(* claim moves the queued delivery to the task, the outcome either returns  *)
(* it to the queue or turns it into an acknowledged one.                    *)
LEMMA TaskBudget ==
  ASSUME TypeOK, DeliveryBudget, NEW i \in Rows, NEW s \in Slots, TaskStep(i, s)
  PROVE  DeliveryBudget'
<1> DEFINE F == Cardinality(InFlight(i))
<1>1. PICK t \in Task : SetTask(i, s, t)
  BY TaskFrame
<1>2. \A j \in Rows \ {i} : WithinBudget(j)'
  BY <1>1, TaskFrame, SetTaskStep, Untouched DEF DeliveryBudget
<1>3. /\ F \in Nat /\ F' \in Nat
      /\ acked[i] \in Nat /\ retries[i] \in Nat
      /\ acked[i] + Routing(i) + Queued(i) + F <= 1 + retries[i]
      /\ Routing(i) \in {0, 1} /\ Queued(i) \in {0, 1} /\ Queued(i)' \in {0, 1}
  BY InFlightFinite DEF TypeOK, DeliveryBudget, WithinBudget, Outstanding, Routing, Queued
<1>4. direct' = direct /\ retries' = retries /\ Routing(i)' = Routing(i)
  BY TaskFrame DEF Routing
<1>5. SUFFICES acked'[i] + Queued(i)' + F' <= acked[i] + Queued(i) + F /\ acked'[i] \in Nat
  <2>1. WithinBudget(i)'
    BY <1>3, <1>4, <1>5 DEF WithinBudget, Outstanding
  <2> QED BY <1>2, <2>1 DEF DeliveryBudget
<1> s \in InFlight(i) <=> task[i][s].pc \in {"claimed", "sending"}
  BY DEF InFlight
<1>6. CASE Claim(i, s)
  <2>1. SetTask(i, s, [task[i][s] EXCEPT !.pc = "claimed"]) /\ acked' = acked
    BY <1>6 DEF Claim
  <2>2. F' = F + 1
    BY <1>6, <2>1, InFlightCount, TaskRecords DEF Claim
  <2>3. Queued(i) = 1 /\ Queued(i)' = 0
    BY <1>6 DEF Claim, Queued, Claimable, TypeOK, Row
  <2> QED BY <1>3, <2>1, <2>2, <2>3
<1>7. CASE ClaimLost(i, s) \/ RecordSuccess(i, s)
  <2>1. EndTask(i, s) /\ acked' = acked /\ row' = row
    BY <1>7 DEF ClaimLost, RecordSuccess
  <2>2. F' = F
    BY <1>7, <2>1, InFlightCount, TaskRecords DEF ClaimLost, RecordSuccess, EndTask, NoTask
  <2> QED BY <1>3, <2>1, <2>2 DEF Queued
<1>8. CASE StartSend(i, s)
  <2>1. SetTask(i, s, [task[i][s] EXCEPT !.pc = "sending"]) /\ acked' = acked /\ row' = row
    BY <1>8 DEF StartSend
  <2>2. F' = F
    BY <1>8, <2>1, InFlightCount, TaskRecords DEF StartSend
  <2> QED BY <1>3, <2>1, <2>2 DEF Queued
<1>9. CASE Deferred(i, s) \/ SendFails(i, s) \/ (GiveUp(i, s) /\ s \in InFlight(i))
  <2>1. EndTask(i, s) /\ acked' = acked /\ s \in InFlight(i)
    BY <1>9 DEF Deferred, SendFails, GiveUp
  <2>2. F' = F - 1
    BY <2>1, InFlightCount, TaskRecords DEF EndTask, NoTask
  <2> QED BY <1>3, <2>1, <2>2
<1>10. CASE SendSucceeds(i, s)
  <2>1. /\ SetTask(i, s, [task[i][s] EXCEPT !.pc = "delivered"])
        /\ acked' = [acked EXCEPT ![i] = @ + 1]
        /\ row' = row
    BY <1>10 DEF SendSucceeds
  <2>2. F' = F - 1
    BY <1>10, <2>1, InFlightCount, TaskRecords DEF SendSucceeds
  <2>3. acked'[i] = acked[i] + 1
    BY <2>1 DEF TypeOK
  <2> QED BY <1>3, <2>1, <2>2, <2>3 DEF Queued
<1>11. CASE MarkSent(i, s)
  <2>1. SetTask(i, s, [task[i][s] EXCEPT !.pc = "logging"]) /\ acked' = acked
    BY <1>11 DEF MarkSent
  <2>2. F' = F
    BY <1>11, <2>1, InFlightCount, TaskRecords DEF MarkSent
  <2>3. Queued(i)' <= Queued(i)
    BY <1>11 DEF MarkSent, Write, Queued, Claimable, TypeOK, Row
  <2> QED BY <1>3, <2>1, <2>2, <2>3
<1>12. CASE ChannelGone(i, s) \/ SendFailsForGood(i, s)
  <2>1. GiveUp(i, s) /\ s \in InFlight(i)
    BY <1>12 DEF ChannelGone, SendFailsForGood
  <2> QED BY <1>9, <2>1
<1> QED BY <1>6, <1>7, <1>8, <1>9, <1>10, <1>11, <1>12 DEF TaskStep

(* Routing an event turns its one direct delivery into an acknowledged or a *)
(* queued one; the row does not exist before.                               *)
LEMMA RouteBudget ==
  ASSUME TypeOK, DeliveryBudget, NEW i \in Rows, RouteStep(i)
  PROVE  DeliveryBudget'
<1>1. /\ task' = task
      /\ retries' = retries
      /\ \A j \in Rows : j # i => /\ row'[j] = row[j]
                                 /\ direct'[j] = direct[j]
                                 /\ acked'[j] = acked[j]
  <2>1. CASE RouteDropped(i) \/ RoutePasses(i)
    BY <2>1 DEF RouteDropped, RoutePasses, TypeOK
  <2>2. CASE RouteLimited(i) \/ RouteSendFails(i)
    BY <2>2, WriteStep, RowRecords
       DEF RouteLimited, RouteSendFails, Enqueue, TypeOK, Statuses, Active, Claimable
  <2>3. CASE RouteSendSucceeds(i)
    BY <2>3 DEF RouteSendSucceeds, TypeOK
  <2>4. CASE RouteLogs(i)
    BY <2>4 DEF RouteLogs, TypeOK
  <2> QED BY <2>1, <2>2, <2>3, <2>4 DEF RouteStep
<1>2. \A j \in Rows : InFlight(j)' = InFlight(j)
  BY <1>1 DEF InFlight
<1>3. \A j \in Rows \ {i} : WithinBudget(j)'
  BY <1>1, <1>2, Untouched DEF DeliveryBudget
<1>4. Cardinality(InFlight(i))' = Cardinality(InFlight(i))
  BY <1>2
<1>5. /\ acked[i] \in Nat /\ retries[i] \in Nat /\ Cardinality(InFlight(i)) \in Nat
      /\ acked[i] + Routing(i) + Queued(i) + Cardinality(InFlight(i)) <= 1 + retries[i]
      /\ Routing(i) \in {0, 1} /\ Queued(i) \in {0, 1} /\ Queued(i)' \in {0, 1}
  BY InFlightFinite DEF TypeOK, DeliveryBudget, WithinBudget, Outstanding, Routing, Queued
<1>6. SUFFICES /\ acked'[i] + Routing(i)' + Queued(i)' <= acked[i] + Routing(i) + Queued(i)
               /\ acked'[i] \in Nat /\ Routing(i)' \in {0, 1}
  <2>1. WithinBudget(i)'
    BY <1>1, <1>4, <1>5, <1>6 DEF WithinBudget, Outstanding
  <2> QED BY <1>3, <2>1 DEF DeliveryBudget
<1>7. Routing(i)' \in {0, 1}
  BY DEF Routing
<1>8. CASE RouteDropped(i) \/ RouteLogs(i)
  BY <1>5, <1>7, <1>8 DEF RouteDropped, RouteLogs, TypeOK, Routing, Queued
<1>9. CASE RoutePasses(i)
  BY <1>5, <1>7, <1>9 DEF RoutePasses, TypeOK, Routing, Queued
<1>10. CASE RouteLimited(i) \/ RouteSendFails(i)
  BY <1>5, <1>7, <1>10 DEF RouteLimited, RouteSendFails, Enqueue, TypeOK, Routing
<1>11. CASE RouteSendSucceeds(i)
  BY <1>5, <1>7, <1>11 DEF RouteSendSucceeds, TypeOK, Routing, Queued
<1> QED BY <1>8, <1>9, <1>10, <1>11 DEF RouteStep

(* Loading a batch starts tasks, none of which is in flight or holds a row. *)
LEMMA TickFrame ==
  ASSUME TypeOK, WorkerTick, NEW i \in Rows
  PROVE  InFlight(i)' = InFlight(i) /\ Holders(i)' = Holders(i)
<1>1. PICK batch \in SUBSET DueRows :
        /\ \A j \in batch : FreeSlots(j) # {}
        /\ task' = [j \in Rows |-> IF j \in batch THEN Spawned(j) ELSE task[j]]
  BY DEF WorkerTick
<1>2. CASE i \notin batch
  BY <1>1, <1>2 DEF InFlight, Holders
<1>3. CASE i \in batch
  <2> DEFINE free == CHOOSE s \in FreeSlots(i) : TRUE
  <2>1. free \in Slots /\ task[i][free].pc = "idle"
    BY <1>1, <1>3 DEF FreeSlots
  <2>2. task'[i] = [task[i] EXCEPT ![free] = [pc |-> "spawned", attempt |-> row[i].attempt]]
    BY <1>1, <1>3 DEF Spawned
  <2> HIDE DEF free
  <2>3. \A s \in Slots : IF s = free THEN task'[i][s].pc = "spawned" ELSE task'[i][s] = task[i][s]
    BY <2>1, <2>2 DEF TypeOK
  <2> QED BY <2>1, <2>3 DEF InFlight, Holders
<1> QED BY <1>2, <1>3

(* Requests of the operator: a retry adds the delivery it asks for, a       *)
(* cancel adds none.                                                        *)
LEMMA OperatorFrame ==
  ASSUME TypeOK, OperatorStep
  PROVE  \E S \in SUBSET ActiveRows : RetryRows(S) \/ CancelRows(S)
BY DEF OperatorStep, RetryItem, RetryAll, DeleteItem, ClearActive, RetryRows, CancelRows, ActiveRows

LEMMA OperatorBudget ==
  ASSUME TypeOK, DeliveryBudget, OperatorStep
  PROVE  DeliveryBudget'
<1>1. PICK S \in SUBSET ActiveRows : RetryRows(S) \/ CancelRows(S)
  BY OperatorFrame
<1>2. S \subseteq Rows
  BY <1>1 DEF ActiveRows
<1>3. task' = task /\ direct' = direct /\ acked' = acked
  BY <1>1 DEF RetryRows, CancelRows
<1> SUFFICES ASSUME NEW i \in Rows PROVE WithinBudget(i)'
  BY DEF DeliveryBudget
<1>4. InFlight(i)' = InFlight(i) /\ Routing(i)' = Routing(i)
  BY <1>3 DEF InFlight, Routing
<1>5. /\ acked[i] \in Nat /\ retries[i] \in Nat /\ Cardinality(InFlight(i)) \in Nat
      /\ acked[i] + Routing(i) + Queued(i) + Cardinality(InFlight(i)) <= 1 + retries[i]
      /\ Routing(i) \in {0, 1} /\ Queued(i) \in {0, 1} /\ Queued(i)' \in {0, 1}
  BY InFlightFinite DEF TypeOK, DeliveryBudget, WithinBudget, Outstanding, Routing, Queued
<1>6. retries'[i] \in Nat /\ Queued(i)' + retries[i] <= Queued(i) + retries'[i]
  <2>1. CASE RetryRows(S)
    BY <1>2, <1>5, <2>1 DEF RetryRows, Queued, TypeOK
  <2>2. CASE CancelRows(S)
    BY <1>2, <1>5, <2>2 DEF CancelRows, Queued, TypeOK, Row, Claimable
  <2> QED BY <1>1, <2>1, <2>2
<1> QED BY <1>3, <1>4, <1>5, <1>6 DEF WithinBudget, Outstanding

LEMMA BudgetStep == TypeOK /\ DeliveryBudget /\ [Next]_vars => DeliveryBudget'
<1> SUFFICES ASSUME TypeOK, DeliveryBudget, [Next]_vars PROVE DeliveryBudget'
  OBVIOUS
<1>1. CASE WorkerTick
  BY <1>1, TickFrame, Untouched DEF DeliveryBudget, WorkerTick
<1>2. ASSUME NEW i \in Rows, BecomesDue(i) PROVE DeliveryBudget'
  <2>1. \A j \in Rows : row'[j].status = row[j].status /\ InFlight(j)' = InFlight(j)
    BY <1>2 DEF BecomesDue, TypeOK, Row, InFlight
  <2> QED BY <1>2, <2>1, Untouched DEF BecomesDue, DeliveryBudget
<1>3. CASE WindowSlides \/ ToggleChannel \/ UNCHANGED vars
  <2>1. \A j \in Rows : InFlight(j)' = InFlight(j)
    BY <1>3 DEF WindowSlides, ToggleChannel, vars, InFlight
  <2> QED BY <1>3, <2>1, Untouched DEF WindowSlides, ToggleChannel, vars, DeliveryBudget
<1>4. CASE Restart
  <2> SUFFICES ASSUME NEW i \in Rows PROVE WithinBudget(i)'
    BY DEF DeliveryBudget
  <2>1. InFlight(i)' = {}
    BY <1>4 DEF Restart, InFlight, NoTask
  <2>2. Cardinality(InFlight(i))' = 0
    BY <2>1, FS_EmptySet
  <2>3. /\ acked[i] \in Nat /\ retries[i] \in Nat /\ Cardinality(InFlight(i)) \in Nat
        /\ acked[i] + Routing(i) + Queued(i) + Cardinality(InFlight(i)) <= 1 + retries[i]
        /\ Routing(i) \in {0, 1} /\ Queued(i) \in {0, 1}
    BY InFlightFinite DEF TypeOK, DeliveryBudget, WithinBudget, Outstanding, Routing, Queued
  <2>4. Routing(i)' \in {0, 1} /\ Routing(i)' <= Routing(i) /\ Queued(i)' = Queued(i)
    BY <1>4 DEF Restart, Routing, Queued, TypeOK
  <2>5. acked' = acked /\ retries' = retries
    BY <1>4 DEF Restart
  <2> QED BY <2>2, <2>3, <2>4, <2>5 DEF WithinBudget, Outstanding
<1> QED BY <1>1, <1>2, <1>3, <1>4, RouteBudget, TaskBudget, OperatorBudget DEF Next

(* No restart, failed write, rate limit or overlap of tasks makes the queue *)
(* repeat an acknowledged delivery: each further one is paid for by an      *)
(* operator retry.                                                          *)
THEOREM DeliveriesBounded == Spec => [](DeliveryBudget /\ DeliveryBound)
<1>1. Init => DeliveryBudget
  <2> SUFFICES ASSUME Init, NEW i \in Rows PROVE WithinBudget(i)
    BY DEF DeliveryBudget
  <2>1. InFlight(i) = {}
    BY DEF Init, InFlight, NoTask
  <2>2. Cardinality(InFlight(i)) = 0
    BY <2>1, FS_EmptySet
  <2>3. acked[i] = 0 /\ retries[i] = 0 /\ Routing(i) = 1 /\ Queued(i) = 0
    BY DEF Init, Routing, Queued, NoRow, Claimable
  <2> QED BY <2>2, <2>3 DEF WithinBudget, Outstanding
<1>2. TypeOK /\ DeliveryBudget => DeliveryBound
  <2> SUFFICES ASSUME TypeOK, DeliveryBudget, NEW i \in Rows
               PROVE  acked[i] <= 1 + retries[i]
    BY DEF DeliveryBound
  <2>1. /\ acked[i] \in Nat /\ retries[i] \in Nat /\ Cardinality(InFlight(i)) \in Nat
        /\ Routing(i) \in {0, 1} /\ Queued(i) \in {0, 1}
        /\ acked[i] + Routing(i) + Queued(i) + Cardinality(InFlight(i)) <= 1 + retries[i]
    BY InFlightFinite DEF TypeOK, DeliveryBudget, WithinBudget, Outstanding, Routing, Queued
  <2> QED BY <2>1
<1> QED BY <1>1, <1>2, TypeCorrect, BudgetStep, PTL DEF Spec

-----------------------------------------------------------------------------
(* The invariant behind ExclusiveClaim, one conjunct per row. *)
RowClaim(i) ==
  /\ direct[i] \in {"new", "sending"} => row[i].status = "absent"
  /\ Holders(i) # {} => row[i].status # "absent"
  /\ retries[i] = 0 =>
       /\ \A s, r \in Holders(i) : s = r
       /\ Holders(i) # {} => row[i].status \in {"sending", "cancelled"}

LEMMA RowClaims == (ExclusiveClaim /\ RowAfterRouting) <=> \A i \in Rows : RowClaim(i)
BY DEF ExclusiveClaim, RowAfterRouting, RowClaim

(* How one task's step changes the holders of its row. *)
LEMMA HoldersStep ==
  ASSUME TypeOK, NEW i \in Rows, NEW s \in Slots, NEW t \in Task, SetTask(i, s, t)
  PROVE  /\ \A j \in Rows : j # i => Holders(j)' = Holders(j)
         /\ t.pc \in {"claimed", "sending", "delivered"} => Holders(i)' = Holders(i) \cup {s}
         /\ t.pc \notin {"claimed", "sending", "delivered"} => Holders(i)' = Holders(i) \ {s}
<1>1. \A j \in Rows, r \in Slots : task'[j][r] = IF j = i /\ r = s THEN t ELSE task[j][r]
  BY DEF TypeOK, SetTask
<1> QED BY <1>1 DEF Holders

LEMMA RowClaimUntouched ==
  ASSUME NEW j \in Rows, RowClaim(j), row'[j].status = row[j].status,
         direct'[j] = direct[j], retries'[j] = retries[j], Holders(j)' = Holders(j)
  PROVE  RowClaim(j)'
BY DEF RowClaim

LEMMA TaskClaims ==
  ASSUME TypeOK, \A j \in Rows : RowClaim(j), NEW i \in Rows, NEW s \in Slots, TaskStep(i, s)
  PROVE  \A j \in Rows : RowClaim(j)'
<1>1. PICK t \in Task : SetTask(i, s, t)
  BY TaskFrame
<1>2. \A j \in Rows \ {i} : RowClaim(j)'
  BY <1>1, TaskFrame, HoldersStep, RowClaimUntouched
<1>3. direct' = direct /\ retries' = retries
  BY TaskFrame
<1> SUFFICES RowClaim(i)'
  BY <1>2
<1> DEFINE Stage(pc) == [task[i][s] EXCEPT !.pc = pc]
<1>a. /\ NoTask \in Task /\ NoTask.pc = "idle"
      /\ \A pc \in {"claimed", "sending", "delivered", "logging"} :
           Stage(pc) \in Task /\ Stage(pc).pc = pc
  BY TaskRecords DEF NoTask
<1>4. CASE Claim(i, s)
  <2>1. SetTask(i, s, Stage("claimed")) /\ row[i].status \in Claimable
    BY <1>4 DEF Claim
  <2>2. Holders(i)' = Holders(i) \cup {s}
    <3> HIDE DEF Stage
    <3> QED BY <1>a, <2>1, HoldersStep
  <2>3. row'[i].status = "sending"
    BY <1>4 DEF Claim, TypeOK, Row
  <2> QED BY <1>3, <2>1, <2>2, <2>3 DEF RowClaim, Claimable
<1>5. CASE ClaimLost(i, s) \/ RecordSuccess(i, s)
  <2>1. EndTask(i, s) /\ row' = row /\ s \notin Holders(i)
    BY <1>5 DEF ClaimLost, RecordSuccess, Holders
  <2>2. Holders(i)' = Holders(i)
    <3>1. Holders(i)' = Holders(i) \ {s}
      BY <1>a, <2>1, HoldersStep DEF EndTask
    <3> QED BY <2>1, <3>1
  <2> QED BY <1>3, <2>1, <2>2, RowClaimUntouched
<1>6. CASE StartSend(i, s)
  <2>1. SetTask(i, s, Stage("sending")) /\ row' = row /\ s \in Holders(i)
    BY <1>6 DEF StartSend, Holders
  <2>2. Holders(i)' = Holders(i)
    <3> HIDE DEF Stage
    <3> QED BY <1>a, <2>1, HoldersStep
  <2> QED BY <1>3, <2>1, <2>2, RowClaimUntouched
<1>7. CASE SendSucceeds(i, s)
  <2>1. SetTask(i, s, Stage("delivered")) /\ row' = row /\ s \in Holders(i)
    BY <1>7 DEF SendSucceeds, Holders
  <2>2. Holders(i)' = Holders(i)
    <3> HIDE DEF Stage
    <3> QED BY <1>a, <2>1, HoldersStep
  <2> QED BY <1>3, <2>1, <2>2, RowClaimUntouched
<1>8. ASSUME s \in Holders(i), Holders(i)' = Holders(i) \ {s},
             row'[i].status \in Statuses \ {"absent"} \/ row'[i] = row[i]
      PROVE  RowClaim(i)'
  BY <1>3, <1>8 DEF RowClaim
<1>9. CASE Deferred(i, s) \/ SendFails(i, s) \/ ChannelGone(i, s) \/ SendFailsForGood(i, s)
  <2>1. EndTask(i, s) /\ s \in Holders(i)
    BY <1>9 DEF Deferred, SendFails, ChannelGone, SendFailsForGood, GiveUp, Holders
  <2>2. Holders(i)' = Holders(i) \ {s}
    BY <1>a, <2>1, HoldersStep DEF EndTask
  <2>3. row'[i].status \in Statuses \ {"absent"} \/ row'[i] = row[i]
    <3>1. \E st \in {"scheduled", "retrying", "failed"}, n \in Nat, d \in BOOLEAN :
            Write(i, [status |-> st, attempt |-> n, due |-> d])
      <4>1. row[i].attempt \in Nat /\ row[i].attempt + 1 \in Nat /\ row[i].due \in BOOLEAN
        BY DEF TypeOK, Row
      <4>2. CASE Deferred(i, s)
        BY <4>1, <4>2 DEF Deferred
      <4>3. CASE SendFails(i, s)
        BY <4>1, <4>3 DEF SendFails
      <4>4. CASE GiveUp(i, s)
        BY <4>1, <4>4 DEF GiveUp
      <4> QED BY <1>9, <4>2, <4>3, <4>4 DEF ChannelGone, SendFailsForGood
    <3> QED BY <3>1 DEF Write, TypeOK, Statuses, Active, Claimable
  <2> QED BY <1>8, <2>1, <2>2, <2>3
<1>10. CASE MarkSent(i, s)
  <2>1. SetTask(i, s, Stage("logging")) /\ s \in Holders(i)
    BY <1>10 DEF MarkSent, Holders
  <2>2. Holders(i)' = Holders(i) \ {s}
    <3> HIDE DEF Stage
    <3> QED BY <1>a, <2>1, HoldersStep
  <2>3. row'[i].status = "sent" \/ row'[i] = row[i]
    BY <1>10 DEF MarkSent, Write, TypeOK, Row
  <2> QED BY <1>8, <2>1, <2>2, <2>3 DEF Statuses
<1> QED BY <1>4, <1>5, <1>6, <1>7, <1>9, <1>10 DEF TaskStep

LEMMA RouteClaims ==
  ASSUME TypeOK, \A j \in Rows : RowClaim(j), NEW i \in Rows, RouteStep(i)
  PROVE  \A j \in Rows : RowClaim(j)'
<1>1. task' = task /\ retries' = retries
  BY DEF RouteStep, RouteDropped, RouteLimited, RoutePasses, RouteSendFails,
         RouteSendSucceeds, RouteLogs, Enqueue
<1>2. \A j \in Rows : Holders(j)' = Holders(j)
  BY <1>1 DEF Holders
<1>3. CASE RouteDropped(i) \/ RoutePasses(i) \/ RouteSendSucceeds(i) \/ RouteLogs(i)
  <2>1. /\ row' = row
        /\ \A j \in Rows : direct'[j] \in {"new", "sending"} => direct[j] \in {"new", "sending"}
    BY <1>3 DEF RouteDropped, RoutePasses, RouteSendSucceeds, RouteLogs, TypeOK
  <2> QED BY <1>1, <1>2, <2>1 DEF RowClaim
<1>4. CASE RouteLimited(i) \/ RouteSendFails(i)
  <2>1. /\ direct[i] \in {"new", "sending"} /\ direct'[i] = "done"
        /\ \A j \in Rows : j # i => direct'[j] = direct[j] /\ row'[j] = row[j]
    BY <1>4, WriteStep, RowRecords
       DEF RouteLimited, RouteSendFails, Enqueue, TypeOK, Statuses, Active, Claimable
  <2> QED BY <1>1, <1>2, <2>1 DEF RowClaim
<1> QED BY <1>3, <1>4 DEF RouteStep

LEMMA ClaimsStep ==
  TypeOK /\ (\A i \in Rows : RowClaim(i)) /\ [Next]_vars => (\A i \in Rows : RowClaim(i))'
<1> SUFFICES ASSUME TypeOK, \A i \in Rows : RowClaim(i), [Next]_vars
             PROVE  \A i \in Rows : RowClaim(i)'
  OBVIOUS
<1>1. CASE WorkerTick
  BY <1>1, TickFrame, RowClaimUntouched DEF WorkerTick
<1>2. ASSUME NEW i \in Rows, BecomesDue(i) PROVE \A j \in Rows : RowClaim(j)'
  <2>1. \A j \in Rows : row'[j].status = row[j].status /\ Holders(j)' = Holders(j)
    BY <1>2 DEF BecomesDue, TypeOK, Row, Holders
  <2> QED BY <1>2, <2>1, RowClaimUntouched DEF BecomesDue
<1>3. CASE WindowSlides \/ ToggleChannel \/ UNCHANGED vars
  <2>1. \A j \in Rows : Holders(j)' = Holders(j)
    BY <1>3 DEF WindowSlides, ToggleChannel, vars, Holders
  <2> QED BY <1>3, <2>1, RowClaimUntouched DEF WindowSlides, ToggleChannel, vars
<1>4. CASE Restart
  <2>1. \A j \in Rows : Holders(j)' = {}
    BY <1>4 DEF Restart, Holders, NoTask
  <2>2. \A j \in Rows : direct'[j] \in {"new", "sending"} => direct[j] \in {"new", "sending"}
    BY <1>4 DEF Restart, TypeOK
  <2> QED BY <1>4, <2>1, <2>2 DEF Restart, RowClaim
<1>5. CASE OperatorStep
  <2>1. PICK S \in SUBSET ActiveRows : RetryRows(S) \/ CancelRows(S)
    BY <1>5, OperatorFrame
  <2>2. task' = task /\ direct' = direct
    BY <2>1 DEF RetryRows, CancelRows
  <2>3. \A j \in Rows : Holders(j)' = Holders(j)
    BY <2>2 DEF Holders
  <2> SUFFICES ASSUME NEW j \in Rows PROVE RowClaim(j)'
    OBVIOUS
  <2>4. CASE j \notin S
    BY <2>1, <2>2, <2>3, <2>4, RowClaimUntouched DEF RetryRows, CancelRows
  <2>5. CASE j \in S /\ RetryRows(S)
    <3>1. row'[j].status = "pending" /\ retries'[j] # 0 /\ row[j].status # "absent"
      BY <2>5 DEF RetryRows, Requeued, TypeOK, Active, Claimable
    <3> QED BY <2>2, <2>3, <3>1 DEF RowClaim
  <2>6. CASE j \in S /\ CancelRows(S)
    <3>1. row'[j].status = "cancelled" /\ retries' = retries /\ row[j].status # "absent"
      BY <2>6 DEF CancelRows, TypeOK, Row, Active, Claimable
    <3> QED BY <2>2, <2>3, <3>1 DEF RowClaim
  <2> QED BY <2>1, <2>4, <2>5, <2>6
<1> QED BY <1>1, <1>2, <1>3, <1>4, <1>5, RouteClaims, TaskClaims DEF Next

LEMMA ClaimsInit == Init => \A i \in Rows : RowClaim(i)
<1> SUFFICES ASSUME Init, NEW i \in Rows PROVE RowClaim(i)
  OBVIOUS
<1>1. Holders(i) = {}
  BY DEF Init, Holders, NoTask
<1> QED BY <1>1 DEF Init, RowClaim, NoRow

(* Until the operator retries a row its claim is exclusive, although every  *)
(* mark that ends a task overwrites whatever status it finds.               *)
THEOREM ClaimsExclusive == Spec => [](ExclusiveClaim /\ RowAfterRouting)
BY TypeCorrect, ClaimsInit, ClaimsStep, RowClaims, PTL DEF Spec

(* A row the operator never retried keeps its outcome. *)
THEOREM OutcomesFinal == Spec => OutcomeIsFinal
<1> DEFINE Final(i) == retries'[i] = 0 =>
                         /\ row[i].status = "sent" => row'[i].status = "sent"
                         /\ row[i].status = "failed" => row'[i].status \in {"failed", "cancelled"}
<1>1. TypeOK /\ (\A i \in Rows : RowClaim(i)) /\ [Next]_vars => [\A i \in Rows : Final(i)]_row
  <2> SUFFICES ASSUME TypeOK, \A i \in Rows : RowClaim(i), [Next]_vars, NEW i \in Rows
               PROVE  Final(i)
    OBVIOUS
  <2>1. ASSUME row'[i].status = row[i].status PROVE Final(i)
    BY <2>1
  <2>2. CASE WorkerTick \/ WindowSlides \/ ToggleChannel \/ Restart \/ UNCHANGED vars
    BY <2>1, <2>2 DEF WorkerTick, WindowSlides, ToggleChannel, Restart, vars
  <2>3. ASSUME NEW j \in Rows, BecomesDue(j) PROVE Final(i)
    <3>1. row'[i].status = row[i].status
      BY <2>3 DEF BecomesDue, TypeOK, Row
    <3> QED BY <2>1, <3>1
  <2>4. CASE OperatorStep
    <3>1. PICK S \in SUBSET ActiveRows : RetryRows(S) \/ CancelRows(S)
      BY <2>4, OperatorFrame
    <3>2. CASE i \notin S
      BY <2>1, <3>1, <3>2 DEF RetryRows, CancelRows
    <3>3. CASE i \in S /\ RetryRows(S)
      <4>1. retries'[i] # 0
        BY <3>3 DEF RetryRows, TypeOK
      <4> QED BY <4>1
    <3>4. CASE i \in S /\ CancelRows(S)
      BY <3>4 DEF CancelRows, TypeOK, Row, Active, Claimable
    <3> QED BY <3>1, <3>2, <3>3, <3>4
  <2>5. ASSUME NEW j \in Rows, RouteStep(j) PROVE Final(i)
    <3>1. CASE RouteLimited(j) \/ RouteSendFails(j)
      <4>1. row[j].status = "absent" /\ (i # j => row'[i] = row[i])
        BY <3>1, WriteStep, RowRecords
           DEF RouteLimited, RouteSendFails, Enqueue, RowClaim, Statuses, Active, Claimable
      <4> QED BY <4>1
    <3>2. CASE ~(RouteLimited(j) \/ RouteSendFails(j))
      BY <2>1, <2>5, <3>2 DEF RouteStep, RouteDropped, RoutePasses, RouteSendSucceeds, RouteLogs
    <3> QED BY <3>1, <3>2
  <2>6. ASSUME NEW j \in Rows, NEW s \in Slots, TaskStep(j, s) PROVE Final(i)
    <3>1. retries' = retries /\ (i # j => row'[i] = row[i])
      BY <2>6, TaskFrame
    <3>2. CASE i # j
      BY <3>1, <3>2
    <3>3. CASE i = j /\ s \in Holders(j)
      BY <3>1, <3>3 DEF RowClaim
    <3>4. CASE i = j /\ s \notin Holders(j)
      <4>1. row' = row \/ row[i].status \in Claimable
        BY <2>6, <3>4
           DEF TaskStep, Holders, Claim, ClaimLost, ChannelGone, Deferred, StartSend,
               SendSucceeds, MarkSent, RecordSuccess, SendFails, SendFailsForGood
      <4> QED BY <2>1, <4>1 DEF Claimable
    <3> QED BY <3>2, <3>3, <3>4
  <2> QED BY <2>2, <2>3, <2>4, <2>5, <2>6 DEF Next
<1> QED BY <1>1, TypeCorrect, ClaimsInit, ClaimsStep, PTL DEF Spec, OutcomeIsFinal

-----------------------------------------------------------------------------
(* Routing.                                                                 *)
RouteType ==
  [kind : RoutedKinds, count : Nat, only : Rules \cup {NoRule},
   step : {"none", "context", "rules", "sends", "over", "lost"}, plan : Schemes,
   left : SUBSET Rules, rule : Rules \cup {NoRule}, todo : SUBSET Targets,
   matched : BOOLEAN, delivered : BOOLEAN, failures : BOOLEAN]

RowStatuses == {"success", "failed", "quiet_hours", "no_available_channel", "unmatched"}
RowType == [rule : Rules \cup {NoRule}, target : Targets \cup {NoTarget}, status : RowStatuses]

(* The rules an event may meet, those it met, and those that took it.       *)
AskedOf(way) == {r \in Asked(way.plan, way.kind) : way.only \in {NoRule, r}}
MetBy(way)   == {r \in AskedOf(way) : Matches(way.plan.rule[r])}
TakenBy(way) == {r \in MetBy(way) : ~Holds(way.plan, r, way.count)}
DoneBy(way)  == TakenBy(way) \ way.left

PicksOf(way, r) == way.plan.rule[r].picks
NameFor(way, t) == IF way.plan.chan[t] = "gone" THEN NoTarget ELSE t
ToCome(way, r, t) == r = way.rule /\ t \in way.todo

(* The rules that are done with this channel, if it is on.                  *)
Served(way, t) ==
  {r \in DoneBy(way) : t \in PicksOf(way, r) /\ way.plan.chan[t] = "on" /\ ~ToCome(way, r, t)}

HasRow(told, r, t) == \E x \in told : x.rule = r /\ x.target = t

(* A row is of a rule that is done with its channel.                        *)
RowBelongs(way, x) ==
  /\ x.rule \in DoneBy(way)
  /\ \/ /\ x.target = NoTarget
        /\ \/ PicksOf(way, x.rule) = {}
           \/ \E t \in PicksOf(way, x.rule) : way.plan.chan[t] = "gone"
        /\ x.status = "no_available_channel"
     \/ /\ x.target \in PicksOf(way, x.rule) /\ way.plan.chan[x.target] # "gone"
        /\ ~ToCome(way, x.rule, x.target)

RuleTold(way, told, r) ==
  /\ PicksOf(way, r) = {} => HasRow(told, r, NoTarget)
  /\ \A t \in PicksOf(way, r) : ToCome(way, r, t) \/ HasRow(told, r, NameFor(way, t))

SameKey(x, y) == x.rule = y.rule /\ x.target = y.target

RowsSoFar(way, told) ==
  /\ \A x \in told : RowBelongs(way, x)
  /\ \A r \in DoneBy(way) : RuleTold(way, told, r)
  /\ \A x, y \in told : SameKey(x, y) => x = y
  /\ way.delivered <=> \E x \in told : x.status = "success"
  /\ way.failures <=> \E x \in told : x.status = "failed"

(* The rule whose sends are under way is done but for what is to come.      *)
CurrentOK(way) ==
  /\ way.left \subseteq AskedOf(way)
  /\ way.matched <=> MetBy(way) \ way.left # {}
  /\ way.step = "rules" => way.todo = {}
  /\ way.step = "sends" =>
       /\ way.rule \in DoneBy(way) /\ way.todo # {}
       /\ way.todo \subseteq {t \in PicksOf(way, way.rule) : way.plan.chan[t] = "on"}

UnmatchedRows(way) ==
  IF way.matched \/ ~TellsUnmatched(way) THEN {} ELSE {LogRow(NoRule, NoTarget, "unmatched")}

(* What an event left behind when it was over.                              *)
OverOK(way, told, status) ==
  /\ way.left = {} /\ way.todo = {}
  /\ way.matched <=> MetBy(way) # {}
  /\ \E sofar \in SUBSET RowType : RowsSoFar(way, sofar) /\ told = sofar \cup UnmatchedRows(way)
  /\ way.kind = "sms" => status = Outcome(way)

RouteKept(way) ==
  way.todo = {} /\ ~way.matched /\ ~way.delivered /\ ~way.failures

WaitsFor(w, e, t) == {x \in w : x[1] = e /\ x[3] = t}

EventOK(e, way, told, status, got, more, w) ==
  /\ way \in RouteType
  /\ told \subseteq RowType /\ IsFiniteSet(told)
  /\ way.step \in {"none", "context"} =>
       /\ RouteKept(way) /\ told = {}
       /\ \A t \in Targets : got[t] = 0 /\ WaitsFor(w, e, t) = {}
  /\ way.step \in {"rules", "sends"} => CurrentOK(way) /\ RowsSoFar(way, told)
  /\ way.step = "over" => OverOK(way, told, status)
  /\ way.step \notin {"none", "context"} =>
       \A t \in Targets :
         got[t] + Cardinality(WaitsFor(w, e, t)) <= more[t] + Cardinality(Served(way, t))

LaterType == [rule : Rules, target : Targets, status : {"success", "failed"}]

RouterOK ==
  /\ plan \in Schemes /\ night \in BOOLEAN /\ announced \in BOOLEAN
  /\ routed \in 0..MaxRouted /\ changes \in 0..MaxChanges /\ streak \in 0..MaxRouted
  /\ route \in [Routed -> RouteType] /\ rowsOf \in [Routed -> SUBSET RowType]
  /\ smsStatus \in [Routed -> {"pending", "success", "failed", "skipped"}]
  /\ waiting \subseteq Routed \X Rules \X Targets /\ IsFiniteSet(waiting)
  /\ givenUp \subseteq Routed \X Rules \X Targets
  /\ later \in [Routed -> SUBSET LaterType]
  /\ pushes \in [Routed -> [Targets -> Nat]] /\ again \in [Routed -> [Targets -> Nat]]

EventsOK ==
  \A e \in Routed : EventOK(e, route[e], rowsOf[e], smsStatus[e], pushes[e], again[e], waiting)

(* A version is not raised again while it is routed or after it was sent.   *)
AnnouncedInv ==
  /\ \A e \in Routed : e > routed => route[e].step = "none" /\ route[e].kind = "sms"
  /\ \A e \in Routed : e <= routed => route[e].step # "none"
  /\ \A e \in Routed :
       route[e].step = "over" /\ route[e].kind = "version" /\ route[e].delivered => announced
  /\ \A e, f \in Routed : e < f /\ route[e].kind = "version" /\ route[f].kind = "version" =>
       \/ route[e].step = "lost"
       \/ route[e].step = "over" /\ ~route[e].delivered

(* What the queue has, and what it wrote, follows a send that failed.       *)
Failed(told, r, t) == LogRow(r, t, "failed") \in told

QueueOK ==
  /\ \A w \in waiting \cup givenUp : Failed(rowsOf[w[1]], w[2], w[3])
  /\ \A e \in Routed : \A x \in later[e] : Failed(rowsOf[e], x.rule, x.target)

RoutingInv == RouterOK /\ EventsOK /\ AnnouncedInv /\ QueueOK

LEMMA SameIsBoolean == ASSUME NEW x, NEW y PROVE (x = y) \in BOOLEAN
OBVIOUS

LEMMA RoutingAtInit == RoutingInit => RoutingInv
<1> SUFFICES ASSUME RoutingInit PROVE RoutingInv
  OBVIOUS
<1>1. /\ Unrouted \in RouteType /\ Unrouted.step = "none" /\ Unrouted.kind = "sms"
      /\ RouteKept(Unrouted)
  BY DEF RoutingInit, Unrouted, RouteType, RoutedKinds, RouteKept
<1>2. /\ plan \in Schemes /\ night = FALSE /\ announced = FALSE
      /\ routed = 0 /\ changes = 0 /\ streak = 0
      /\ route = [e \in Routed |-> Unrouted] /\ rowsOf = [e \in Routed |-> {}]
      /\ smsStatus = [e \in Routed |-> "pending"] /\ waiting = {} /\ givenUp = {}
      /\ pushes = [e \in Routed |-> [t \in Targets |-> 0]] /\ again = pushes
      /\ later = [e \in Routed |-> {}]
  BY DEF RoutingInit
<1>3. RouterOK
  <2>1. MaxRouted \in Nat /\ MaxChanges \in Nat
    BY RoutingAssumption
  <2>2. 0 \in 0..MaxRouted /\ 0 \in 0..MaxChanges /\ {} \in SUBSET RowType
    BY <2>1
  <2>3. /\ route \in [Routed -> RouteType] /\ rowsOf \in [Routed -> SUBSET RowType]
        /\ smsStatus \in [Routed -> {"pending", "success", "failed", "skipped"}]
        /\ pushes \in [Routed -> [Targets -> Nat]] /\ again \in [Routed -> [Targets -> Nat]]
        /\ later \in [Routed -> SUBSET LaterType]
    BY <1>1, <1>2
  <2>4. IsFiniteSet(waiting) /\ waiting \subseteq Routed \X Rules \X Targets
        /\ givenUp \subseteq Routed \X Rules \X Targets
    BY <1>2, FS_EmptySet
  <2> QED BY <1>2, <2>2, <2>3, <2>4 DEF RouterOK
<1>4. EventsOK
  <2>1. \A e \in Routed : EventOK(e, Unrouted, {}, "pending", [t \in Targets |-> 0],
                                [t \in Targets |-> 0], {})
    BY <1>1, FS_EmptySet DEF EventOK, WaitsFor, RouteKept
  <2> QED BY <1>2, <2>1 DEF EventsOK
<1>5. AnnouncedInv
  BY <1>1, <1>2 DEF AnnouncedInv, Routed
<1>6. QueueOK
  BY <1>2 DEF QueueOK
<1> QED BY <1>3, <1>4, <1>5, <1>6 DEF RoutingInv

(* As long as no row is taken back, a step that gives the queue nothing     *)
(* leaves it as it should be.                                               *)
LEMMA QueueKept ==
  ASSUME RoutingInv, waiting' \cup givenUp' \subseteq waiting \cup givenUp, later' = later,
         \A f \in Routed : rowsOf[f] \subseteq rowsOf'[f]
  PROVE  QueueOK'
<1>1. /\ \A w \in waiting \cup givenUp : w[1] \in Routed /\ Failed(rowsOf[w[1]], w[2], w[3])
      /\ \A f \in Routed : \A x \in later[f] : Failed(rowsOf[f], x.rule, x.target)
  BY DEF RoutingInv, RouterOK, QueueOK
<1>2. ASSUME NEW w \in waiting' \cup givenUp' PROVE Failed(rowsOf'[w[1]], w[2], w[3])
  BY <1>1 DEF Failed
<1>3. ASSUME NEW f \in Routed, NEW x \in later'[f] PROVE Failed(rowsOf'[f], x.rule, x.target)
  BY <1>1 DEF Failed
<1> QED BY <1>2, <1>3 DEF QueueOK

(* One event moves; the others keep their tasks, told and what waits for    *)
(* them.                                                                    *)
LEMMA EventActs ==
  ASSUME RoutingInv, RouterOK', AnnouncedInv', QueueOK', NEW e \in Routed,
         \A f \in Routed \ {e} :
           /\ route'[f] = route[f] /\ rowsOf'[f] = rowsOf[f] /\ smsStatus'[f] = smsStatus[f]
           /\ pushes'[f] = pushes[f] /\ again'[f] = again[f]
           /\ \A t \in Targets : WaitsFor(waiting', f, t) = WaitsFor(waiting, f, t),
         EventOK(e, route'[e], rowsOf'[e], smsStatus'[e], pushes'[e], again'[e], waiting')
  PROVE  RoutingInv'
<1>1. \A f \in Routed \ {e} :
        EventOK(f, route'[f], rowsOf'[f], smsStatus'[f], pushes'[f], again'[f], waiting')
  BY DEF RoutingInv, EventsOK, EventOK
<1> QED BY <1>1 DEF RoutingInv, EventsOK

(* The flag and the kinds of the events stay: a step of this event may go   *)
(* on, but not leave an ending.                                             *)
LEMMA VersionsKept ==
  ASSUME RoutingInv, NEW e \in Routed, NEW new, route' = [route EXCEPT ![e] = new],
         routed' = routed, announced => announced', new.kind = route[e].kind,
         route[e].step \notin {"none", "over", "lost"}, new.step # "none",
         new.step = "over" /\ new.kind = "version" /\ new.delivered => announced'
  PROVE  AnnouncedInv'
<1>1. \A f \in Routed : route'[f] = IF f = e THEN new ELSE route[f]
  BY DEF RoutingInv, RouterOK
<1>2. e <= routed
  BY DEF RoutingInv, AnnouncedInv, RouterOK, Routed
<1>3. \A f \in Routed : e < f => ~(route[e].kind = "version" /\ route[f].kind = "version")
  BY DEF RoutingInv, AnnouncedInv
<1>4. \A f \in Routed : f > routed' => route'[f].step = "none" /\ route'[f].kind = "sms"
  BY <1>1, <1>2 DEF RoutingInv, AnnouncedInv, RouterOK, Routed
<1>5. \A f \in Routed : f <= routed' => route'[f].step # "none"
  BY <1>1 DEF RoutingInv, AnnouncedInv
<1>6. \A f \in Routed : route'[f].step = "over" /\ route'[f].kind = "version"
                        /\ route'[f].delivered => announced'
  BY <1>1 DEF RoutingInv, AnnouncedInv
<1>7. ASSUME NEW g \in Routed, NEW f \in Routed, g < f, route'[g].kind = "version",
             route'[f].kind = "version"
      PROVE  \/ route'[g].step = "lost"
             \/ route'[g].step = "over" /\ ~route'[g].delivered
  <2>1. route[g].kind = "version" /\ route[f].kind = "version"
    BY <1>1, <1>7
  <2>2. g # e
    BY <1>3, <1>7, <2>1
  <2> QED BY <1>1, <1>7, <2>1, <2>2 DEF RoutingInv, AnnouncedInv
<1> QED BY <1>4, <1>5, <1>6, <1>7 DEF AnnouncedInv

LEMMA ServedIsFinite ==
  ASSUME NEW way, NEW t, way \in RouteType
  PROVE  IsFiniteSet(Served(way, t)) /\ Cardinality(Served(way, t)) \in Nat
<1>1. Served(way, t) \in SUBSET Rules
  BY DEF Served, DoneBy, TakenBy, MetBy, AskedOf, Asked
<1>2. IsFiniteSet(Served(way, t))
  BY <1>1, RoutingAssumption, FS_Subset
<1> QED BY <1>2, FS_CardinalityType

LEMMA WaitsAreFinite ==
  ASSUME NEW w, NEW e, NEW t, IsFiniteSet(w)
  PROVE  IsFiniteSet(WaitsFor(w, e, t)) /\ Cardinality(WaitsFor(w, e, t)) \in Nat
<1>1. WaitsFor(w, e, t) \in SUBSET w
  BY DEF WaitsFor
<1>2. IsFiniteSet(WaitsFor(w, e, t))
  BY <1>1, FS_Subset
<1> QED BY <1>2, FS_CardinalityType

(* The rules of an event do not depend on how far it is.                    *)
LEMMA SameRules ==
  ASSUME NEW way, NEW new, new.plan = way.plan, new.kind = way.kind, new.only = way.only,
         new.count = way.count
  PROVE  /\ AskedOf(new) = AskedOf(way) /\ MetBy(new) = MetBy(way) /\ TakenBy(new) = TakenBy(way)
         /\ \A r : PicksOf(new, r) = PicksOf(way, r)
         /\ \A t : NameFor(new, t) = NameFor(way, t)
BY DEF AskedOf, MetBy, TakenBy, PicksOf, NameFor

LEMMA SameService ==
  ASSUME NEW way, NEW new, new.plan = way.plan, new.kind = way.kind, new.only = way.only,
         new.count = way.count, new.left = way.left, new.todo = way.todo, new.rule = way.rule
  PROVE  DoneBy(new) = DoneBy(way) /\ \A t : Served(new, t) = Served(way, t)
<1>1. DoneBy(new) = DoneBy(way)
  BY SameRules DEF DoneBy
<1> QED BY <1>1, SameRules DEF Served, ToCome

LEMMA TakePlanStep ==
  ASSUME RoutingInv, NEW e \in Routed, TakePlan(e) PROVE RoutingInv'
<1> DEFINE left == {r \in Asked(plan, route[e].kind) : route[e].only \in {NoRule, r}}
           new == [route[e] EXCEPT !.step = "rules", !.plan = plan, !.left = left]
<1>1. /\ route[e].step = "context" /\ route[e] \in RouteType /\ plan \in Schemes
      /\ EventOK(e, route[e], rowsOf[e], smsStatus[e], pushes[e], again[e], waiting)
      /\ route' = [route EXCEPT ![e] = new]
      /\ UNCHANGED <<plan, night, routed, rowsOf, smsStatus, waiting, streak, announced, pushes,
                     changes, later, givenUp, again>>
  BY DEF queued, TakePlan, RoutingInv, RouterOK, EventsOK
<1>2. left \subseteq Rules
  BY DEF Asked
<1>3. /\ new \in RouteType /\ new.step = "rules" /\ new.plan = plan /\ new.left = left
      /\ new.kind = route[e].kind /\ new.only = route[e].only /\ new.todo = route[e].todo
      /\ new.matched = route[e].matched /\ new.delivered = route[e].delivered
      /\ new.failures = route[e].failures
  BY <1>1, <1>2 DEF RouteType
<1> HIDE DEF new
<1>4. AskedOf(new) = left
  BY <1>3 DEF AskedOf
<1> HIDE DEF left
<1>5. MetBy(new) \ new.left = {} /\ DoneBy(new) = {}
  BY <1>3, <1>4 DEF MetBy, DoneBy, TakenBy
<1>6. /\ RouteKept(route[e]) /\ rowsOf[e] = {} /\ rowsOf[e] \subseteq RowType
      /\ \A t \in Targets : pushes[e][t] = 0 /\ WaitsFor(waiting, e, t) = {}
  BY <1>1 DEF EventOK
<1>7. CurrentOK(new)
  BY <1>3, <1>4, <1>5, <1>6 DEF CurrentOK, RouteKept
<1>8. RowsSoFar(new, {})
  BY <1>3, <1>5, <1>6 DEF RowsSoFar, RouteKept
<1>9. \A t \in Targets : pushes[e][t] + Cardinality(WaitsFor(waiting, e, t))
                           <= again[e][t] + Cardinality(Served(new, t))
  <2> SUFFICES ASSUME NEW t \in Targets
               PROVE  pushes[e][t] + Cardinality(WaitsFor(waiting, e, t))
                        <= again[e][t] + Cardinality(Served(new, t))
    OBVIOUS
  <2>1. pushes[e][t] = 0 /\ Cardinality(WaitsFor(waiting, e, t)) = 0
    BY <1>6, FS_EmptySet
  <2>2. Cardinality(Served(new, t)) \in Nat
    BY <1>3, ServedIsFinite
  <2>3. again[e][t] \in Nat
    BY DEF RoutingInv, RouterOK
  <2> QED BY <2>1, <2>2, <2>3
<1>10. EventOK(e, new, rowsOf[e], smsStatus[e], pushes[e], again[e], waiting)
  BY <1>3, <1>6, <1>7, <1>8, <1>9, FS_EmptySet DEF EventOK
<1>11. \A f \in Routed : route'[f] = IF f = e THEN new ELSE route[f]
  BY <1>1 DEF RoutingInv, RouterOK
<1>12. RouterOK'
  BY <1>1, <1>3 DEF RoutingInv, RouterOK
<1>13. AnnouncedInv' /\ QueueOK'
  BY <1>1, <1>3, VersionsKept, QueueKept
<1> QED BY <1>1, <1>10, <1>11, <1>12, <1>13, EventActs

LEMMA RaiseStep ==
  ASSUME RoutingInv, NEW kind \in RoutedKinds, NEW count \in Nat, NEW only \in Rules \cup {NoRule},
         Raise(kind, count, only),
         UNCHANGED <<plan, night, rowsOf, smsStatus, waiting, announced, pushes, changes, later,
                     givenUp, again>>,
         streak' \in 0..MaxRouted,
         kind = "version" => ~InRoute("version") /\ ~announced
  PROVE  RoutingInv'
<1> DEFINE e == routed + 1
           new == [route[e] EXCEPT !.kind = kind, !.count = count, !.only = only,
                                  !.step = "context"]
<1>1. e \in Routed /\ routed' = e
  BY RoutingAssumption DEF Raise, RoutingInv, RouterOK, Routed
<1>2. /\ route' = [route EXCEPT ![e] = new]
      /\ route[e] \in RouteType /\ route[e].step = "none"
      /\ EventOK(e, route[e], rowsOf[e], smsStatus[e], pushes[e], again[e], waiting)
  <2>1. route[e] \in RouteType
        /\ EventOK(e, route[e], rowsOf[e], smsStatus[e], pushes[e], again[e], waiting)
    BY <1>1 DEF RoutingInv, RouterOK, EventsOK
  <2>2. e > routed
    BY DEF RoutingInv, RouterOK
  <2>3. route[e].step = "none"
    BY <1>1, <2>2 DEF RoutingInv, AnnouncedInv
  <2>4. route' = [route EXCEPT ![e].kind = kind, ![e].count = count, ![e].only = only,
                               ![e].step = "context"]
    BY <1>1 DEF Raise
  <2>5. route' = [route EXCEPT ![e] = new]
    BY <2>4
  <2> QED BY <2>1, <2>3, <2>5
<1>3. /\ new \in RouteType /\ new.step = "context" /\ new.kind = kind
      /\ new.todo = route[e].todo
      /\ new.matched = route[e].matched /\ new.delivered = route[e].delivered
      /\ new.failures = route[e].failures
  BY <1>2 DEF RouteType
<1> HIDE DEF new
<1>4. EventOK(e, new, rowsOf[e], smsStatus[e], pushes[e], again[e], waiting)
  BY <1>2, <1>3 DEF EventOK, RouteKept
<1>5. \A f \in Routed : route'[f] = IF f = e THEN new ELSE route[f]
  BY <1>2 DEF RoutingInv, RouterOK
<1>6. RouterOK'
  BY <1>1, <1>2, <1>3, RoutingAssumption DEF RoutingInv, RouterOK, Routed
<1>7. AnnouncedInv'
  <2>1. /\ \A f \in Routed : f > routed' => route'[f].step = "none" /\ route'[f].kind = "sms"
        /\ \A f \in Routed : f <= routed' => route'[f].step # "none"
    BY <1>1, <1>3, <1>5 DEF RoutingInv, AnnouncedInv, RouterOK, Routed
  <2>2. \A f \in Routed : route'[f].step = "over" /\ route'[f].kind = "version"
                          /\ route'[f].delivered => announced'
    BY <1>3, <1>5 DEF RoutingInv, AnnouncedInv
  <2>3. ASSUME NEW g \in Routed, NEW f \in Routed, g < f, route'[g].kind = "version",
               route'[f].kind = "version"
        PROVE  \/ route'[g].step = "lost"
               \/ route'[g].step = "over" /\ ~route'[g].delivered
    <3>1. CASE f # e
      <4>1. g # e
        BY <1>1, <1>5, <2>3, <3>1 DEF RoutingInv, AnnouncedInv, RouterOK, Routed
      <4> QED BY <1>5, <2>3, <3>1, <4>1 DEF RoutingInv, AnnouncedInv
    <3>2. CASE f = e
      <4>1. g <= routed /\ g # e /\ kind = "version"
        BY <1>1, <1>3, <1>5, <2>3, <3>2 DEF Routed, RoutingInv, RouterOK
      <4>2. route[g].kind = "version" /\ route[g].step \notin {"none", "context", "rules", "sends"}
        BY <1>5, <2>3, <4>1 DEF InRoute, RoutingInv, AnnouncedInv
      <4>3. route[g].step \in {"over", "lost"}
        BY <4>2 DEF RoutingInv, RouterOK, RouteType
      <4>4. route[g].step = "over" => ~route[g].delivered
        BY <4>1, <4>2 DEF RoutingInv, AnnouncedInv
      <4> QED BY <1>5, <4>1, <4>3, <4>4
    <3> QED BY <3>1, <3>2
  <2> QED BY <2>1, <2>2, <2>3 DEF AnnouncedInv
<1>8. QueueOK'
  BY QueueKept
<1> QED BY <1>1, <1>4, <1>5, <1>6, <1>7, <1>8, EventActs

LEMMA RaisesStep ==
  ASSUME RoutingInv,
         \/ MessageComes \/ SyncEnds \/ VersionChecked \/ RunEnds \/ SystemEventComes \/ ReportDue
  PROVE  RoutingInv'
<1>1. streak \in 0..MaxRouted /\ 0 \in Nat
  BY DEF RoutingInv, RouterOK
<1>2. CASE MessageComes
  <2>1. "sms" \in RoutedKinds /\ "sms" # "version" /\ NoRule \in Rules \cup {NoRule}
    BY DEF RoutedKinds
  <2> QED BY <1>1, <1>2, <2>1, RaiseStep DEF queued, MessageComes
<1>3. CASE RunEnds
  <2>1. "automation" \in RoutedKinds /\ "automation" # "version" /\ NoRule \in Rules \cup {NoRule}
    BY DEF RoutedKinds
  <2> QED BY <1>1, <1>3, <2>1, RaiseStep DEF queued, RunEnds
<1>4. CASE SystemEventComes
  <2>1. "system" \in RoutedKinds /\ "system" # "version" /\ NoRule \in Rules \cup {NoRule}
    BY DEF RoutedKinds
  <2> QED BY <1>1, <1>4, <2>1, RaiseStep DEF queued, SystemEventComes
<1>5. CASE ReportDue
  <2>1. PICK r \in Asked(plan, "status") : Raise("status", 0, r)
    BY <1>5 DEF ReportDue
  <2>2. "status" \in RoutedKinds /\ "status" # "version" /\ r \in Rules \cup {NoRule}
    BY DEF RoutedKinds, Asked
  <2> QED BY <1>1, <1>5, <2>1, <2>2, RaiseStep DEF queued, ReportDue
<1>6. CASE VersionChecked
  <2>1. "version" \in RoutedKinds /\ NoRule \in Rules \cup {NoRule}
    BY DEF RoutedKinds
  <2> QED BY <1>1, <1>6, <2>1, RaiseStep DEF queued, VersionChecked
<1>7. CASE SyncEnds
  <2>1. PICK count \in {streak + 1, 0} :
          /\ streak < MaxRouted /\ streak' = count
          /\ UNCHANGED <<routed, route>> \/ Raise("ddns", count, NoRule)
    BY <1>7 DEF SyncEnds
  <2>2. count \in 0..MaxRouted /\ count \in Nat
    BY <1>1, <2>1, RoutingAssumption
  <2>3. UNCHANGED <<plan, night, rowsOf, smsStatus, waiting, announced, pushes, changes, later,
                    givenUp, again>>
    BY <1>7 DEF queued, SyncEnds
  <2>4. CASE UNCHANGED <<routed, route>>
    <3>1. RouterOK' /\ EventsOK' /\ AnnouncedInv' /\ QueueOK'
      BY <2>1, <2>2, <2>3, <2>4, QueueKept DEF RoutingInv, RouterOK, EventsOK, AnnouncedInv
    <3> QED BY <3>1 DEF RoutingInv
  <2>5. CASE Raise("ddns", count, NoRule)
    <3>1. "ddns" \in RoutedKinds /\ "ddns" # "version" /\ NoRule \in Rules \cup {NoRule}
      BY DEF RoutedKinds
    <3> QED BY <2>1, <2>2, <2>3, <2>5, <3>1, RaiseStep
  <2> QED BY <2>1, <2>4, <2>5
<1> QED BY <1>2, <1>3, <1>4, <1>5, <1>6, <1>7

(* The rows of a rule that took the event, but for those of its sends.      *)
RowsAtOnce(P, r) ==
  IF P.rule[r].picks = {} THEN {LogRow(r, NoTarget, "no_available_channel")}
  ELSE {Skipped(P, r, t) : t \in P.rule[r].picks \ Sends(P, r)}

LEMMA PlanIs ==
  ASSUME NEW P \in Schemes, NEW r \in Rules
  PROVE  P.rule[r].picks \subseteq Targets /\ \A t \in Targets : P.chan[t] \in {"on", "off", "gone"}
<1>1. P \in [rule : [Rules -> RuleType], chan : [Targets -> {"on", "off", "gone"}]]
  BY RoutingAssumption
<1> QED BY <1>1 DEF RuleType

LEMMA SkippedIs ==
  ASSUME NEW P \in Schemes, NEW r \in Rules, NEW t \in P.rule[r].picks
  PROVE  /\ Skipped(P, r, t) \in RowType /\ Skipped(P, r, t).rule = r
         /\ P.chan[t] = "gone" => Skipped(P, r, t) = LogRow(r, NoTarget, "no_available_channel")
         /\ P.chan[t] # "gone" =>
              /\ Skipped(P, r, t).target = t
              /\ Skipped(P, r, t).status = IF Quiet(P, r) THEN "quiet_hours"
                                                          ELSE "no_available_channel"
<1>1. t \in Targets
  BY PlanIs
<1>2. CASE P.chan[t] = "gone"
  BY <1>2 DEF Skipped, LogRow, RowType, RowStatuses
<1>3. CASE P.chan[t] # "gone"
  <2>1. Skipped(P, r, t) = LogRow(r, t, IF Quiet(P, r) THEN "quiet_hours"
                                                       ELSE "no_available_channel")
    BY <1>3 DEF Skipped
  <2>2. (IF Quiet(P, r) THEN "quiet_hours" ELSE "no_available_channel") \in RowStatuses
    BY DEF RowStatuses
  <2> QED BY <1>1, <1>3, <2>1, <2>2 DEF LogRow, RowType
<1> QED BY <1>2, <1>3

LEMMA RowsAtOnceAre ==
  ASSUME NEW P \in Schemes, NEW r \in Rules
  PROVE  /\ RowsAtOnce(P, r) \subseteq RowType /\ IsFiniteSet(RowsAtOnce(P, r))
         /\ \A x \in RowsAtOnce(P, r) :
              /\ x.rule = r /\ x.status \in {"quiet_hours", "no_available_channel"}
              /\ \/ /\ x = LogRow(r, NoTarget, "no_available_channel")
                    /\ \/ P.rule[r].picks = {}
                       \/ \E t \in P.rule[r].picks : P.chan[t] = "gone"
                 \/ /\ x.target \in P.rule[r].picks \ Sends(P, r) /\ P.chan[x.target] # "gone"
                    /\ x = Skipped(P, r, x.target)
         /\ P.rule[r].picks = {} => HasRow(RowsAtOnce(P, r), r, NoTarget)
         /\ \A t \in P.rule[r].picks \ Sends(P, r) :
              HasRow(RowsAtOnce(P, r), r, IF P.chan[t] = "gone" THEN NoTarget ELSE t)
<1> DEFINE picks == P.rule[r].picks
           S == picks \ Sends(P, r)
           none == LogRow(r, NoTarget, "no_available_channel")
<1>1. picks \subseteq Targets /\ IsFiniteSet(S)
  <2>1. picks \subseteq Targets
    BY PlanIs
  <2>2. S \in SUBSET Targets
    BY <2>1
  <2> QED BY <2>1, <2>2, RoutingAssumption, FS_Subset
<1>2. none \in RowType /\ none.rule = r /\ none.target = NoTarget
      /\ none.status = "no_available_channel"
  BY DEF LogRow, RowType, RowStatuses
<1>3. CASE picks = {}
  <2>1. RowsAtOnce(P, r) = {none}
    BY <1>3 DEF RowsAtOnce
  <2>2. IsFiniteSet({none})
    BY FS_Singleton
  <2> HIDE DEF none
  <2>3. HasRow({none}, r, NoTarget)
    BY <1>2 DEF HasRow
  <2> QED BY <1>2, <1>3, <2>1, <2>2, <2>3 DEF none
<1>4. CASE picks # {}
  <2> DEFINE T == {Skipped(P, r, t) : t \in S}
             f == [t \in S |-> Skipped(P, r, t)]
  <2>1. RowsAtOnce(P, r) = T
    BY <1>4 DEF RowsAtOnce
  <2>2. f \in Surjection(S, T)
    BY DEF Surjection
  <2>3. IsFiniteSet(T)
    BY <1>1, <2>2, FS_Surjection
  <2>4. ASSUME NEW x \in T
        PROVE  /\ x \in RowType /\ x.rule = r
               /\ x.status \in {"quiet_hours", "no_available_channel"}
               /\ \/ x = none /\ \E t \in picks : P.chan[t] = "gone"
                  \/ /\ x.target \in S /\ P.chan[x.target] # "gone" /\ x = Skipped(P, r, x.target)
    <3>1. PICK t \in S : x = Skipped(P, r, t)
      OBVIOUS
    <3>2. CASE P.chan[t] = "gone"
      BY <1>2, <3>1, <3>2, SkippedIs
    <3>3. CASE P.chan[t] # "gone"
      <4>1. x \in RowType /\ x.rule = r /\ x.target = t
            /\ x.status \in {"quiet_hours", "no_available_channel"}
        BY <3>1, <3>3, SkippedIs
      <4> QED BY <3>1, <3>3, <4>1
    <3> QED BY <3>2, <3>3
  <2>5. ASSUME NEW t \in S PROVE HasRow(T, r, IF P.chan[t] = "gone" THEN NoTarget ELSE t)
    <3>1. Skipped(P, r, t).rule = r
          /\ Skipped(P, r, t).target = IF P.chan[t] = "gone" THEN NoTarget ELSE t
      BY <1>2, SkippedIs
    <3> QED BY <3>1 DEF HasRow
  <2> HIDE DEF none, T
  <2> QED BY <1>4, <2>1, <2>3, <2>4, <2>5 DEF none
<1> QED BY <1>3, <1>4

(* A rule that does not take the event leaves no row.                       *)
LEMMA RowsOfUntaken ==
  ASSUME NEW way, NEW told, NEW new, NEW r \in way.left, way.todo = {}, RowsSoFar(way, told),
         r \notin TakenBy(way), new.left = way.left \ {r}, new.todo = {}, new.plan = way.plan,
         new.kind = way.kind, new.only = way.only, new.count = way.count,
         new.delivered = way.delivered, new.failures = way.failures
  PROVE  RowsSoFar(new, told)
<1>1. DoneBy(new) = DoneBy(way) /\ \A q : PicksOf(new, q) = PicksOf(way, q)
  BY SameRules DEF DoneBy
<1>2. \A q, t : ~ToCome(new, q, t) /\ ~ToCome(way, q, t) /\ NameFor(new, t) = NameFor(way, t)
  BY SameRules DEF ToCome
<1>3. \A x \in told : RowBelongs(new, x)
  BY <1>1, <1>2 DEF RowsSoFar, RowBelongs
<1>4. \A q \in DoneBy(new) : RuleTold(new, told, q)
  BY <1>1, <1>2 DEF RowsSoFar, RuleTold
<1> QED BY <1>3, <1>4 DEF RowsSoFar

LEMMA RowsOfTaken ==
  ASSUME NEW way, NEW told, NEW new, NEW r \in way.left, way.todo = {}, RowsSoFar(way, told),
         way.plan \in Schemes, r \in Rules,
         r \in TakenBy(way), new.left = way.left \ {r}, new.todo = Sends(way.plan, r),
         new.rule = r, new.plan = way.plan,
         new.kind = way.kind, new.only = way.only, new.count = way.count,
         new.delivered = way.delivered, new.failures = way.failures
  PROVE  RowsSoFar(new, told \cup RowsAtOnce(way.plan, r))
<1> DEFINE P == way.plan
           added == RowsAtOnce(P, r)
           all == told \cup added
<1>1. /\ DoneBy(new) = DoneBy(way) \cup {r} /\ r \notin DoneBy(way)
      /\ \A q : PicksOf(new, q) = PicksOf(way, q)
  BY SameRules DEF DoneBy
<1>2. \A q, t : ~ToCome(way, q, t) /\ NameFor(new, t) = NameFor(way, t)
                /\ (ToCome(new, q, t) <=> q = r /\ t \in Sends(P, r))
  BY SameRules DEF ToCome
<1>3. /\ \A x \in added :
           /\ x.rule = r /\ x.status \in {"quiet_hours", "no_available_channel"}
           /\ \/ /\ x = LogRow(r, NoTarget, "no_available_channel")
                 /\ \/ P.rule[r].picks = {}
                    \/ \E t \in P.rule[r].picks : P.chan[t] = "gone"
              \/ /\ x.target \in P.rule[r].picks \ Sends(P, r) /\ P.chan[x.target] # "gone"
                 /\ x = Skipped(P, r, x.target)
      /\ P.rule[r].picks = {} => HasRow(added, r, NoTarget)
      /\ \A t \in P.rule[r].picks \ Sends(P, r) :
           HasRow(added, r, IF P.chan[t] = "gone" THEN NoTarget ELSE t)
  BY RowsAtOnceAre
<1>4. P.rule[r].picks = PicksOf(way, r) /\ P = new.plan
  BY DEF PicksOf
<1>5. \A x \in told : RowBelongs(way, x) /\ x.rule # r
  BY <1>1 DEF RowsSoFar, RowBelongs
<1>6. P.rule[r].picks \subseteq Targets
  BY PlanIs
<1> HIDE DEF added, P
<1>7. \A x \in all : RowBelongs(new, x)
  <2>1. \A x \in told : RowBelongs(new, x)
    BY <1>1, <1>2, <1>5 DEF RowBelongs, P
  <2>2. ASSUME NEW x \in added PROVE RowBelongs(new, x)
    <3>1. x.rule \in DoneBy(new) /\ PicksOf(new, x.rule) = P.rule[r].picks
      BY <1>1, <1>3, <1>4
    <3>2. CASE /\ x = LogRow(r, NoTarget, "no_available_channel")
               /\ P.rule[r].picks = {} \/ \E t \in P.rule[r].picks : P.chan[t] = "gone"
      <4>1. x.target = NoTarget /\ x.status = "no_available_channel"
        BY <3>2 DEF LogRow
      <4> QED BY <1>4, <3>1, <3>2, <4>1 DEF RowBelongs
    <3>3. CASE x.target \in P.rule[r].picks \ Sends(P, r) /\ P.chan[x.target] # "gone"
      BY <1>2, <1>4, <3>1, <3>3 DEF RowBelongs
    <3> QED BY <1>3, <3>2, <3>3
  <2> QED BY <2>1, <2>2
<1>8. ASSUME NEW q \in DoneBy(new) PROVE RuleTold(new, all, q)
  <2>1. CASE q \in DoneBy(way)
    <3>1. RuleTold(way, told, q)
      BY <2>1 DEF RowsSoFar
    <3> QED BY <1>1, <1>2, <3>1 DEF RuleTold, HasRow
  <2>2. CASE q = r
    <3>1. PicksOf(new, r) = {} => HasRow(all, r, NoTarget)
      BY <1>1, <1>3, <1>4 DEF HasRow
    <3>2. ASSUME NEW t \in PicksOf(new, r)
          PROVE  ToCome(new, r, t) \/ HasRow(all, r, NameFor(new, t))
      <4>1. CASE t \in Sends(P, r)
        BY <1>2, <4>1
      <4>2. CASE t \notin Sends(P, r)
        <5>1. HasRow(added, r, NameFor(new, t))
          BY <1>1, <1>3, <1>4, <3>2, <4>2 DEF NameFor
        <5> QED BY <5>1 DEF HasRow
      <4> QED BY <4>1, <4>2
    <3> QED BY <2>2, <3>1, <3>2 DEF RuleTold
  <2> QED BY <1>1, <2>1, <2>2
<1>9. ASSUME NEW x \in all, NEW y \in all, SameKey(x, y) PROVE x = y
  <2>1. CASE x \in told /\ y \in told
    BY <1>9, <2>1 DEF RowsSoFar
  <2>2. CASE x \in added /\ y \in added
    <3>1. x.target = y.target
      BY <1>9 DEF SameKey
    <3>2. LogRow(r, NoTarget, "no_available_channel").target = NoTarget
      BY DEF LogRow
    <3>3. \A z \in added : z.target \in P.rule[r].picks => z.target # NoTarget
      BY <1>6, RoutingAssumption
    <3> QED BY <1>3, <2>2, <3>1, <3>2, <3>3
  <2>3. CASE x.rule # y.rule
    BY <1>9, <2>3 DEF SameKey
  <2> QED BY <1>3, <1>5, <2>1, <2>2, <2>3
<1>10. /\ new.delivered <=> \E x \in all : x.status = "success"
       /\ new.failures <=> \E x \in all : x.status = "failed"
  BY <1>3 DEF RowsSoFar
<1>11. RowsSoFar(new, all)
  BY <1>7, <1>8, <1>9, <1>10 DEF RowsSoFar
<1> QED BY <1>11 DEF added, P

LEMMA TakeRuleStep ==
  ASSUME RoutingInv, NEW e \in Routed, TakeRule(e) PROVE RoutingInv'
<1>1. /\ route[e].step = "rules" /\ route[e] \in RouteType
      /\ EventOK(e, route[e], rowsOf[e], smsStatus[e], pushes[e], again[e], waiting)
      /\ UNCHANGED <<plan, night, routed, smsStatus, waiting, streak, announced, pushes, changes,
                     later, givenUp, again>>
  BY DEF queued, TakeRule, RoutingInv, RouterOK, EventsOK
<1> DEFINE way == route[e]
           P == way.plan
           taken(r) == Matches(P.rule[r]) /\ ~Holds(P, r, way.count)
           todo(r) == IF taken(r) THEN Sends(P, r) ELSE {}
           step(r) == IF taken(r) /\ Sends(P, r) # {} THEN "sends" ELSE "rules"
           moved(r) == [way EXCEPT !.left = way.left \ {r}, !.rule = r,
                          !.matched = way.matched \/ Matches(P.rule[r]), !.todo = todo(r),
                          !.step = step(r)]
           added(r) == IF taken(r) THEN RowsAtOnce(P, r) ELSE {}
<1>2. PICK r \in way.left :
        /\ route' = [route EXCEPT ![e] = moved(r)]
        /\ rowsOf' = [rowsOf EXCEPT ![e] = rowsOf[e] \cup added(r)]
  <2>1. PICK r \in way.left :
          /\ route' = [route EXCEPT ![e].left = @ \ {r}, ![e].rule = r,
                          ![e].matched = @ \/ Matches(P.rule[r]),
                          ![e].todo = IF taken(r) THEN Sends(P, r) ELSE {},
                          ![e].step = IF taken(r) /\ Sends(P, r) # {} THEN "sends" ELSE @]
          /\ rowsOf' = [rowsOf EXCEPT ![e] = @ \cup
                IF ~taken(r) THEN {}
                ELSE IF P.rule[r].picks = {} THEN {LogRow(r, NoTarget, "no_available_channel")}
                ELSE {Skipped(P, r, t) : t \in P.rule[r].picks \ Sends(P, r)}]
    BY DEF TakeRule
  <2>2. route' = [route EXCEPT ![e] = moved(r)]
    BY <1>1, <2>1
  <2>3. rowsOf' = [rowsOf EXCEPT ![e] = rowsOf[e] \cup added(r)]
    BY <2>1 DEF RowsAtOnce
  <2> QED BY <2>2, <2>3
<1> DEFINE new == moved(r)
           told == rowsOf[e] \cup added(r)
<1>3. CurrentOK(way) /\ RowsSoFar(way, rowsOf[e]) /\ way.todo = {}
      /\ way.left \subseteq AskedOf(way) /\ rowsOf[e] \subseteq RowType /\ IsFiniteSet(rowsOf[e])
  BY <1>1 DEF EventOK, CurrentOK
<1>4. r \in Rules /\ P \in Schemes /\ r \in AskedOf(way)
      /\ (r \in TakenBy(way) <=> taken(r)) /\ (r \in MetBy(way) <=> Matches(P.rule[r]))
  BY <1>1, <1>3 DEF RouteType, TakenBy, MetBy
<1>5. /\ Sends(P, r) \subseteq {t \in PicksOf(way, r) : P.chan[t] = "on"}
      /\ Sends(P, r) \subseteq Targets
  BY <1>4, PlanIs DEF Sends, PicksOf
<1>6. todo(r) \subseteq Targets /\ step(r) \in {"sends", "rules"}
  BY <1>5
<1>7. (way.matched \/ Matches(P.rule[r])) \in BOOLEAN
  OBVIOUS
<1>8. /\ new \in RouteType /\ new.left = way.left \ {r} /\ new.rule = r
      /\ (new.matched <=> way.matched \/ Matches(P.rule[r]))
      /\ new.todo = todo(r) /\ new.step = step(r)
      /\ new.plan = way.plan /\ new.kind = way.kind /\ new.only = way.only
      /\ new.count = way.count /\ new.delivered = way.delivered /\ new.failures = way.failures
  BY <1>1, <1>4, <1>6, <1>7 DEF RouteType
<1> HIDE DEF new, moved
<1>9. RowsSoFar(new, told)
  <2>1. CASE taken(r)
    BY <1>3, <1>4, <1>8, <2>1, RowsOfTaken
  <2>2. CASE ~taken(r)
    <3>1. told = rowsOf[e] /\ new.todo = {} /\ r \notin TakenBy(way)
      BY <1>4, <1>8, <2>2
    <3>2. /\ new.left = way.left \ {r} /\ new.plan = way.plan /\ new.kind = way.kind
          /\ new.only = way.only /\ new.count = way.count
          /\ new.delivered = way.delivered /\ new.failures = way.failures
      BY <1>8
    <3> HIDE DEF told, way
    <3>3. RowsSoFar(new, rowsOf[e])
      BY <1>3, <3>1, <3>2, RowsOfUntaken
    <3> QED BY <3>1, <3>3
  <2> QED BY <2>1, <2>2
<1>10. told \subseteq RowType /\ IsFiniteSet(told)
  <2>1. added(r) \subseteq RowType /\ IsFiniteSet(added(r))
    BY <1>4, RowsAtOnceAre, FS_EmptySet
  <2> QED BY <1>3, <2>1, FS_Union
<1>11. DoneBy(way) \subseteq DoneBy(new) /\ r \notin DoneBy(way)
       /\ (taken(r) => r \in DoneBy(new))
  BY <1>4, <1>8, SameRules DEF DoneBy
<1>12. CurrentOK(new)
  <2>1. AskedOf(new) = AskedOf(way) /\ MetBy(new) = MetBy(way) /\ PicksOf(new, r) = PicksOf(way, r)
    BY <1>8, SameRules
  <2>2. new.matched <=> MetBy(new) \ new.left # {}
    BY <1>3, <1>4, <1>8, <2>1 DEF CurrentOK
  <2>3. new.step = "rules" => new.todo = {}
    BY <1>8
  <2>4. new.step = "sends" =>
          /\ new.rule \in DoneBy(new) /\ new.todo # {}
          /\ new.todo \subseteq {t \in PicksOf(new, new.rule) : new.plan.chan[t] = "on"}
    BY <1>5, <1>8, <1>11, <2>1
  <2> QED BY <1>3, <1>8, <2>1, <2>2, <2>3, <2>4 DEF CurrentOK
<1>13. ASSUME NEW t \in Targets
       PROVE  pushes[e][t] + Cardinality(WaitsFor(waiting, e, t))
                <= again[e][t] + Cardinality(Served(new, t))
  <2>1. Served(way, t) \in SUBSET Served(new, t)
    BY <1>8, <1>11, SameRules DEF Served, ToCome
  <2>2. IsFiniteSet(Served(new, t)) /\ Cardinality(Served(new, t)) \in Nat
    BY <1>8, ServedIsFinite
  <2>3. Cardinality(Served(way, t)) <= Cardinality(Served(new, t))
        /\ Cardinality(Served(way, t)) \in Nat
    BY <1>1, <2>1, <2>2, FS_Subset, ServedIsFinite
  <2>4. pushes[e][t] + Cardinality(WaitsFor(waiting, e, t))
          <= again[e][t] + Cardinality(Served(way, t))
    BY <1>1 DEF EventOK
  <2>5. /\ pushes[e][t] \in Nat /\ again[e][t] \in Nat
        /\ Cardinality(WaitsFor(waiting, e, t)) \in Nat
    BY WaitsAreFinite DEF RoutingInv, RouterOK
  <2> QED BY <2>2, <2>3, <2>4, <2>5
<1>14. new.step \in {"sends", "rules"}
  BY <1>6, <1>8
<1> HIDE DEF told
<1>15. EventOK(e, new, told, smsStatus[e], pushes[e], again[e], waiting)
  BY <1>8, <1>9, <1>10, <1>12, <1>13, <1>14 DEF EventOK
<1>16. /\ route' = [route EXCEPT ![e] = new] /\ rowsOf' = [rowsOf EXCEPT ![e] = told]
  BY <1>2 DEF new, told
<1>17. \A f \in Routed : /\ route'[f] = IF f = e THEN new ELSE route[f]
                         /\ rowsOf'[f] = IF f = e THEN told ELSE rowsOf[f]
  BY <1>16 DEF RoutingInv, RouterOK
<1>18. RouterOK'
  BY <1>1, <1>8, <1>10, <1>16 DEF RoutingInv, RouterOK
<1>19. AnnouncedInv'
  BY <1>1, <1>8, <1>14, <1>16, VersionsKept
<1>20. QueueOK'
  BY <1>1, <1>17, QueueKept DEF told
<1> QED BY <1>1, <1>15, <1>17, <1>18, <1>19, <1>20, EventActs

(* A send leaves its row, and the channel is served by one rule more.       *)
LEMMA SendLeavesRow ==
  ASSUME NEW way, NEW told, NEW new, NEW t \in way.todo, NEW sent \in BOOLEAN,
         way \in RouteType, way.step = "sends", CurrentOK(way), RowsSoFar(way, told),
         told \subseteq RowType,
         new.todo = way.todo \ {t}, new.left = way.left, new.rule = way.rule,
         new.plan = way.plan, new.kind = way.kind, new.only = way.only, new.count = way.count,
         new.delivered <=> way.delivered \/ sent, new.failures <=> way.failures \/ ~sent
  PROVE  RowsSoFar(new, told \cup {LogRow(way.rule, t, IF sent THEN "success" ELSE "failed")})
<1> DEFINE r == way.rule
           row1 == LogRow(r, t, IF sent THEN "success" ELSE "failed")
           all == told \cup {row1}
<1>1. row1.rule = r /\ row1.target = t /\ row1.status = IF sent THEN "success" ELSE "failed"
  BY DEF LogRow
<1>2. r \in DoneBy(way) /\ t \in PicksOf(way, r) /\ way.plan.chan[t] = "on" /\ t \in Targets
  BY DEF CurrentOK, RouteType
<1>3. /\ DoneBy(new) = DoneBy(way) /\ \A q : PicksOf(new, q) = PicksOf(way, q)
      /\ \A u : NameFor(new, u) = NameFor(way, u)
  BY SameRules DEF DoneBy
<1>4. \A q, u : ToCome(new, q, u) <=> ToCome(way, q, u) /\ u # t
  BY DEF ToCome
<1>5. ToCome(way, r, t) /\ NameFor(way, t) = t /\ t # NoTarget
  BY <1>2, RoutingAssumption DEF ToCome, NameFor
<1> HIDE DEF row1, r
<1>6. \A x \in all : RowBelongs(new, x)
  <2>1. \A x \in told : RowBelongs(new, x)
    BY <1>3, <1>4 DEF RowsSoFar, RowBelongs
  <2>2. RowBelongs(new, row1)
    BY <1>1, <1>2, <1>3, <1>4 DEF RowBelongs
  <2> QED BY <2>1, <2>2
<1>7. ASSUME NEW q \in DoneBy(new) PROVE RuleTold(new, all, q)
  <2>1. RuleTold(way, told, q)
    BY <1>3 DEF RowsSoFar
  <2>2. PicksOf(new, q) = {} => HasRow(all, q, NoTarget)
    BY <1>3, <2>1 DEF RuleTold, HasRow
  <2>3. ASSUME NEW u \in PicksOf(new, q) PROVE ToCome(new, q, u) \/ HasRow(all, q, NameFor(new, u))
    <3>1. CASE ToCome(way, q, u) /\ u = t
      <4>1. q = r
        BY <3>1 DEF ToCome, r
      <4>2. HasRow(all, q, t)
        BY <1>1, <4>1 DEF HasRow
      <4> QED BY <1>3, <1>5, <3>1, <4>2
    <3>2. CASE ToCome(way, q, u) /\ u # t
      BY <1>4, <3>2
    <3>3. CASE ~ToCome(way, q, u)
      BY <1>3, <2>1, <2>3, <3>3 DEF RuleTold, HasRow
    <3> QED BY <3>1, <3>2, <3>3
  <2> QED BY <2>2, <2>3 DEF RuleTold
<1>8. ASSUME NEW x \in told PROVE ~SameKey(x, row1)
  <2>1. RowBelongs(way, x)
    BY DEF RowsSoFar
  <2> QED BY <1>1, <1>5, <2>1 DEF SameKey, RowBelongs
<1>9. \A x, y \in all : SameKey(x, y) => x = y
  <2>1. \A x, y \in told : SameKey(x, y) => x = y
    BY DEF RowsSoFar
  <2>2. \A x \in told : ~SameKey(row1, x)
    BY <1>8 DEF SameKey
  <2> QED BY <1>8, <2>1, <2>2
<1>10. /\ new.delivered <=> \E x \in all : x.status = "success"
       /\ new.failures <=> \E x \in all : x.status = "failed"
  BY <1>1 DEF RowsSoFar
<1>11. RowsSoFar(new, all)
  BY <1>6, <1>7, <1>9, <1>10 DEF RowsSoFar
<1> QED BY <1>11 DEF row1, r

LEMMA ServedBySend ==
  ASSUME NEW way, NEW new, NEW t \in way.todo, way \in RouteType, way.step = "sends",
         CurrentOK(way),
         new.todo = way.todo \ {t}, new.left = way.left, new.rule = way.rule,
         new.plan = way.plan, new.kind = way.kind, new.only = way.only, new.count = way.count
  PROVE  /\ Cardinality(Served(new, t)) = Cardinality(Served(way, t)) + 1
         /\ \A u \in Targets \ {t} : Served(new, u) = Served(way, u)
<1>1. way.rule \in DoneBy(way) /\ t \in PicksOf(way, way.rule) /\ way.plan.chan[t] = "on"
  BY DEF CurrentOK
<1>2. DoneBy(new) = DoneBy(way) /\ \A q : PicksOf(new, q) = PicksOf(way, q)
  BY SameRules DEF DoneBy
<1>3. Served(new, t) = Served(way, t) \cup {way.rule} /\ way.rule \notin Served(way, t)
  BY <1>1, <1>2 DEF Served, ToCome
<1>4. \A u \in Targets \ {t} : Served(new, u) = Served(way, u)
  BY <1>2 DEF Served, ToCome
<1>5. IsFiniteSet(Served(way, t))
  BY ServedIsFinite
<1> QED BY <1>3, <1>4, <1>5, FS_AddElement

LEMMA OneMore ==
  ASSUME NEW S, NEW x, IsFiniteSet(S)
  PROVE  /\ IsFiniteSet(S \cup {x}) /\ Cardinality(S \cup {x}) \in Nat
         /\ Cardinality(S \cup {x}) <= Cardinality(S) + 1
<1>1. Cardinality(S) \in Nat
  BY FS_CardinalityType
<1>2. IsFiniteSet(S \cup {x})
      /\ Cardinality(S \cup {x}) = IF x \in S THEN Cardinality(S) ELSE Cardinality(S) + 1
  BY FS_AddElement
<1> QED BY <1>1, <1>2

LEMMA OneLess ==
  ASSUME NEW S, NEW x \in S, IsFiniteSet(S)
  PROVE  /\ IsFiniteSet(S \ {x}) /\ Cardinality(S \ {x}) \in Nat
         /\ Cardinality(S \ {x}) = Cardinality(S) - 1
<1>1. IsFiniteSet(S \ {x}) /\ Cardinality(S \ {x}) = Cardinality(S) - 1
  BY FS_RemoveElement
<1>2. Cardinality(S \ {x}) \in Nat
  BY <1>1, FS_CardinalityType
<1> QED BY <1>1, <1>2

LEMMA OneCell ==
  ASSUME NEW F \in [Routed -> [Targets -> Nat]], NEW e \in Routed, NEW t \in Targets, NEW G,
         G = [F EXCEPT ![e][t] = @ + 1]
  PROVE  /\ G \in [Routed -> [Targets -> Nat]] /\ G[e][t] = F[e][t] + 1
         /\ \A f \in Routed \ {e} : G[f] = F[f]
         /\ \A u \in Targets \ {t} : G[e][u] = F[e][u]
<1>1. G = [F EXCEPT ![e] = [F[e] EXCEPT ![t] = F[e][t] + 1]]
  OBVIOUS
<1>2. [F[e] EXCEPT ![t] = F[e][t] + 1] \in [Targets -> Nat]
  OBVIOUS
<1> QED BY <1>1, <1>2

LEMMA CostsAreTyped ==
  ASSUME RoutingInv, NEW some, Costs(some) PROVE changes' \in 0..MaxChanges
BY RoutingAssumption DEF Costs, RoutingInv, RouterOK

LEMMA SendToStep ==
  ASSUME RoutingInv, NEW e \in Routed, SendTo(e) PROVE RoutingInv'
<1> DEFINE way == route[e]
           r == way.rule
<1>1. /\ way.step = "sends" /\ way \in RouteType
      /\ EventOK(e, way, rowsOf[e], smsStatus[e], pushes[e], again[e], waiting)
      /\ UNCHANGED <<plan, night, routed, smsStatus, streak, announced, later, givenUp>>
  BY DEF SendTo, RoutingInv, RouterOK, EventsOK
<1>2. CurrentOK(way) /\ RowsSoFar(way, rowsOf[e])
      /\ rowsOf[e] \subseteq RowType /\ IsFiniteSet(rowsOf[e])
  BY <1>1 DEF EventOK
<1>3. PICK t \in way.todo, outcome \in {"sent", "queued", "refused"}, lost \in BOOLEAN :
        LET sent == outcome = "sent" IN
          /\ Costs(lost \/ outcome = "refused")
          /\ pushes' = IF sent \/ lost THEN Pushed(e, t) ELSE pushes
          /\ again' = IF outcome = "queued" /\ lost THEN OnceMore(e, t) ELSE again
          /\ waiting' = IF outcome = "queued" THEN waiting \cup {<<e, r, t>>} ELSE waiting
          /\ rowsOf' = [rowsOf EXCEPT ![e] = @ \cup
                          {LogRow(r, t, IF sent THEN "success" ELSE "failed")}]
          /\ route' = [route EXCEPT ![e].todo = @ \ {t},
                         ![e].delivered = @ \/ sent, ![e].failures = @ \/ ~sent,
                         ![e].step = IF route[e].todo = {t} THEN "rules" ELSE @]
  BY DEF SendTo
<1>4. t \in Targets /\ r \in Rules
  BY <1>1, <1>2 DEF RouteType, CurrentOK, DoneBy, TakenBy, MetBy, AskedOf, Asked
<1>5. PICK sent \in BOOLEAN : sent = (outcome = "sent")
  BY SameIsBoolean
<1> DEFINE step == IF way.todo = {t} THEN "rules" ELSE "sends"
           new == [way EXCEPT !.todo = way.todo \ {t}, !.delivered = way.delivered \/ sent,
                              !.failures = way.failures \/ ~sent, !.step = step]
           line1 == LogRow(r, t, IF sent THEN "success" ELSE "failed")
           told == rowsOf[e] \cup {line1}
<1>6. route' = [route EXCEPT ![e] = new] /\ rowsOf' = [rowsOf EXCEPT ![e] = told]
  BY <1>1, <1>3, <1>5
<1>7. (way.delivered \/ sent) \in BOOLEAN /\ (way.failures \/ ~sent) \in BOOLEAN
      /\ step \in {"rules", "sends"}
  OBVIOUS
<1>8. /\ new \in RouteType /\ new.todo = way.todo \ {t} /\ new.step = step
      /\ (new.delivered <=> way.delivered \/ sent) /\ (new.failures <=> way.failures \/ ~sent)
      /\ new.left = way.left /\ new.rule = way.rule /\ new.matched = way.matched
      /\ new.plan = way.plan /\ new.kind = way.kind /\ new.only = way.only
      /\ new.count = way.count
  BY <1>1, <1>7 DEF RouteType
<1>9. step = "rules" <=> way.todo \ {t} = {}
  BY <1>3
<1> HIDE DEF new, step
<1>10. RowsSoFar(new, told)
  BY <1>1, <1>2, <1>8, SendLeavesRow
<1>11. line1 \in RowType
  BY <1>4 DEF LogRow, RowType, RowStatuses
<1>12. told \subseteq RowType /\ IsFiniteSet(told)
  BY <1>2, <1>11, FS_AddElement
<1>13. CurrentOK(new)
  <2>1. /\ AskedOf(new) = AskedOf(way) /\ MetBy(new) = MetBy(way)
        /\ PicksOf(new, r) = PicksOf(way, r) /\ DoneBy(new) = DoneBy(way)
    BY <1>8, SameRules DEF DoneBy
  <2> QED BY <1>1, <1>2, <1>7, <1>8, <1>9, <2>1 DEF CurrentOK
<1>14. /\ waiting' \subseteq Routed \X Rules \X Targets /\ IsFiniteSet(waiting')
       /\ \/ waiting' = waiting
          \/ waiting' = waiting \cup {<<e, r, t>>} /\ ~sent
  <2>1. waiting \subseteq Routed \X Rules \X Targets /\ IsFiniteSet(waiting)
    BY DEF RoutingInv, RouterOK
  <2>2. CASE outcome = "queued"
    <3>1. waiting' = waiting \cup {<<e, r, t>>} /\ ~sent
      BY <1>3, <1>5, <2>2
    <3>2. IsFiniteSet(waiting')
      BY <2>1, <3>1, FS_AddElement
    <3>3. <<e, r, t>> \in Routed \X Rules \X Targets
      BY <1>4
    <3> QED BY <2>1, <3>1, <3>2, <3>3
  <2>3. CASE outcome # "queued"
    BY <1>3, <2>1, <2>3
  <2> QED BY <2>2, <2>3
<1>15. /\ pushes' \in [Routed -> [Targets -> Nat]] /\ again' \in [Routed -> [Targets -> Nat]]
       /\ \A f \in Routed \ {e} : pushes'[f] = pushes[f] /\ again'[f] = again[f]
       /\ \A u \in Targets \ {t} : pushes'[e][u] = pushes[e][u] /\ again'[e][u] = again[e][u]
       /\ \/ /\ waiting' = waiting /\ again'[e][t] = again[e][t]
             /\ pushes'[e][t] \in {pushes[e][t], pushes[e][t] + 1}
          \/ /\ waiting' = waiting \cup {<<e, r, t>>}
             /\ \/ pushes'[e][t] = pushes[e][t] /\ again'[e][t] = again[e][t]
                \/ pushes'[e][t] = pushes[e][t] + 1 /\ again'[e][t] = again[e][t] + 1
  <2>1. /\ pushes \in [Routed -> [Targets -> Nat]] /\ again \in [Routed -> [Targets -> Nat]]
    BY DEF RoutingInv, RouterOK
  <2>2. /\ Pushed(e, t) = [pushes EXCEPT ![e][t] = @ + 1]
        /\ OnceMore(e, t) = [again EXCEPT ![e][t] = @ + 1]
    BY DEF Pushed, OnceMore
  <2>3. /\ Pushed(e, t) \in [Routed -> [Targets -> Nat]]
        /\ Pushed(e, t)[e][t] = pushes[e][t] + 1
        /\ \A f \in Routed \ {e} : Pushed(e, t)[f] = pushes[f]
        /\ \A u \in Targets \ {t} : Pushed(e, t)[e][u] = pushes[e][u]
    BY <1>4, <2>1, <2>2, OneCell
  <2>4. /\ OnceMore(e, t) \in [Routed -> [Targets -> Nat]]
        /\ OnceMore(e, t)[e][t] = again[e][t] + 1
        /\ \A f \in Routed \ {e} : OnceMore(e, t)[f] = again[f]
        /\ \A u \in Targets \ {t} : OnceMore(e, t)[e][u] = again[e][u]
    BY <1>4, <2>1, <2>2, OneCell
  <2>5. \/ /\ waiting' = waiting /\ again' = again
           /\ pushes' \in {pushes, Pushed(e, t)}
        \/ /\ waiting' = waiting \cup {<<e, r, t>>}
           /\ \/ pushes' = pushes /\ again' = again
              \/ pushes' = Pushed(e, t) /\ again' = OnceMore(e, t)
    BY <1>3
  <2> QED BY <2>1, <2>3, <2>4, <2>5
<1>16. /\ \A f \in Routed \ {e} : \A u \in Targets :
            WaitsFor(waiting', f, u) = WaitsFor(waiting, f, u)
       /\ \A u \in Targets \ {t} : WaitsFor(waiting', e, u) = WaitsFor(waiting, e, u)
       /\ waiting' = waiting => WaitsFor(waiting', e, t) = WaitsFor(waiting, e, t)
       /\ waiting' = waiting \cup {<<e, r, t>>} =>
            WaitsFor(waiting', e, t) = WaitsFor(waiting, e, t) \cup {<<e, r, t>>}
  BY <1>14 DEF WaitsFor
<1>17. ASSUME NEW u \in Targets
       PROVE  pushes'[e][u] + Cardinality(WaitsFor(waiting', e, u))
                <= again'[e][u] + Cardinality(Served(new, u))
  <2>1. /\ pushes[e][u] + Cardinality(WaitsFor(waiting, e, u))
             <= again[e][u] + Cardinality(Served(way, u))
        /\ pushes[e][u] \in Nat /\ again[e][u] \in Nat
    BY <1>1 DEF EventOK, RoutingInv, RouterOK
  <2>2. /\ IsFiniteSet(WaitsFor(waiting, e, u)) /\ Cardinality(WaitsFor(waiting, e, u)) \in Nat
        /\ Cardinality(Served(way, u)) \in Nat
    BY <1>1, WaitsAreFinite, ServedIsFinite DEF RoutingInv, RouterOK
  <2>3. /\ Cardinality(Served(new, t)) = Cardinality(Served(way, t)) + 1
        /\ \A v \in Targets \ {t} : Served(new, v) = Served(way, v)
    BY <1>1, <1>2, <1>8, ServedBySend
  <2>4. CASE u # t
    BY <1>15, <1>16, <2>1, <2>3, <2>4
  <2>5. CASE u = t
    <3> DEFINE was == Cardinality(WaitsFor(waiting, e, t))
               is == Cardinality(WaitsFor(waiting', e, t))
               had == Cardinality(Served(way, t))
    <3>1. was \in Nat /\ had \in Nat /\ pushes[e][t] \in Nat /\ again[e][t] \in Nat
          /\ pushes[e][t] + was <= again[e][t] + had /\ Cardinality(Served(new, t)) = had + 1
      BY <2>1, <2>2, <2>3, <2>5
    <3>2. CASE /\ waiting' = waiting /\ again'[e][t] = again[e][t]
               /\ pushes'[e][t] \in {pushes[e][t], pushes[e][t] + 1}
      <4>1. is = was
        BY <1>16, <3>2
      <4> HIDE DEF is, was, had
      <4>2. pushes'[e][t] + is <= again'[e][t] + (had + 1)
        BY <3>1, <3>2, <4>1
      <4> QED BY <2>5, <3>1, <4>2 DEF is
    <3>3. CASE /\ waiting' = waiting \cup {<<e, r, t>>}
               /\ \/ pushes'[e][t] = pushes[e][t] /\ again'[e][t] = again[e][t]
                  \/ pushes'[e][t] = pushes[e][t] + 1 /\ again'[e][t] = again[e][t] + 1
      <4>1. IsFiniteSet(WaitsFor(waiting, e, t))
        BY <2>2, <2>5
      <4>2. is <= was + 1 /\ is \in Nat
        BY <1>16, <3>3, <4>1, OneMore
      <4> HIDE DEF is, was, had
      <4>3. pushes'[e][t] + is <= again'[e][t] + (had + 1)
        BY <3>1, <3>3, <4>2
      <4> QED BY <2>5, <3>1, <4>3 DEF is
    <3> QED BY <1>15, <3>2, <3>3
  <2> QED BY <2>4, <2>5
<1>22. QueueOK'
  <2>1. /\ \A f \in Routed : rowsOf[f] \subseteq rowsOf'[f]
        /\ LogRow(r, t, "failed") \in rowsOf'[e] \/ sent
    BY <1>4, <1>6 DEF RoutingInv, RouterOK
  <2>2. CASE waiting' = waiting
    BY <1>1, <2>1, <2>2, QueueKept
  <2>3. CASE waiting' = waiting \cup {<<e, r, t>>} /\ ~sent
    <3>1. /\ \A w \in waiting \cup givenUp : w[1] \in Routed /\ Failed(rowsOf[w[1]], w[2], w[3])
          /\ \A f \in Routed : \A x \in later[f] : Failed(rowsOf[f], x.rule, x.target)
      BY DEF RoutingInv, RouterOK, QueueOK
    <3>2. ASSUME NEW w \in waiting' \cup givenUp' PROVE Failed(rowsOf'[w[1]], w[2], w[3])
      <4>1. CASE w \in waiting \cup givenUp
        BY <2>1, <3>1, <4>1 DEF Failed
      <4>2. CASE w = <<e, r, t>>
        BY <2>1, <2>3, <4>2 DEF Failed
      <4> QED BY <1>1, <2>3, <4>1, <4>2
    <3>3. ASSUME NEW f \in Routed, NEW x \in later'[f] PROVE Failed(rowsOf'[f], x.rule, x.target)
      BY <1>1, <2>1, <3>1 DEF Failed
    <3> QED BY <3>2, <3>3 DEF QueueOK
  <2> QED BY <1>14, <2>2, <2>3
<1>18. EventOK(e, new, told, smsStatus[e], pushes'[e], again'[e], waiting')
  BY <1>7, <1>8, <1>10, <1>12, <1>13, <1>17 DEF EventOK
<1>19. \A f \in Routed : /\ route'[f] = IF f = e THEN new ELSE route[f]
                         /\ rowsOf'[f] = IF f = e THEN told ELSE rowsOf[f]
                         /\ f # e => pushes'[f] = pushes[f] /\ again'[f] = again[f]
  <2>1. \A f \in Routed : f # e => pushes'[f] = pushes[f] /\ again'[f] = again[f]
    BY <1>15
  <2> QED BY <1>6, <2>1 DEF RoutingInv, RouterOK
<1>20. RouterOK'
  <2>1. changes' \in 0..MaxChanges
    BY <1>3, CostsAreTyped
  <2> QED BY <1>1, <1>6, <1>8, <1>12, <1>14, <1>15, <2>1 DEF RoutingInv, RouterOK
<1>21. AnnouncedInv'
  BY <1>1, <1>6, <1>7, <1>8, VersionsKept
<1> QED BY <1>1, <1>16, <1>18, <1>19, <1>20, <1>21, <1>22, EventActs

LEMMA EndRouteStep ==
  ASSUME RoutingInv, NEW e \in Routed, EndRoute(e) PROVE RoutingInv'
<1> DEFINE way == route[e]
           new == [way EXCEPT !.step = "over"]
           told == rowsOf[e] \cup UnmatchedRows(way)
           status == IF way.kind # "sms" THEN smsStatus[e] ELSE Outcome(way)
<1>1. /\ way.step = "rules" /\ way.left = {} /\ way \in RouteType
      /\ EventOK(e, way, rowsOf[e], smsStatus[e], pushes[e], again[e], waiting)
      /\ route' = [route EXCEPT ![e] = new]
      /\ announced' = (announced \/ (way.kind = "version" /\ way.delivered))
      /\ UNCHANGED <<plan, night, routed, waiting, streak, pushes, changes, later, givenUp, again>>
  BY DEF queued, EndRoute, RoutingInv, RouterOK, EventsOK
<1>2. rowsOf' = [rowsOf EXCEPT ![e] = told]
  BY DEF EndRoute, UnmatchedRows
<1>3. /\ CurrentOK(way) /\ RowsSoFar(way, rowsOf[e])
      /\ rowsOf[e] \subseteq RowType /\ IsFiniteSet(rowsOf[e])
  BY <1>1 DEF EventOK
<1>4. /\ smsStatus' \in [Routed -> {"pending", "success", "failed", "skipped"}]
      /\ \A f \in Routed : smsStatus'[f] = IF f = e THEN status ELSE smsStatus[f]
  <2>1. smsStatus \in [Routed -> {"pending", "success", "failed", "skipped"}]
    BY DEF RoutingInv, RouterOK
  <2>2. Outcome(way) \in {"pending", "success", "failed", "skipped"}
    BY DEF Outcome
  <2>3. smsStatus' = IF way.kind # "sms" THEN smsStatus
                     ELSE [smsStatus EXCEPT ![e] = Outcome(way)]
    BY DEF EndRoute
  <2> QED BY <2>1, <2>2, <2>3
<1>5. /\ new \in RouteType /\ new.step = "over" /\ new.todo = way.todo /\ new.left = way.left
      /\ new.rule = way.rule /\ new.matched = way.matched /\ new.plan = way.plan
      /\ new.kind = way.kind /\ new.only = way.only /\ new.count = way.count
      /\ new.delivered = way.delivered /\ new.failures = way.failures
  BY <1>1 DEF RouteType
<1> HIDE DEF new
<1>6. UnmatchedRows(way) \subseteq RowType /\ IsFiniteSet(UnmatchedRows(way))
      /\ UnmatchedRows(new) = UnmatchedRows(way)
  <2>1. LogRow(NoRule, NoTarget, "unmatched") \in RowType
    BY DEF LogRow, RowType, RowStatuses
  <2>2. UnmatchedRows(new) = UnmatchedRows(way)
    BY <1>5 DEF UnmatchedRows, TellsUnmatched
  <2>3. UnmatchedRows(way) \in {{}, {LogRow(NoRule, NoTarget, "unmatched")}}
    BY DEF UnmatchedRows
  <2>4. UnmatchedRows(way) \subseteq RowType
    BY <2>1, <2>3
  <2>5. IsFiniteSet(UnmatchedRows(way))
    <3>1. IsFiniteSet({LogRow(NoRule, NoTarget, "unmatched")})
      BY FS_Singleton
    <3> QED BY <2>3, <3>1, FS_EmptySet
  <2> QED BY <2>2, <2>4, <2>5
<1>7. told \subseteq RowType /\ IsFiniteSet(told)
  BY <1>3, <1>6, FS_Union
<1>8. /\ MetBy(new) = MetBy(way) /\ DoneBy(new) = DoneBy(way)
      /\ \A t : Served(new, t) = Served(way, t)
      /\ \A q : PicksOf(new, q) = PicksOf(way, q)
      /\ \A t : NameFor(new, t) = NameFor(way, t)
  BY <1>5, SameRules, SameService
<1>9. RowsSoFar(new, rowsOf[e])
  BY <1>3, <1>5, <1>8 DEF RowsSoFar, RowBelongs, RuleTold, ToCome
<1>10. OverOK(new, told, status)
  <2>1. new.kind = "sms" => status = Outcome(new)
    BY <1>5 DEF Outcome
  <2>2. new.matched <=> MetBy(new) # {}
    BY <1>1, <1>3, <1>5, <1>8 DEF CurrentOK
  <2>3. new.left = {} /\ new.todo = {}
    BY <1>1, <1>3, <1>5 DEF CurrentOK
  <2>4. rowsOf[e] \in SUBSET RowType /\ told = rowsOf[e] \cup UnmatchedRows(new)
    BY <1>3, <1>6
  <2> HIDE DEF status, told
  <2> QED BY <1>9, <2>1, <2>2, <2>3, <2>4 DEF OverOK
<1> HIDE DEF status, told
<1>11. EventOK(e, new, told, status, pushes[e], again[e], waiting)
  BY <1>1, <1>5, <1>7, <1>8, <1>10 DEF EventOK
<1>12. \A f \in Routed : /\ route'[f] = IF f = e THEN new ELSE route[f]
                         /\ rowsOf'[f] = IF f = e THEN told ELSE rowsOf[f]
  BY <1>1, <1>2 DEF RoutingInv, RouterOK
<1>13. RouterOK'
  <2>1. announced' \in BOOLEAN
    BY <1>1
  <2> QED BY <1>1, <1>2, <1>4, <1>5, <1>7, <2>1 DEF RoutingInv, RouterOK
<1>14. AnnouncedInv'
  BY <1>1, <1>5, VersionsKept
<1>15. QueueOK'
  BY <1>1, <1>12, QueueKept DEF told
<1> QED BY <1>1, <1>4, <1>11, <1>12, <1>13, <1>14, <1>15, EventActs

(* The queue moves one of its items: what the channel got and the queue     *)
(* still has grows by no more than its lost answers and retries.            *)
LEMMA QueueActs ==
  ASSUME RoutingInv, NEW w \in waiting \cup givenUp,
         UNCHANGED <<plan, night, routed, route, rowsOf, smsStatus, streak, announced>>,
         changes' \in 0..MaxChanges,
         givenUp' \subseteq givenUp \cup {w},
         later' = later \/ \E status \in {"success", "failed"} : QueueWrites(w, status),
         pushes' \in {pushes, Pushed(w[1], w[3])}, again' \in {again, OnceMore(w[1], w[3])},
         \/ waiting' = waiting \ {w} /\ (w \in waiting \/ pushes' = pushes)
         \/ waiting' = waiting /\ again' = OnceMore(w[1], w[3])
         \/ waiting' = waiting \cup {w} /\ pushes' = pushes /\ again' = OnceMore(w[1], w[3])
  PROVE  RoutingInv'
<1> DEFINE e == w[1]
           t == w[3]
<1>1. /\ waiting \subseteq Routed \X Rules \X Targets /\ IsFiniteSet(waiting)
      /\ givenUp \subseteq Routed \X Rules \X Targets
      /\ later \in [Routed -> SUBSET LaterType]
      /\ pushes \in [Routed -> [Targets -> Nat]] /\ again \in [Routed -> [Targets -> Nat]]
  BY DEF RoutingInv, RouterOK
<1>2. e \in Routed /\ w[2] \in Rules /\ t \in Targets /\ Failed(rowsOf[e], w[2], t)
  BY <1>1 DEF RoutingInv, QueueOK
<1>3. /\ IsFiniteSet(waiting') /\ waiting' \subseteq Routed \X Rules \X Targets
      /\ givenUp' \subseteq Routed \X Rules \X Targets
  <2>1. w \in Routed \X Rules \X Targets
    BY <1>1
  <2>2. IsFiniteSet(waiting \ {w}) /\ IsFiniteSet(waiting \cup {w})
    BY <1>1, FS_AddElement, FS_RemoveElement
  <2>3. waiting' \in {waiting, waiting \ {w}, waiting \cup {w}}
    OBVIOUS
  <2> QED BY <1>1, <2>1, <2>2, <2>3
<1>4. \A f \in Routed : \A x \in later'[f] :
        x \in LaterType /\ (x \in later[f] \/ (f = e /\ x.rule = w[2] /\ x.target = t))
  <2>1. CASE later' = later
    BY <1>1, <2>1
  <2>2. CASE \E status \in {"success", "failed"} : QueueWrites(w, status)
    <3>1. PICK status \in {"success", "failed"} :
            later' = [later EXCEPT ![e] = @ \cup {LogRow(w[2], t, status)}]
      BY <2>2 DEF QueueWrites
    <3>2. /\ LogRow(w[2], t, status) \in LaterType
          /\ LogRow(w[2], t, status).rule = w[2] /\ LogRow(w[2], t, status).target = t
      BY <1>2 DEF LogRow, LaterType
    <3> HIDE DEF e, t
    <3> QED BY <1>1, <1>2, <3>1, <3>2
  <2> QED BY <2>1, <2>2
<1>5. later' \in [Routed -> SUBSET LaterType]
  <2>1. later' = later \/ \E status : later' = [later EXCEPT ![e] = @ \cup {LogRow(w[2], t, status)}]
    BY DEF QueueWrites
  <2>2. \E L : later' = [f \in Routed |-> L[f]]
    BY <1>1, <2>1
  <2> QED BY <1>4, <2>2
<1>6. /\ Pushed(e, t) \in [Routed -> [Targets -> Nat]]
      /\ Pushed(e, t)[e][t] = pushes[e][t] + 1
      /\ \A f \in Routed \ {e} : Pushed(e, t)[f] = pushes[f]
      /\ \A u \in Targets \ {t} : Pushed(e, t)[e][u] = pushes[e][u]
  BY <1>1, <1>2, OneCell DEF Pushed
<1>7. /\ OnceMore(e, t) \in [Routed -> [Targets -> Nat]]
      /\ OnceMore(e, t)[e][t] = again[e][t] + 1
      /\ \A f \in Routed \ {e} : OnceMore(e, t)[f] = again[f]
      /\ \A u \in Targets \ {t} : OnceMore(e, t)[e][u] = again[e][u]
  BY <1>1, <1>2, OneCell DEF OnceMore
<1>8. /\ pushes' \in [Routed -> [Targets -> Nat]] /\ again' \in [Routed -> [Targets -> Nat]]
      /\ \A f \in Routed \ {e} : pushes'[f] = pushes[f] /\ again'[f] = again[f]
      /\ \A u \in Targets \ {t} : pushes'[e][u] = pushes[e][u] /\ again'[e][u] = again[e][u]
      /\ pushes'[e][t] \in {pushes[e][t], pushes[e][t] + 1}
      /\ again'[e][t] \in {again[e][t], again[e][t] + 1}
  BY <1>1, <1>6, <1>7
<1>9. /\ \A f \in Routed \ {e} : \A u \in Targets :
           WaitsFor(waiting', f, u) = WaitsFor(waiting, f, u)
      /\ \A u \in Targets \ {t} : WaitsFor(waiting', e, u) = WaitsFor(waiting, e, u)
      /\ waiting' = waiting => WaitsFor(waiting', e, t) = WaitsFor(waiting, e, t)
      /\ waiting' = waiting \ {w} => WaitsFor(waiting', e, t) = WaitsFor(waiting, e, t) \ {w}
      /\ waiting' = waiting \cup {w} => WaitsFor(waiting', e, t) = WaitsFor(waiting, e, t) \cup {w}
      /\ w \in waiting => w \in WaitsFor(waiting, e, t)
  BY DEF WaitsFor
<1>10. EventOK(e, route[e], rowsOf[e], smsStatus[e], pushes[e], again[e], waiting)
       /\ route[e] \in RouteType
  BY <1>2 DEF RoutingInv, RouterOK, EventsOK
<1>11. route[e].step \notin {"none", "context"}
  BY <1>2, <1>10 DEF EventOK, Failed
<1> HIDE DEF e, t
<1>12. ASSUME NEW u \in Targets
       PROVE  pushes'[e][u] + Cardinality(WaitsFor(waiting', e, u))
                <= again'[e][u] + Cardinality(Served(route[e], u))
  <2>1. /\ pushes[e][u] + Cardinality(WaitsFor(waiting, e, u))
             <= again[e][u] + Cardinality(Served(route[e], u))
        /\ pushes[e][u] \in Nat /\ again[e][u] \in Nat
    BY <1>1, <1>2, <1>10, <1>11 DEF EventOK
  <2>2. /\ IsFiniteSet(WaitsFor(waiting, e, u)) /\ Cardinality(WaitsFor(waiting, e, u)) \in Nat
        /\ Cardinality(Served(route[e], u)) \in Nat
    BY <1>1, <1>10, WaitsAreFinite, ServedIsFinite
  <2>3. CASE u # t
    BY <1>8, <1>9, <2>1, <2>3
  <2>4. CASE u = t
    <3> DEFINE was == Cardinality(WaitsFor(waiting, e, t))
               is == Cardinality(WaitsFor(waiting', e, t))
               had == Cardinality(Served(route[e], t))
    <3>1. /\ was \in Nat /\ had \in Nat /\ pushes[e][t] \in Nat /\ again[e][t] \in Nat
          /\ pushes[e][t] + was <= again[e][t] + had /\ IsFiniteSet(WaitsFor(waiting, e, t))
      BY <2>1, <2>2, <2>4
    <3>2. CASE waiting' = waiting \ {w} /\ w \in waiting
      <4>1. is = was - 1 /\ is \in Nat
        BY <1>9, <3>1, <3>2, OneLess
      <4> HIDE DEF is, was, had
      <4>2. pushes'[e][t] + is <= again'[e][t] + had
        BY <1>8, <3>1, <4>1
      <4> QED BY <2>4, <4>2 DEF is, had
    <3>3. CASE waiting' = waiting \ {w} /\ w \notin waiting /\ pushes' = pushes
      <4>1. is = was
        <5>1. waiting' = waiting
          BY <3>3
        <5> QED BY <1>9, <5>1
      <4> HIDE DEF is, was, had
      <4>2. pushes'[e][t] + is <= again'[e][t] + had
        BY <1>8, <3>1, <3>3, <4>1
      <4> QED BY <2>4, <4>2 DEF is, had
    <3>4. CASE waiting' = waiting /\ again' = OnceMore(e, t)
      <4>1. is = was /\ again'[e][t] = again[e][t] + 1
        BY <1>7, <1>9, <3>4
      <4> HIDE DEF is, was, had
      <4>2. pushes'[e][t] + is <= again'[e][t] + had
        BY <1>8, <3>1, <4>1
      <4> QED BY <2>4, <4>2 DEF is, had
    <3>5. CASE waiting' = waiting \cup {w} /\ pushes' = pushes /\ again' = OnceMore(e, t)
      <4>1. is <= was + 1 /\ is \in Nat
        BY <1>9, <3>1, <3>5, OneMore
      <4>2. again'[e][t] = again[e][t] + 1
        BY <1>7, <3>5
      <4> HIDE DEF is, was, had
      <4>3. pushes'[e][t] + is <= again'[e][t] + had
        BY <3>1, <3>5, <4>1, <4>2
      <4> QED BY <2>4, <4>3 DEF is, had
    <3> QED BY <3>2, <3>3, <3>4, <3>5 DEF e, t
  <2> QED BY <2>3, <2>4
<1>13. EventOK(e, route[e], rowsOf[e], smsStatus[e], pushes'[e], again'[e], waiting')
  BY <1>10, <1>11, <1>12 DEF EventOK
<1>14. RouterOK' /\ AnnouncedInv'
  BY <1>3, <1>5, <1>8 DEF RoutingInv, RouterOK, AnnouncedInv
<1>15. QueueOK'
  <2>1. /\ \A v \in waiting \cup givenUp : Failed(rowsOf[v[1]], v[2], v[3])
        /\ \A f \in Routed : \A x \in later[f] : Failed(rowsOf[f], x.rule, x.target)
    BY DEF RoutingInv, QueueOK
  <2>2. ASSUME NEW v \in waiting' \cup givenUp' PROVE Failed(rowsOf'[v[1]], v[2], v[3])
    BY <2>1
  <2>3. ASSUME NEW f \in Routed, NEW x \in later'[f] PROVE Failed(rowsOf'[f], x.rule, x.target)
    BY <1>2, <1>4, <2>1
  <2> QED BY <2>2, <2>3 DEF QueueOK
<1> QED BY <1>2, <1>8, <1>9, <1>13, <1>14, <1>15, EventActs

LEMMA QueueStep ==
  ASSUME RoutingInv,
         QueueSends \/ QueueGivesUp \/ QueueSendsTwice \/ OperatorRetries \/ OperatorCancels
  PROVE  RoutingInv'
<1>1. changes \in 0..MaxChanges
  BY DEF RoutingInv, RouterOK
<1>2. CASE QueueSends
  <2>1. PICK w \in waiting : /\ waiting' = waiting \ {w} /\ pushes' = Pushed(w[1], w[3])
                             /\ QueueWrites(w, "success")
    BY <1>2 DEF QueueSends
  <2>2. UNCHANGED <<plan, night, routed, route, rowsOf, smsStatus, streak, announced, changes,
                    givenUp, again>>
    BY <1>2 DEF QueueSends
  <2> QED BY <1>1, <2>1, <2>2, QueueActs
<1>3. CASE QueueGivesUp
  <2>1. PICK w \in waiting, lost \in BOOLEAN :
          /\ waiting' = waiting \ {w} /\ givenUp' = givenUp \cup {w}
          /\ QueueWrites(w, "failed") /\ Costs(lost)
          /\ pushes' = IF lost THEN Pushed(w[1], w[3]) ELSE pushes
    BY <1>3 DEF QueueGivesUp
  <2>2. UNCHANGED <<plan, night, routed, route, rowsOf, smsStatus, streak, announced, again>>
    BY <1>3 DEF QueueGivesUp
  <2>3. changes' \in 0..MaxChanges
    BY <2>1, CostsAreTyped
  <2>4. pushes' \in {pushes, Pushed(w[1], w[3])}
    BY <2>1
  <2> QED BY <2>1, <2>2, <2>3, <2>4, QueueActs
<1>4. CASE QueueSendsTwice
  <2>1. PICK w \in waiting :
          /\ pushes' = Pushed(w[1], w[3]) /\ again' = OnceMore(w[1], w[3])
          /\ UNCHANGED later \/ QueueWrites(w, "success")
    BY <1>4 DEF QueueSendsTwice
  <2>2. UNCHANGED <<plan, night, routed, route, rowsOf, smsStatus, streak, announced, waiting,
                    givenUp>>
    BY <1>4 DEF QueueSendsTwice
  <2>3. changes' \in 0..MaxChanges
    BY <1>4, CostsAreTyped DEF QueueSendsTwice
  <2> QED BY <2>1, <2>2, <2>3, QueueActs
<1>5. CASE OperatorRetries
  <2>1. PICK w \in givenUp : /\ waiting' = waiting \cup {w} /\ givenUp' = givenUp \ {w}
                             /\ again' = OnceMore(w[1], w[3])
    BY <1>5 DEF OperatorRetries
  <2>2. UNCHANGED <<plan, night, routed, route, rowsOf, smsStatus, streak, announced, later,
                    pushes>>
    BY <1>5 DEF OperatorRetries
  <2>3. changes' \in 0..MaxChanges
    BY <1>5, CostsAreTyped DEF OperatorRetries
  <2> QED BY <2>1, <2>2, <2>3, QueueActs
<1>6. CASE OperatorCancels
  <2>1. PICK w \in waiting \cup givenUp : waiting' = waiting \ {w} /\ givenUp' = givenUp \ {w}
    BY <1>6 DEF OperatorCancels
  <2>2. UNCHANGED <<plan, night, routed, route, rowsOf, smsStatus, streak, announced, later,
                    pushes, again>>
    BY <1>6 DEF OperatorCancels
  <2>3. changes' \in 0..MaxChanges
    BY <1>6, CostsAreTyped DEF OperatorCancels
  <2> QED BY <2>1, <2>2, <2>3, QueueActs
<1> QED BY <1>2, <1>3, <1>4, <1>5, <1>6

LEMMA EditPlanStep == ASSUME RoutingInv, EditPlan PROVE RoutingInv'
<1>1. /\ plan' \in Schemes /\ night' \in BOOLEAN
      /\ UNCHANGED <<routed, route, rowsOf, smsStatus, waiting, streak, announced, pushes, later,
                     givenUp, again>>
  BY DEF queued, EditPlan, RoutingInv, RouterOK
<1>2. changes' \in 0..MaxChanges
  BY CostsAreTyped DEF EditPlan
<1>3. RouterOK'
  BY <1>1, <1>2 DEF RoutingInv, RouterOK
<1>4. EventsOK' /\ AnnouncedInv' /\ QueueOK'
  BY <1>1, QueueKept DEF RoutingInv, EventsOK, AnnouncedInv
<1> QED BY <1>3, <1>4 DEF RoutingInv

LEMMA RouterStopsStep == ASSUME RoutingInv, RouterStops PROVE RoutingInv'
<1> DEFINE lost(e) == IF route[e].step \in {"context", "rules", "sends"}
                      THEN [route[e] EXCEPT !.step = "lost"] ELSE route[e]
<1>1. /\ streak' = 0 /\ route' = [e \in Routed |-> lost(e)]
      /\ UNCHANGED <<plan, night, routed, rowsOf, smsStatus, waiting, announced, pushes, later,
                     givenUp, again>>
  BY DEF queued, RouterStops
<1>2. ASSUME NEW e \in Routed
      PROVE  /\ route'[e] \in RouteType
             /\ \/ route'[e] = route[e] /\ route[e].step \notin {"context", "rules", "sends"}
                \/ /\ route'[e].step = "lost" /\ route[e].step \in {"context", "rules", "sends"}
                   /\ \A t : Served(route'[e], t) = Served(route[e], t)
             /\ route'[e].kind = route[e].kind /\ route'[e].delivered = route[e].delivered
  <2>1. route[e] \in RouteType /\ route'[e] = lost(e)
    BY <1>1 DEF RoutingInv, RouterOK
  <2>2. CASE route[e].step \notin {"context", "rules", "sends"}
    BY <2>1, <2>2
  <2>3. CASE route[e].step \in {"context", "rules", "sends"}
    <3>1. /\ route'[e] \in RouteType /\ route'[e].step = "lost"
          /\ route'[e].plan = route[e].plan /\ route'[e].kind = route[e].kind
          /\ route'[e].only = route[e].only /\ route'[e].count = route[e].count
          /\ route'[e].left = route[e].left /\ route'[e].todo = route[e].todo
          /\ route'[e].rule = route[e].rule /\ route'[e].delivered = route[e].delivered
      BY <2>1, <2>3 DEF RouteType
    <3>2. \A t : Served(route'[e], t) = Served(route[e], t)
      BY <3>1, SameService
    <3> QED BY <2>3, <3>1, <3>2
  <2> QED BY <2>2, <2>3
<1>3. RouterOK'
  <2>1. Costs(TRUE)
    BY DEF RouterStops
  <2>2. changes' \in 0..MaxChanges
    BY <2>1, CostsAreTyped
  <2>3. 0 \in 0..MaxRouted
    BY RoutingAssumption
  <2>4. route' \in [Routed -> RouteType]
    <3>1. \A e \in Routed : lost(e) \in RouteType
      BY <1>1, <1>2
    <3> QED BY <1>1, <3>1
  <2> QED BY <1>1, <2>2, <2>3, <2>4 DEF RoutingInv, RouterOK
<1>4. ASSUME NEW e \in Routed
      PROVE  EventOK(e, route'[e], rowsOf[e], smsStatus[e], pushes[e], again[e], waiting)
  <2>1. EventOK(e, route[e], rowsOf[e], smsStatus[e], pushes[e], again[e], waiting)
    BY DEF RoutingInv, EventsOK
  <2>2. CASE route'[e] = route[e]
    BY <2>1, <2>2
  <2>3. CASE /\ route'[e].step = "lost" /\ route[e].step \in {"context", "rules", "sends"}
             /\ \A t : Served(route'[e], t) = Served(route[e], t)
    <3>1. ASSUME NEW t \in Targets
          PROVE  pushes[e][t] + Cardinality(WaitsFor(waiting, e, t))
                   <= again[e][t] + Cardinality(Served(route'[e], t))
      <4>1. CASE route[e].step = "context"
        <5>1. pushes[e][t] = 0 /\ WaitsFor(waiting, e, t) = {}
          BY <2>1, <4>1 DEF EventOK
        <5>2. Cardinality(Served(route'[e], t)) \in Nat /\ again[e][t] \in Nat
          BY <1>2, ServedIsFinite DEF RoutingInv, RouterOK
        <5>3. Cardinality(WaitsFor(waiting, e, t)) = 0
          BY <5>1, FS_EmptySet
        <5> QED BY <5>1, <5>2, <5>3
      <4>2. CASE route[e].step \in {"rules", "sends"}
        BY <2>1, <2>3, <4>2 DEF EventOK
      <4> QED BY <2>3, <4>1, <4>2
    <3> QED BY <1>2, <2>1, <2>3, <3>1 DEF EventOK
  <2> QED BY <1>2, <2>2, <2>3
<1>5. EventsOK'
  BY <1>1, <1>4 DEF EventsOK
<1>6. AnnouncedInv'
  <2>1. /\ \A e \in Routed : e > routed' => route'[e].step = "none" /\ route'[e].kind = "sms"
        /\ \A e \in Routed : e <= routed' => route'[e].step # "none"
    BY <1>1, <1>2 DEF RoutingInv, AnnouncedInv
  <2>2. \A e \in Routed : route'[e].step = "over" /\ route'[e].kind = "version"
                          /\ route'[e].delivered => announced'
    BY <1>1, <1>2 DEF RoutingInv, AnnouncedInv
  <2>3. \A e, f \in Routed : e < f /\ route'[e].kind = "version" /\ route'[f].kind = "version" =>
          \/ route'[e].step = "lost"
          \/ route'[e].step = "over" /\ ~route'[e].delivered
    BY <1>2 DEF RoutingInv, AnnouncedInv
  <2> QED BY <2>1, <2>2, <2>3 DEF AnnouncedInv
<1>7. QueueOK'
  BY <1>1, QueueKept
<1> QED BY <1>3, <1>5, <1>6, <1>7 DEF RoutingInv

LEMMA RoutingStays == ASSUME RoutingInv, UNCHANGED routing PROVE RoutingInv'
<1>1. UNCHANGED <<plan, night, routed, route, rowsOf, smsStatus, waiting, streak, announced,
                  pushes, changes, later, givenUp, again>>
  BY DEF queued, routing
<1>2. QueueOK'
  BY <1>1, QueueKept
<1> QED BY <1>1, <1>2 DEF RoutingInv, RouterOK, EventsOK, AnnouncedInv

LEMMA RoutingInvStep == ASSUME RoutingInv, RoutingNext PROVE RoutingInv'
<1>1. CASE \/ MessageComes \/ SyncEnds \/ VersionChecked \/ RunEnds \/ SystemEventComes \/ ReportDue
  BY <1>1, RaisesStep
<1>2. CASE \/ QueueSends \/ QueueGivesUp \/ QueueSendsTwice \/ OperatorRetries \/ OperatorCancels
           \/ EditPlan \/ RouterStops
  BY <1>2, QueueStep, EditPlanStep, RouterStopsStep
<1>3. CASE \E e \in Routed : TakePlan(e) \/ TakeRule(e) \/ SendTo(e) \/ EndRoute(e)
  BY <1>3, TakePlanStep, TakeRuleStep, SendToStep, EndRouteStep
<1> QED BY <1>1, <1>2, <1>3 DEF RoutingNext

LEMMA RoutingInvAlways == RemoteSpec => []RoutingInv
<1>1. RemoteInit => RoutingInv
  BY RoutingAtInit DEF RemoteInit
<1>2. RoutingInv /\ [RemoteNext]_<<area, vars, hubLife, ddns, simCard, callLog, simRecords,
                                   routing, cellScan>> => RoutingInv'
  BY RoutingInvStep, RoutingStays DEF RemoteNext
<1> QED BY <1>1, <1>2, PTL DEF RemoteSpec

(* Different rows have different keys, so that there are as many.           *)
LEMMA AsManyKeys ==
  ASSUME NEW told, IsFiniteSet(told), \A x, y \in told : SameKey(x, y) => x = y
  PROVE  Cardinality(told) = Cardinality({<<x.rule, x.target>> : x \in told})
<1> DEFINE K == {<<x.rule, x.target>> : x \in told}
           f == [x \in told |-> <<x.rule, x.target>>]
<1>1. f \in Surjection(told, K)
  BY DEF Surjection
<1>2. \A x, y \in told : f[x] = f[y] => x = y
  BY DEF SameKey
<1>3. f \in Bijection(told, K)
  <2>1. f \in Injection(told, K)
    BY <1>2 DEF Injection, IsInjective
  <2> QED BY <1>1, <2>1 DEF Bijection
<1>4. ExistsBijection(told, K)
  BY <1>3 DEF ExistsBijection
<1> QED BY <1>4, FS_Bijection

LEMMA OverIsComplete ==
  ASSUME RoutingInv, NEW e \in Routed, Over(e)
  PROVE  RowsComplete(e) /\ (route[e].kind = "sms" => StatusTrue(e))
         /\ (OfStatus(e, "success") # {} => route[e].delivered)
<1> DEFINE way == route[e]
           P == way.plan
           told == rowsOf[e]
           last == LogRow(NoRule, NoTarget, "unmatched")
<1>1. way.step = "over" /\ way \in RouteType /\ OverOK(way, told, smsStatus[e])
      /\ told \subseteq RowType /\ IsFiniteSet(told)
  BY DEF Over, RoutingInv, RouterOK, EventsOK, EventOK
<1>2. /\ way.left = {} /\ way.todo = {} /\ (way.matched <=> MetBy(way) # {})
      /\ way.kind = "sms" => smsStatus[e] = Outcome(way)
  BY <1>1 DEF OverOK
<1>3. PICK sofar \in SUBSET RowType : RowsSoFar(way, sofar) /\ told = sofar \cup UnmatchedRows(way)
  BY <1>1 DEF OverOK
<1>4. Met(e) = MetBy(way) /\ Taken(e) = TakenBy(way) /\ DoneBy(way) = TakenBy(way)
      /\ TakenBy(way) \subseteq MetBy(way) /\ TakenBy(way) \subseteq Rules
  <2>1. Met(e) = MetBy(way)
    BY DEF Met, Hit, MetBy, AskedOf
  <2>2. Taken(e) = TakenBy(way)
    BY <2>1 DEF Taken, TakenBy
  <2> QED BY <1>2, <2>1, <2>2 DEF DoneBy, TakenBy, MetBy, AskedOf, Asked
<1>5. last.rule = NoRule /\ last.target = NoTarget /\ last.status = "unmatched"
  BY DEF LogRow
<1>6. UnmatchedRows(way) = IF Met(e) = {} /\ TellsUnmatched(way) THEN {last} ELSE {}
  BY <1>2, <1>4 DEF UnmatchedRows
<1>7. \A q, t : ~ToCome(way, q, t)
  BY <1>2 DEF ToCome
<1> DEFINE Named(t) == IF P.chan[t] = "gone" THEN NoTarget ELSE t
           pairs == UNION {{<<r, Named(t)>> : t \in P.rule[r].picks} : r \in Taken(e)}
           empty == {r \in Taken(e) : P.rule[r].picks = {}}
           final == IF Met(e) = {} /\ TellsUnmatched(way) THEN {<<NoRule, NoTarget>>} ELSE {}
           keys == {<<x.rule, x.target>> : x \in told}
<1> HIDE DEF last
<1>8. ASSUME NEW x \in sofar PROVE <<x.rule, x.target>> \in pairs \cup (empty \X {NoTarget})
  <2>1. RowBelongs(way, x) /\ x.rule \in Taken(e)
    BY <1>3, <1>4 DEF RowsSoFar, RowBelongs
  <2>2. CASE x.target = NoTarget /\ P.rule[x.rule].picks = {}
    BY <2>1, <2>2
  <2>3. ASSUME NEW t \in P.rule[x.rule].picks, x.target = Named(t)
        PROVE  <<x.rule, x.target>> \in pairs
    BY <2>1, <2>3
  <2>4. \/ x.target = NoTarget /\ P.rule[x.rule].picks = {}
        \/ \E t \in P.rule[x.rule].picks : x.target = Named(t)
    BY <2>1 DEF RowBelongs, PicksOf
  <2> QED BY <2>2, <2>3, <2>4
<1>9. ASSUME NEW k \in pairs \cup (empty \X {NoTarget})
      PROVE  \E x \in sofar : k = <<x.rule, x.target>>
  <2>1. CASE k \in pairs
    <3>1. PICK r \in Taken(e) : \E t \in P.rule[r].picks : k = <<r, Named(t)>>
      BY <2>1
    <3>2. PICK t \in P.rule[r].picks : k = <<r, Named(t)>>
      BY <3>1
    <3>3. HasRow(sofar, r, Named(t))
      BY <1>3, <1>4, <1>7 DEF RowsSoFar, RuleTold, PicksOf, NameFor
    <3> QED BY <3>2, <3>3 DEF HasRow
  <2>2. CASE k \in empty \X {NoTarget}
    <3>1. PICK r \in empty : k = <<r, NoTarget>>
      BY <2>2
    <3>2. HasRow(sofar, r, NoTarget)
      BY <1>3, <1>4, <3>1 DEF RowsSoFar, RuleTold, PicksOf
    <3> QED BY <3>1, <3>2 DEF HasRow
  <2> QED BY <2>1, <2>2
<1>10. keys = pairs \cup (empty \X {NoTarget}) \cup final
  <2>1. ASSUME NEW x \in told
        PROVE  <<x.rule, x.target>> \in pairs \cup (empty \X {NoTarget}) \cup final
    <3>1. CASE x \in sofar
      BY <1>8, <3>1
    <3>2. CASE x \in UnmatchedRows(way)
      BY <1>5, <1>6, <3>2
    <3> QED BY <1>3, <3>1, <3>2
  <2>2. ASSUME NEW k \in pairs \cup (empty \X {NoTarget}) \cup final PROVE k \in keys
    <3>1. CASE k \in pairs \cup (empty \X {NoTarget})
      BY <1>3, <1>9, <3>1
    <3>2. CASE k \in final
      <4>1. last \in told /\ k = <<NoRule, NoTarget>>
        BY <1>3, <1>6, <3>2
      <4> QED BY <1>5, <4>1
    <3> QED BY <3>1, <3>2
  <2> QED BY <2>1, <2>2
<1>11. \A x, y \in told : SameKey(x, y) => x = y
  <2>1. \A x \in sofar : x.rule \in Rules
    BY <1>3, <1>4 DEF RowsSoFar, RowBelongs
  <2>2. \A x \in sofar : x.rule # NoRule
    BY <2>1, RoutingAssumption
  <2>3. \A x \in told : x \in sofar \/ x = last
    BY <1>3, <1>6
  <2> QED BY <1>3, <1>5, <2>2, <2>3 DEF RowsSoFar, SameKey
<1>12. Cardinality(told) = Cardinality(keys)
  BY <1>1, <1>11, AsManyKeys
<1>13. RowsComplete(e)
  <2> HIDE DEF keys, pairs, empty, final
  <2> QED BY <1>10, <1>12 DEF RowsComplete, keys, pairs, empty, final
<1>14. /\ OfStatus(e, "success") # {} <=> way.delivered
       /\ OfStatus(e, "failed") # {} <=> way.failures
  <2>1. \A x \in told : x \in sofar \/ x.status = "unmatched"
    BY <1>3, <1>5, <1>6
  <2>2. sofar \subseteq told
    BY <1>3
  <2> QED BY <1>3, <2>1, <2>2 DEF RowsSoFar, OfStatus
<1>15. way.kind = "sms" => StatusTrue(e)
  BY <1>2, <1>14 DEF StatusTrue, Outcome
<1> QED BY <1>13, <1>14, <1>15

(* An event is routed by the settings it began with: the rows of its        *)
(* routing and its status are complete, and the queue adds rows only where  *)
(* a send of it failed; a channel gets it once for a rule at most, the      *)
(* queue's pushes included, and once more for each answer that was lost and *)
(* each retry of the operator; and a version that its routing sent is not   *)
(* announced again.                                                         *)
(* (route_event_for_rule, send_text_to_channel_with_queue,                  *)
(* process_notification_queue_item)                                         *)
THEOREM EventsAreRoutedAsPlanned == RemoteSpec => []RoutedAsPlanned
<1>1. RoutingInv => RoutedAsPlanned
  <2> SUFFICES ASSUME RoutingInv, NEW e \in Routed
               PROVE  /\ Over(e) => RowsComplete(e) /\ (route[e].kind = "sms" => StatusTrue(e))
                      /\ LaterRowsFollow(e)
                      /\ \A t \in Targets :
                           pushes[e][t] + Cardinality({w \in waiting : w[1] = e /\ w[3] = t})
                             <= again[e][t] + Cardinality({r \in Met(e) :
                                                /\ t \in route[e].plan.rule[r].picks
                                                /\ route[e].plan.chan[t] = "on"})
                      /\ Over(e) /\ route[e].kind = "version" /\ OfStatus(e, "success") # {} =>
                           \A f \in Routed : f > e => route[f].kind # "version"
    BY DEF RoutedAsPlanned
  <2>1. Over(e) => RowsComplete(e) /\ (route[e].kind = "sms" => StatusTrue(e))
    BY OverIsComplete
  <2>2. ASSUME NEW t \in Targets
        PROVE  pushes[e][t] + Cardinality({w \in waiting : w[1] = e /\ w[3] = t})
                 <= again[e][t] + Cardinality({r \in Met(e) :
                                     /\ t \in route[e].plan.rule[r].picks
                                     /\ route[e].plan.chan[t] = "on"})
    <3> DEFINE all == {r \in Met(e) : /\ t \in route[e].plan.rule[r].picks
                                      /\ route[e].plan.chan[t] = "on"}
               wait == {w \in waiting : w[1] = e /\ w[3] = t}
    <3>1. /\ EventOK(e, route[e], rowsOf[e], smsStatus[e], pushes[e], again[e], waiting)
          /\ route[e] \in RouteType /\ IsFiniteSet(waiting)
          /\ pushes[e][t] \in Nat /\ again[e][t] \in Nat
      BY DEF RoutingInv, RouterOK, EventsOK
    <3>2. all \in SUBSET Rules
      BY DEF Met, Hit, Asked
    <3>3. IsFiniteSet(all)
      BY <3>2, RoutingAssumption, FS_Subset
    <3>4. Cardinality(all) \in Nat
      BY <3>3, FS_CardinalityType
    <3>5. wait = WaitsFor(waiting, e, t) /\ Cardinality(wait) \in Nat
      <4>1. wait = WaitsFor(waiting, e, t)
        BY DEF WaitsFor
      <4> QED BY <3>1, <4>1, WaitsAreFinite
    <3>6. CASE route[e].step \in {"none", "context"}
      <4>1. pushes[e][t] = 0 /\ WaitsFor(waiting, e, t) = {}
        BY <3>1, <3>6 DEF EventOK
      <4> HIDE DEF all, wait
      <4>2. pushes[e][t] + Cardinality(wait) = 0
        <5>1. Cardinality(wait) = 0
          BY <3>5, <4>1, FS_EmptySet
        <5> QED BY <4>1, <5>1
      <4>3. pushes[e][t] + Cardinality(wait) <= again[e][t] + Cardinality(all)
        BY <3>1, <3>4, <4>2
      <4> QED BY <4>3 DEF all, wait
    <3>7. CASE route[e].step \notin {"none", "context"}
      <4>1. Served(route[e], t) \in SUBSET all
        BY DEF Served, DoneBy, TakenBy, MetBy, AskedOf, Met, Hit, PicksOf
      <4>2. Cardinality(Served(route[e], t)) <= Cardinality(all)
            /\ Cardinality(Served(route[e], t)) \in Nat
        BY <3>1, <3>3, <4>1, FS_Subset, ServedIsFinite
      <4>3. pushes[e][t] + Cardinality(wait) <= again[e][t] + Cardinality(Served(route[e], t))
        BY <3>1, <3>5, <3>7 DEF EventOK
      <4> HIDE DEF all, wait
      <4>4. pushes[e][t] + Cardinality(wait) <= again[e][t] + Cardinality(all)
        BY <3>1, <3>4, <3>5, <4>2, <4>3
      <4> QED BY <4>4 DEF all, wait
    <3> QED BY <3>6, <3>7
  <2>3. ASSUME Over(e), route[e].kind = "version", OfStatus(e, "success") # {},
               NEW f \in Routed, f > e
        PROVE  route[f].kind # "version"
    <3>1. route[e].delivered /\ route[e].step = "over"
      BY <2>3, OverIsComplete DEF Over
    <3>2. e < f
      BY <2>3 DEF Routed
    <3> QED BY <2>3, <3>1, <3>2 DEF RoutingInv, AnnouncedInv
  <2>4. LaterRowsFollow(e)
    BY DEF RoutingInv, QueueOK, Failed, LaterRowsFollow
  <2> QED BY <2>1, <2>2, <2>3, <2>4
<1> QED BY <1>1, RoutingInvAlways, PTL
=============================================================================
