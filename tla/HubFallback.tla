---------------------------- MODULE HubFallback ----------------------------
(***************************************************************************)
(* Who pushes a notification event of a device that a Hub manages: the     *)
(* Hub, to which the agent sends the event, or the device itself, when the *)
(* Hub answers that it did not handle the event or when the device has     *)
(* been offline for the fallback timeout.                                  *)
(*                                                                         *)
(* Three tasks meet in the hub_notification_events table and in the shared *)
(* HubRuntimeStatus: the agent's session, the fallback task with its list  *)
(* of due events, and the detached task by which the SessionGuard of an    *)
(* ended session reports it offline.  The Hub is external.                 *)
(***************************************************************************)
EXTENDS Naturals

CONSTANTS
  Events,      \* numbered in the order of their created_at
  MaxBreaks,   \* bound on the sessions that end
  MaxRestarts  \* bound on the restarts and on replacements of the runtime

ASSUME ConstantsAssumption ==
  /\ Events \in SUBSET Nat
  /\ MaxBreaks \in Nat
  /\ MaxRestarts \in Nat

VARIABLES
  sync,      \* sync_status of each event
  fallback,  \* the events with local_fallback_applied = 1
  old,       \* the events older than the fallback timeout
  envelope,  \* the local_fallback_applied in the envelope of the outbox
  online,    \* HubRuntimeStatus.online
  since,     \* HubRuntimeStatus.offline_since
  session,   \* the connection to the Hub
  guards,    \* SessionGuard tasks that still have to report the end
  agent,     \* where the session is in handle_message_ack
  due,       \* the due events the fallback task still has to deliver
  task,      \* the event the fallback task delivers
  wire,      \* events, as their envelope has them, on their way to the Hub
  replies,   \* acks on their way back, with hub_handled
  took,      \* what the Hub did with each event
  routed,    \* how often the device gave the event to its own rules
  lost,      \* events claimed by a task that a restart stopped
  breaks,
  restarts

table  == <<sync, fallback, old>>
status == <<online, since>>
net    == <<wire, replies, took>>
vars   == <<table, envelope, status, session, guards, agent, due, task, net, routed, lost,
            breaks, restarts>>

-----------------------------------------------------------------------------
None  == 0
Idle  == [step |-> "idle", event |-> None]
Steps == {"claim", "route", "settle"}

ASSUME NoneAssumption == None \notin Events

TypeOK ==
  /\ sync \in [Events -> {"absent", "pending", "synced"}]
  /\ fallback \in SUBSET Events
  /\ old \in SUBSET Events
  /\ envelope \in [Events -> {"none", "fresh", "applied"}]
  /\ online \in BOOLEAN
  /\ since \in {"none", "recent", "elapsed"}
  /\ session \in {"down", "up"}
  /\ guards \in Nat
  /\ agent \in [step : Steps, event : Events] \cup {Idle}
  /\ due \in SUBSET Events
  /\ task \in Events \cup {None}
  /\ wire \in SUBSET (Events \X {"fresh", "applied"})
  /\ replies \in SUBSET (Events \X BOOLEAN)
  /\ took \in [Events -> {"no", "pushed", "unhandled", "told"}]
  /\ routed \in [Events -> Nat]
  /\ lost \in SUBSET Events
  /\ breaks \in Nat
  /\ restarts \in Nat

Init ==
  /\ sync = [e \in Events |-> "absent"]
  /\ fallback = {}
  /\ old = {}
  /\ envelope = [e \in Events |-> "none"]
  /\ online = FALSE
  /\ since = "recent"
  /\ session = "down"
  /\ guards = 0
  /\ agent = Idle
  /\ due = {}
  /\ task = None
  /\ wire = {}
  /\ replies = {}
  /\ took = [e \in Events |-> "no"]
  /\ routed = [e \in Events |-> 0]
  /\ lost = {}
  /\ breaks = 0
  /\ restarts = 0

-----------------------------------------------------------------------------
(* queue_notification_event, and the clock.                                 *)

Record(e) ==
  /\ sync[e] = "absent"
  /\ \A d \in Events : d < e => sync[d] # "absent"
  /\ sync' = [sync EXCEPT ![e] = "pending"]
  /\ UNCHANGED <<fallback, old, envelope, status, session, guards, agent, due, task, net,
                 routed, lost, breaks, restarts>>

\* The event is now older than the timeout; earlier events are so already.
Ages(e) ==
  /\ e \notin old
  /\ sync[e] # "absent"
  /\ \A d \in Events : d < e => d \in old
  /\ old' = old \cup {e}
  /\ UNCHANGED <<sync, fallback, envelope, status, session, guards, agent, due, task, net,
                 routed, lost, breaks, restarts>>

\* The timeout since offline_since has elapsed.
TimeoutElapses ==
  /\ since = "recent"
  /\ since' = "elapsed"
  /\ UNCHANGED <<table, envelope, online, session, guards, agent, due, task, net, routed,
                 lost, breaks, restarts>>

-----------------------------------------------------------------------------
(* The status, written by session_state_changed and session_error.          *)

\* Mutant: the time the Hub went offline is not noted.
OfflineUndated ==
  /\ online' = FALSE
  /\ UNCHANGED since

SetOffline ==
  /\ online' = FALSE
  /\ since' = IF since = "none" THEN "recent" ELSE since

SetOnline ==
  /\ online' = TRUE
  /\ since' = "none"

SessionStarts ==
  /\ session = "down"
  /\ session' = "up"
  /\ SetOnline
  /\ UNCHANGED <<table, envelope, guards, agent, due, task, net, routed, lost, breaks,
                 restarts>>

\* run_session returns: the guard is dropped, and run_forever reports an
\* error before it waits.  A session the Hub closed is no error.
Disconnect ==
  /\ breaks < MaxBreaks
  /\ breaks' = breaks + 1
  /\ session' = "down"
  /\ guards' = guards + 1
  /\ agent' = Idle
  /\ wire' = {}
  /\ replies' = {}

SessionEnds ==
  /\ session = "up"
  /\ agent = Idle
  /\ Disconnect
  /\ SetOffline \/ UNCHANGED status
  /\ UNCHANGED <<table, envelope, due, task, took, routed, lost, restarts>>

\* Mutant: the task of a guard reports twice.
GuardReportsTwice ==
  /\ guards > 0
  /\ guards' = guards - 2
  /\ SetOffline
  /\ UNCHANGED <<table, envelope, session, agent, due, task, net, routed, lost, breaks,
                 restarts>>

\* The detached task of a SessionGuard, whichever session is up by then.
GuardReports ==
  /\ guards > 0
  /\ guards' = guards - 1
  /\ SetOffline
  /\ UNCHANGED <<table, envelope, session, agent, due, task, net, routed, lost, breaks,
                 restarts>>

-----------------------------------------------------------------------------
(* The session: enqueue_business, the flush of the outbox and the acks.     *)

\* The envelope keeps the flag the event has now.
Enqueue(e) ==
  /\ session = "up" /\ agent = Idle
  /\ sync[e] = "pending"
  /\ envelope[e] = "none"
  /\ envelope' = [envelope EXCEPT ![e] = IF e \in fallback THEN "applied" ELSE "fresh"]
  /\ UNCHANGED <<table, status, session, guards, agent, due, task, net, routed, lost,
                 breaks, restarts>>

\* flush_outbox sends what is in the outbox, again after a reset.
Flush ==
  /\ session = "up" /\ agent = Idle
  /\ \E e \in Events : envelope[e] # "none"
  /\ wire' = wire \cup {<<e, envelope[e]>> : e \in {d \in Events : envelope[d] # "none"}}
  /\ UNCHANGED <<table, envelope, status, session, guards, agent, due, task, replies, took,
                 routed, lost, breaks, restarts>>

Reply(e, handled) ==
  /\ session = "up" /\ agent = Idle
  /\ <<e, handled>> \in replies
  /\ replies' = replies \ {<<e, handled>>}
  /\ UNCHANGED <<fallback, old, envelope, status, session, guards, due, task, wire, took,
                 routed, lost, breaks, restarts>>

\* Mutant: hub_handled is not looked at.
AckSyncsOnly(e, handled) ==
  /\ Reply(e, handled)
  /\ envelope[e] # "none"
  /\ sync' = [sync EXCEPT ![e] = "synced"]
  /\ agent' = [step |-> "settle", event |-> e]

\* mark_hub_event_synced.
AckSyncs(e, handled) ==
  /\ Reply(e, handled)
  /\ envelope[e] # "none"
  /\ sync' = [sync EXCEPT ![e] = "synced"]
  /\ agent' = [step |-> IF handled THEN "settle" ELSE "claim", event |-> e]

\* The ack of an envelope that is gone.
AckUnknown(e, handled) ==
  /\ Reply(e, handled)
  /\ envelope[e] = "none"
  /\ UNCHANGED <<sync, agent>>

\* deliver_queued_hub_event: mark_hub_event_local_fallback decides.
AckClaims ==
  /\ agent.step = "claim"
  /\ fallback' = fallback \cup {agent.event}
  /\ agent' = [agent EXCEPT !.step = IF agent.event \in fallback THEN "settle" ELSE "route"]
  /\ UNCHANGED <<sync, old, envelope, status, session, guards, due, task, net, routed, lost,
                 breaks, restarts>>

Route(e) == routed' = [routed EXCEPT ![e] = @ + 1]

AckRoutes ==
  /\ agent.step = "route"
  /\ Route(agent.event)
  /\ agent' = [agent EXCEPT !.step = "settle"]
  /\ UNCHANGED <<table, envelope, status, session, guards, due, task, net, lost, breaks,
                 restarts>>

\* No channel took the event: the error ends the session before the
\* envelope leaves the outbox.
AckRouteFails ==
  /\ agent.step = "route"
  /\ Route(agent.event)
  /\ Disconnect
  /\ SetOffline
  /\ UNCHANGED <<table, envelope, due, task, took, lost, restarts>>

\* mark_items_delivered and acknowledge_message.
AckSettles ==
  /\ agent.step = "settle"
  /\ envelope' = [envelope EXCEPT ![agent.event] = "none"]
  /\ agent' = Idle
  /\ UNCHANGED <<table, status, session, guards, due, task, net, routed, lost, breaks,
                 restarts>>

-----------------------------------------------------------------------------
(* The fallback task of apply_config.                                       *)

DueForFallback == {e \in old \ fallback : sync[e] = "pending"}

FallbackScans ==
  /\ task = None /\ due = {}
  /\ ~online /\ since = "elapsed"
  /\ DueForFallback # {}
  /\ due' = DueForFallback
  /\ UNCHANGED <<table, envelope, status, session, guards, agent, task, net, routed, lost,
                 breaks, restarts>>

FirstDue(e) == e \in due /\ \A d \in due : d >= e

\* Mutant: the event is marked whether or not it was marked before.
FallbackClaimsAnyway(e) ==
  /\ task = None
  /\ FirstDue(e)
  /\ due' = due \ {e}
  /\ fallback' = fallback \cup {e}
  /\ task' = e
  /\ UNCHANGED <<sync, old, envelope, status, session, guards, agent, net, routed, lost,
                 breaks, restarts>>

\* deliver_queued_hub_event, for the events of the list in their order.
FallbackClaims(e) ==
  /\ task = None
  /\ FirstDue(e)
  /\ due' = due \ {e}
  /\ fallback' = fallback \cup {e}
  /\ task' = IF e \in fallback THEN None ELSE e
  /\ UNCHANGED <<sync, old, envelope, status, session, guards, agent, net, routed, lost,
                 breaks, restarts>>

FallbackRoutes ==
  /\ task # None
  /\ Route(task)
  /\ task' = None
  /\ UNCHANGED <<table, envelope, status, session, guards, agent, due, net, lost, breaks,
                 restarts>>

-----------------------------------------------------------------------------
(* The Hub (external) answers every copy of an event alike.  It pushes an   *)
(* event it gets for the first time, unless the device says it did so, or   *)
(* has no rule for it.                                                      *)

Verdicts(e, flag) ==
  IF took[e] # "no" THEN {took[e]}
  ELSE IF flag = "applied" THEN {"told"} ELSE {"pushed", "unhandled"}

HubTakes(e, flag) ==
  /\ <<e, flag>> \in wire
  /\ wire' = wire \ {<<e, flag>>}
  /\ \E verdict \in Verdicts(e, flag) :
       /\ took' = [took EXCEPT ![e] = verdict]
       /\ replies' = replies \cup {<<e, verdict # "unhandled">>}
  /\ UNCHANGED <<table, envelope, status, session, guards, agent, due, task, routed, lost,
                 breaks, restarts>>

HubSilent(e, flag) ==
  /\ <<e, flag>> \in wire
  /\ wire' = wire \ {<<e, flag>>}
  /\ UNCHANGED <<table, envelope, status, session, guards, agent, due, task, replies, took,
                 routed, lost, breaks, restarts>>

-----------------------------------------------------------------------------
Claimed(e) == task = e \/ (agent.step = "route" /\ agent.event = e)

\* The process restarts, or apply_config aborts both tasks and begins a new
\* generation, for which the guards of the old one do not count.
Restart ==
  /\ restarts < MaxRestarts
  /\ restarts' = restarts + 1
  /\ lost' = lost \cup {e \in Events : Claimed(e)}
  /\ session' = "down"
  /\ guards' = 0
  /\ agent' = Idle
  /\ due' = {}
  /\ task' = None
  /\ wire' = {}
  /\ replies' = {}
  /\ online' = FALSE
  /\ since' = "recent"
  /\ UNCHANGED <<table, envelope, took, routed, breaks>>

AckStep ==
  \/ \E e \in Events, handled \in BOOLEAN : AckSyncs(e, handled) \/ AckUnknown(e, handled)
  \/ AckClaims
  \/ AckRoutes
  \/ AckRouteFails
  \/ AckSettles

Next ==
  \/ \E e \in Events : Record(e) \/ Ages(e) \/ Enqueue(e) \/ FallbackClaims(e)
  \/ TimeoutElapses
  \/ SessionStarts
  \/ SessionEnds
  \/ GuardReports
  \/ Flush
  \/ AckStep
  \/ FallbackScans
  \/ FallbackRoutes
  \/ \E e \in Events, flag \in {"fresh", "applied"} : HubTakes(e, flag) \/ HubSilent(e, flag)
  \/ Restart

Spec == Init /\ [][Next]_vars

(* The timers run and every task gets its turn; a Hub that is sent an event *)
(* again and again answers.  Nothing makes a session start.                 *)
Fairness ==
  /\ WF_vars(TimeoutElapses)
  /\ WF_vars(GuardReports)
  /\ WF_vars(FallbackScans)
  /\ WF_vars(FallbackRoutes)
  /\ WF_vars(AckClaims)
  /\ WF_vars(AckRoutes)
  /\ WF_vars(AckSettles)
  /\ WF_vars(\E e \in Events : Ages(e))
  /\ WF_vars(\E e \in Events : FallbackClaims(e))
  /\ SF_vars(\E e \in Events : Enqueue(e))
  /\ SF_vars(Flush)
  /\ SF_vars(\E e \in Events, flag \in {"fresh", "applied"} : HubTakes(e, flag))
  /\ SF_vars(\E e \in Events, handled \in BOOLEAN : AckSyncs(e, handled))

FairSpec == Spec /\ Fairness

-----------------------------------------------------------------------------
(* The session and the fallback task together give an event to the device's *)
(* rules at most once, also across restarts.                                *)
RoutedOnce == \A e \in Events : routed[e] <= 1

(* An event that is synced and out of the outbox was pushed by the Hub or   *)
(* by the device, is just being pushed by the fallback task, or was in the  *)
(* hands of a task that a restart stopped.                                  *)
SettledIsPushed ==
  \A e \in Events :
    sync[e] = "synced" /\ envelope[e] = "none" =>
      took[e] = "pushed" \/ routed[e] > 0 \/ task = e \/ e \in lost

(* Every event is pushed by somebody in the end, whether the Hub comes back *)
(* or not.  A restart leaves two exceptions: an event that a task had       *)
(* claimed but not pushed is lost, and an event that was synced but not     *)
(* claimed is no longer due for the fallback, and waits for a session.      *)
EventIsPushed ==
  \A e \in Events :
    [](sync[e] = "pending" =>
         <>(\/ took[e] = "pushed" \/ routed[e] > 0 \/ e \in lost
            \/ [](session = "down" /\ sync[e] = "synced")))
=============================================================================
