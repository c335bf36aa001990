------------------------------- MODULE Routing -------------------------------
(***************************************************************************)
(* Which rules an event meets and which channels they send it to: messages *)
(* that came in, results of dynamic DNS and of automation, new versions,   *)
(* system events, and the reports that are due by a rule.  An event is     *)
(* routed by the rules and channels of the moment when it starts; it waits *)
(* for each send, while other events are routed, settings are changed and  *)
(* the quiet hours begin and end.  What is not sent is left to the queue   *)
(* (see NotificationQueue for its tasks), which sends it later, perhaps    *)
(* more than once, and logs what it did in the same table.  No Hub takes   *)
(* the events (see HubFallback), and rows and states are written without   *)
(* an error.                                                               *)
(***************************************************************************)
EXTENDS Naturals, FiniteSets

CONSTANTS
  Rules,
  Targets,     \* channels by id
  Schemes,      \* the settings to begin with and to change to
  NoRule, NoTarget,
  MaxRouted,   \* bound on events
  MaxChanges   \* bound on edits, hours, restarts, lost answers, retries of the operator

\* A rule asks for a kind of event, hits it or not, tells every n-th failure only,
\* picks channels, and may keep quiet hours.
RoutedKinds == {"sms", "ddns", "automation", "version", "system", "status"}
RuleType == [on : BOOLEAN, kind : RoutedKinds, hits : BOOLEAN, nth : 1..2,
             picks : SUBSET Targets, quietly : BOOLEAN]

ASSUME RoutingAssumption ==
  /\ Schemes \subseteq [rule : [Rules -> RuleType], chan : [Targets -> {"on", "off", "gone"}]]
  /\ IsFiniteSet(Rules) /\ NoRule \notin Rules
  /\ IsFiniteSet(Targets) /\ NoTarget \notin Targets
  /\ {MaxRouted, MaxChanges} \subseteq Nat

VARIABLES
  plan,      \* notification settings
  night,     \* the clock is in the quiet hours
  routed,    \* events so far
  route,     \* the task of each
  rowsOf,    \* notification_logs: the rows that the routing of an event wrote
  later,     \* notification_logs: the rows that the queue wrote of it
  smsStatus, \* notification_status of a message
  waiting,   \* notification_queue: what is to be sent
  givenUp,   \* notification_queue: what failed, until the operator retries it
  streak,    \* failures of DNS in a row
  announced, \* last_notified_version
  pushes,    \* history: what each channel got
  again,     \* history: sends whose answer was lost, and retries
  changes

queued  == <<later, waiting, givenUp, pushes, again>>
routing == <<plan, night, routed, route, rowsOf, smsStatus, streak, announced, changes, queued>>

-----------------------------------------------------------------------------
Routed == 1..MaxRouted
LogRow(r, t, status) == [rule |-> r, target |-> t, status |-> status]
Unrouted == [kind |-> "sms", count |-> 0, only |-> NoRule, step |-> "none", plan |-> plan,
             left |-> {}, rule |-> NoRule, todo |-> {}, matched |-> FALSE, delivered |-> FALSE,
             failures |-> FALSE]

RoutingTypeOK ==
  /\ plan \in Schemes /\ {night, announced} \subseteq BOOLEAN
  /\ routed \in 0..MaxRouted /\ changes \in 0..MaxChanges /\ streak \in 0..MaxRouted
  /\ \A e \in Routed :
       /\ route[e].step \in {"none", "context", "rules", "sends", "over", "lost"}
       /\ route[e].kind \in RoutedKinds /\ route[e].only \in Rules \cup {NoRule}
       /\ route[e].plan \in Schemes /\ route[e].left \subseteq Rules
       /\ route[e].todo \subseteq Targets
       /\ \A row \in rowsOf[e] :
            /\ row.rule \in Rules \cup {NoRule} /\ row.target \in Targets \cup {NoTarget}
            /\ row.status \in {"success", "failed", "quiet_hours", "no_available_channel",
                               "unmatched"}
       /\ \A row \in later[e] : /\ row.rule \in Rules /\ row.target \in Targets
                                /\ row.status \in {"success", "failed"}
  /\ smsStatus \in [Routed -> {"pending", "success", "failed", "skipped"}]
  /\ waiting \cup givenUp \subseteq Routed \X Rules \X Targets
  /\ {pushes, again} \subseteq [Routed -> [Targets -> Nat]]

RoutingInit ==
  /\ plan \in Schemes
  /\ night = FALSE /\ announced = FALSE
  /\ routed = 0 /\ changes = 0 /\ streak = 0
  /\ route = [e \in Routed |-> Unrouted]
  /\ rowsOf = [e \in Routed |-> {}] /\ later = rowsOf
  /\ smsStatus = [e \in Routed |-> "pending"]
  /\ waiting = {} /\ givenUp = {}
  /\ pushes = [e \in Routed |-> [t \in Targets |-> 0]] /\ again = pushes

Costs(some) ==
  IF some THEN changes < MaxChanges /\ changes' = changes + 1 ELSE UNCHANGED changes
Pushed(e, t)   == [pushes EXCEPT ![e][t] = @ + 1]
OnceMore(e, t) == [again EXCEPT ![e][t] = @ + 1]

-----------------------------------------------------------------------------
(* The rules. *)

Asked(P, kind) == {r \in Rules : P.rule[r].on /\ P.rule[r].kind = kind}

\* rule_matches
Matches(rule) == rule.hits
Hit(P, kind) == {r \in Asked(P, kind) : Matches(P.rule[r])}

\* ddns_failure_threshold_pending; the count of a success is 0 and passes.
Holds(P, r, count) == count > 0 /\ count % P.rule[r].nth # 0

\* ddns_event_blocked_by_failure_threshold
Blocked(P, count) == /\ Hit(P, "ddns") # {}
                     /\ \A r \in Hit(P, "ddns") : Holds(P, r, count)

\* has_version_update_targets
Wanted(P) == \E r \in Asked(P, "version"), t \in Targets :
               t \in P.rule[r].picks /\ P.chan[t] = "on"

\* quiet_hours_active
Quiet(P, r) == night /\ P.rule[r].quietly

\* What route_event_for_rule writes for a channel it does not send to.
Skipped(P, r, t) ==
  IF P.chan[t] = "gone" THEN LogRow(r, NoTarget, "no_available_channel")
  ELSE LogRow(r, t, IF Quiet(P, r) THEN "quiet_hours" ELSE "no_available_channel")
Sends(P, r) == {t \in P.rule[r].picks : P.chan[t] = "on" /\ ~Quiet(P, r)}

-----------------------------------------------------------------------------
(* Events. *)

InRoute(kind) == \E e \in Routed : /\ route[e].kind = kind
                                   /\ route[e].step \in {"context", "rules", "sends"}

Raise(kind, count, rule) ==
  /\ routed < MaxRouted /\ routed' = routed + 1
  /\ route' = [route EXCEPT ![routed'].kind = kind, ![routed'].count = count,
                            ![routed'].only = rule, ![routed'].step = "context"]

\* The listener hands each message to a task of its own.
MessageComes ==
  /\ Raise("sms", 0, NoRule)
  /\ UNCHANGED <<plan, night, rowsOf, smsStatus, streak, announced, changes, queued>>

RunEnds ==
  /\ Raise("automation", 0, NoRule)
  /\ UNCHANGED <<plan, night, rowsOf, smsStatus, streak, announced, changes, queued>>

\* Only what a rule asks for is an event.
SystemEventComes ==
  /\ Hit(plan, "system") # {} /\ Raise("system", 0, NoRule)
  /\ UNCHANGED <<plan, night, rowsOf, smsStatus, streak, announced, changes, queued>>

\* A report is for the rule whose time it is.
ReportDue ==
  /\ \E r \in Asked(plan, "status") : Raise("status", 0, r)
  /\ UNCHANGED <<plan, night, rowsOf, smsStatus, streak, announced, changes, queued>>

\* One sync at a time tells of its result, if any rule would take it now.
SyncEnds ==
  /\ ~InRoute("ddns") /\ routed < MaxRouted
  /\ \E status \in {"failed", "updated", "unchanged"} :
       LET count == IF status = "failed" THEN streak + 1 ELSE 0
       IN  /\ streak < MaxRouted /\ streak' = count
           /\ IF status = "unchanged" \/ Blocked(plan, count)
              THEN UNCHANGED <<routed, route>> ELSE Raise("ddns", count, NoRule)
  /\ UNCHANGED <<plan, night, rowsOf, smsStatus, announced, changes, queued>>

\* The check at 9 and at 18 finds a version that was not announced.
VersionChecked ==
  /\ ~InRoute("version") /\ ~announced /\ Wanted(plan)
  /\ Raise("version", 0, NoRule)
  /\ UNCHANGED <<plan, night, rowsOf, smsStatus, streak, announced, changes, queued>>

\* notification_template_context is awaited, then the settings are read.
TakePlan(e) ==
  /\ route[e].step = "context"
  /\ route' = [route EXCEPT ![e].step = "rules", ![e].plan = plan,
                            ![e].left = {r \in Asked(plan, route[e].kind) :
                                           route[e].only \in {NoRule, r}}]
  /\ UNCHANGED <<plan, night, routed, rowsOf, smsStatus, streak, announced, changes, queued>>

\* Mutant: what the rules before it did is forgotten.
TakeRuleAfresh(e) ==
  /\ route[e].step = "rules"
  /\ \E r \in route[e].left :
       LET P == route[e].plan
           taken == Matches(P.rule[r]) /\ ~Holds(P, r, route[e].count)
           picks == P.rule[r].picks
       IN  /\ route' = [route EXCEPT ![e].left = @ \ {r}, ![e].rule = r,
                          ![e].delivered = FALSE,
                          ![e].matched = @ \/ Matches(P.rule[r]),
                          ![e].todo = IF taken THEN Sends(P, r) ELSE {},
                          ![e].step = IF taken /\ Sends(P, r) # {} THEN "sends" ELSE @]
           /\ rowsOf' = [rowsOf EXCEPT ![e] = @ \cup
                IF ~taken THEN {}
                ELSE IF picks = {} THEN {LogRow(r, NoTarget, "no_available_channel")}
                ELSE {Skipped(P, r, t) : t \in picks \ Sends(P, r)}]
  /\ UNCHANGED <<plan, night, routed, smsStatus, streak, announced, changes, queued>>

\* One rule after the other; whether it is quiet is asked once for a rule.
TakeRule(e) ==
  /\ route[e].step = "rules"
  /\ \E r \in route[e].left :
       LET P == route[e].plan
           taken == Matches(P.rule[r]) /\ ~Holds(P, r, route[e].count)
           picks == P.rule[r].picks
       IN  /\ route' = [route EXCEPT ![e].left = @ \ {r}, ![e].rule = r,
                          ![e].matched = @ \/ Matches(P.rule[r]),
                          ![e].todo = IF taken THEN Sends(P, r) ELSE {},
                          ![e].step = IF taken /\ Sends(P, r) # {} THEN "sends" ELSE @]
           /\ rowsOf' = [rowsOf EXCEPT ![e] = @ \cup
                IF ~taken THEN {}
                ELSE IF picks = {} THEN {LogRow(r, NoTarget, "no_available_channel")}
                ELSE {Skipped(P, r, t) : t \in picks \ Sends(P, r)}]
  /\ UNCHANGED <<plan, night, routed, smsStatus, streak, announced, changes, queued>>

\* send_text_to_channel_with_queue: sent, or left to the queue, or neither; the
\* last two are a failure to the log, though it came if only the answer was lost.
SendTo(e) ==
  /\ route[e].step = "sends"
  /\ \E t \in route[e].todo, outcome \in {"sent", "queued", "refused"}, lost \in BOOLEAN :
       LET sent == outcome = "sent"
           r == route[e].rule
       IN  /\ Costs(lost \/ outcome = "refused")
           /\ pushes' = IF sent \/ lost THEN Pushed(e, t) ELSE pushes
           /\ again' = IF outcome = "queued" /\ lost THEN OnceMore(e, t) ELSE again
           /\ waiting' = IF outcome = "queued" THEN waiting \cup {<<e, r, t>>} ELSE waiting
           /\ rowsOf' = [rowsOf EXCEPT ![e] = @ \cup
                           {LogRow(r, t, IF sent THEN "success" ELSE "failed")}]
           /\ route' = [route EXCEPT ![e].todo = @ \ {t},
                          ![e].delivered = @ \/ sent, ![e].failures = @ \/ ~sent,
                          ![e].step = IF route[e].todo = {t} THEN "rules" ELSE @]
  /\ UNCHANGED <<plan, night, routed, smsStatus, streak, announced, later, givenUp>>

\* The status of the message, or the version that was announced.
Outcome(task) == IF task.delivered THEN "success"
                 ELSE IF task.failures THEN "failed" ELSE "skipped"

\* What nothing matches is told by a row, if anything could have.
TellsUnmatched(task) == task.kind \notin {"system", "status"}

EndRoute(e) ==
  /\ route[e].step = "rules" /\ route[e].left = {}
  /\ route' = [route EXCEPT ![e].step = "over"]
  /\ rowsOf' = [rowsOf EXCEPT ![e] = IF route[e].matched \/ ~TellsUnmatched(route[e]) THEN @
                                     ELSE @ \cup {LogRow(NoRule, NoTarget, "unmatched")}]
  /\ smsStatus' = IF route[e].kind # "sms" THEN smsStatus
                  ELSE [smsStatus EXCEPT ![e] = Outcome(route[e])]
  /\ announced' = (announced \/ (route[e].kind = "version" /\ route[e].delivered))
  /\ UNCHANGED <<plan, night, routed, streak, changes, queued>>

\* The queue leaves the message's status as it is, and adds rows of its own.
QueueWrites(w, status) ==
  later' = [later EXCEPT ![w[1]] = @ \cup {LogRow(w[2], w[3], status)}]

QueueSends ==
  /\ \E w \in waiting : /\ waiting' = waiting \ {w} /\ pushes' = Pushed(w[1], w[3])
                        /\ QueueWrites(w, "success")
  /\ UNCHANGED <<plan, night, routed, route, rowsOf, smsStatus, streak, announced, changes,
                 givenUp, again>>

\* The channel is gone, or the last attempt failed; its answer may have been lost.
QueueGivesUp ==
  /\ \E w \in waiting, lost \in BOOLEAN :
       /\ waiting' = waiting \ {w} /\ givenUp' = givenUp \cup {w}
       /\ QueueWrites(w, "failed") /\ Costs(lost)
       /\ pushes' = IF lost THEN Pushed(w[1], w[3]) ELSE pushes
  /\ UNCHANGED <<plan, night, routed, route, rowsOf, smsStatus, streak, announced, again>>

\* It is sent and stays to be sent: the answer is lost and no row written, or the
\* operator retried it on its way.
QueueSendsTwice ==
  /\ Costs(TRUE)
  /\ \E w \in waiting : /\ pushes' = Pushed(w[1], w[3]) /\ again' = OnceMore(w[1], w[3])
                        /\ UNCHANGED later \/ QueueWrites(w, "success")
  /\ UNCHANGED <<plan, night, routed, route, rowsOf, smsStatus, streak, announced, waiting,
                 givenUp>>

OperatorRetries ==
  /\ Costs(TRUE)
  /\ \E w \in givenUp : /\ waiting' = waiting \cup {w} /\ givenUp' = givenUp \ {w}
                        /\ again' = OnceMore(w[1], w[3])
  /\ UNCHANGED <<plan, night, routed, route, rowsOf, smsStatus, streak, announced, later, pushes>>

OperatorCancels ==
  /\ Costs(TRUE)
  /\ \E w \in waiting \cup givenUp : waiting' = waiting \ {w} /\ givenUp' = givenUp \ {w}
  /\ UNCHANGED <<plan, night, routed, route, rowsOf, smsStatus, streak, announced, later, pushes,
                 again>>

EditPlan ==
  /\ Costs(TRUE)
  /\ \/ plan' \in Schemes \ {plan} /\ UNCHANGED night
     \/ night' = ~night /\ UNCHANGED plan
  /\ UNCHANGED <<routed, route, rowsOf, smsStatus, streak, announced, queued>>

RouterStops ==
  /\ Costs(TRUE)
  /\ route' = [e \in Routed |-> IF route[e].step \in {"context", "rules", "sends"}
                                THEN [route[e] EXCEPT !.step = "lost"] ELSE route[e]]
  /\ streak' = 0
  /\ UNCHANGED <<plan, night, routed, rowsOf, smsStatus, announced, queued>>

RoutingNext ==
  \/ MessageComes \/ SyncEnds \/ VersionChecked \/ RunEnds \/ SystemEventComes \/ ReportDue
  \/ QueueSends \/ QueueGivesUp \/ QueueSendsTwice \/ OperatorRetries \/ OperatorCancels
  \/ EditPlan \/ RouterStops
  \/ \E e \in Routed : TakePlan(e) \/ TakeRule(e) \/ SendTo(e) \/ EndRoute(e)

-----------------------------------------------------------------------------
Over(e) == route[e].step = "over"
Met(e) == {r \in Hit(route[e].plan, route[e].kind) : route[e].only \in {NoRule, r}}
Taken(e) == {r \in Met(e) : ~Holds(route[e].plan, r, route[e].count)}
OfStatus(e, status) == {row \in rowsOf[e] : row.status = status}

\* An event leaves a row for each rule that took it and each channel that rule picks,
\* and no other row but that of an event nothing matched; the queue adds rows only
\* where a send of the event failed.
RowsComplete(e) ==
  LET P == route[e].plan
      Named(t) == IF P.chan[t] = "gone" THEN NoTarget ELSE t
      pairs == UNION {{<<r, Named(t)>> : t \in P.rule[r].picks} : r \in Taken(e)}
      empty == {r \in Taken(e) : P.rule[r].picks = {}}
  IN  /\ {<<row.rule, row.target>> : row \in rowsOf[e]} =
           pairs \cup (empty \X {NoTarget})
           \cup (IF Met(e) = {} /\ TellsUnmatched(route[e]) THEN {<<NoRule, NoTarget>>} ELSE {})
      /\ Cardinality(rowsOf[e]) = Cardinality({<<row.rule, row.target>> : row \in rowsOf[e]})

LaterRowsFollow(e) ==
  \A row \in later[e] : LogRow(row.rule, row.target, "failed") \in rowsOf[e]

\* The status of a message tells what the rows of its routing tell; one that only the
\* queue sent stays failed beside a row of success.
StatusTrue(e) ==
  smsStatus[e] = IF OfStatus(e, "success") # {} THEN "success"
                 ELSE IF OfStatus(e, "failed") # {} THEN "failed" ELSE "skipped"

\* However events, edits and hours overlap: an event that was routed has its rows and
\* its status by one and the same settings, and what the queue adds follows a send
\* that failed; at any time a channel has got it, or the queue still has it, at most
\* once for each rule that sends it there, and once more for each answer that was
\* lost and each retry of the operator; and a version that was sent is not announced
\* again, unless only the queue sent it or the process stopped.
\* (route_event_for_rule, forward_sms_local, check_and_notify_version_update)
RoutedAsPlanned ==
  \A e \in Routed :
    /\ Over(e) => RowsComplete(e) /\ (route[e].kind = "sms" => StatusTrue(e))
    /\ LaterRowsFollow(e)
    /\ \A t \in Targets :
         pushes[e][t] + Cardinality({w \in waiting : w[1] = e /\ w[3] = t})
           <= again[e][t] + Cardinality({r \in Met(e) : /\ t \in route[e].plan.rule[r].picks
                                                       /\ route[e].plan.chan[t] = "on"})
    /\ Over(e) /\ route[e].kind = "version" /\ OfStatus(e, "success") # {} =>
         \A f \in Routed : f > e => route[f].kind # "version"
=============================================================================
