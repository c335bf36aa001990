----------------------------- MODULE Schedules -----------------------------
(***************************************************************************)
(* The two schedulers of the device.  The automation loop evaluates its    *)
(* tasks every 30 seconds, unless the Hub schedules, and starts a detached *)
(* run of each that is due; the run asks once more whether the Hub         *)
(* schedules and is limited in time.  The report loop evaluates the        *)
(* device-status rules every 30 seconds and collects a report before it    *)
(* goes on.  Both have fixed entries, due in given minutes, and periodic   *)
(* entries.                                                                *)
(*                                                                         *)
(* A fixed entry is remembered in memory by its minute, a periodic rule by *)
(* the time it was due, a periodic task by its latest row in               *)
(* automation_logs, which is written when a run ends.  Time passes in      *)
(* units of 30 seconds.                                                    *)
(***************************************************************************)
EXTENDS Integers, Sequences, FiniteSets

CONSTANTS
  TaskList,   \* automation tasks, in the order of the configuration
  RuleList,   \* device-status rules, in that order
  Fixed,      \* the entries of both that have a fixed trigger
  Minutes,    \* the minutes the fixed entries name
  Period,     \* interval of the periodic entries
  RunLimit,   \* how long a run may take
  Timeout,    \* fallback timeout of the Hub link
  Fallback,   \* local_fallback_enabled
  Retention,  \* age at which a log row is deleted; 0: never
  MaxEntries, \* log rows that are kept; 0: all
  MaxTime,    \* bound on the clock
  MaxFaults   \* bound on user actions, changes of the link, faults, restarts

Tasks   == {TaskList[i] : i \in DOMAIN TaskList}
Rules   == {RuleList[i] : i \in DOMAIN RuleList}
Entries == Tasks \cup Rules
Periodic == Entries \ Fixed

ASSUME SchedulesAssumption ==
  /\ Tasks \cap Rules = {}
  /\ Fixed \subseteq Entries
  /\ Minutes \subseteq Nat
  /\ {Period, RunLimit, Timeout} \subseteq Nat \ {0}
  /\ Fallback \in BOOLEAN
  /\ {Retention, MaxEntries, MaxTime, MaxFaults} \subseteq Nat

VARIABLES
  clock,
  enabled,   \* entries the user has switched on
  link,      \* the Hub link as HubRuntimeStatus shows it
  auto,      \* the automation loop: its last tick and the tasks it has to evaluate
  report,    \* the report loop, with the rule whose report it collects
  marked,    \* minutes of the fixed entries that were taken
  due,       \* when a periodic rule was last due
  logs,      \* automation_logs: task and time
  runs,      \* runs of tasks
  started,   \* history: when an entry was last started by its loop
  ended,     \* history: when a periodic entry last ended
  forgotten, \* history: periodic entries whose last end the program cannot know
  excused,   \* history: fixed entries that need not start in this minute
  missed,    \* history: fixed entries that were not started in a minute of theirs
  rebooted,  \* history: the minutes in which the service restarted
  faults

memory    == <<marked, due>>
history   == <<started, ended, forgotten, excused, missed, rebooted>>
schedules == <<clock, enabled, link, auto, report, memory, logs, runs, history, faults>>

-----------------------------------------------------------------------------
Times    == 0..MaxTime
Never    == -1
None     == "none"
Minute   == clock \div 2
Matches(m) == m \in Minutes

ASSUME NoRuleAssumption == None \notin Rules

SchedulesTypeOK ==
  /\ clock \in Times
  /\ enabled \subseteq Entries
  /\ link \in [enabled : BOOLEAN, online : BOOLEAN, since : Times]
  /\ auto \in [tick : Times, todo : SUBSET Tasks]
  /\ report \in [tick : Times, todo : SUBSET Rules, busy : Rules \cup {None}]
  /\ marked \in [Fixed -> SUBSET Nat]
  /\ due \in [Rules \cap Periodic -> Times \cup {Never}]
  /\ logs \in Seq([task : Tasks, at : Times])
  /\ \A i, j \in DOMAIN logs : i <= j => logs[i].at <= logs[j].at
  /\ runs \subseteq [task : Tasks, by : {"loop", "user"}, at : {"check", "work"},
                     began : Times]
  /\ \A r \in runs : clock - r.began <= RunLimit
  /\ started \in [Entries -> Times \cup {Never}]
  /\ ended \in [Periodic -> Times \cup {Never}]
  /\ forgotten \subseteq Periodic
  /\ excused \subseteq Fixed
  /\ missed \subseteq Fixed
  /\ rebooted \subseteq Nat
  /\ faults \in 0..MaxFaults

\* The session may start before the loops do.
SchedulesInit ==
  /\ clock = 0
  /\ enabled = Entries
  /\ link \in {h \in [enabled : BOOLEAN, online : BOOLEAN, since : {0}] : h.online => h.enabled}
  /\ auto = [tick |-> 0, todo |-> {}]
  /\ report = [tick |-> 0, todo |-> {}, busy |-> None]
  /\ marked = [e \in Fixed |-> {}]
  /\ due = [r \in Rules \cap Periodic |-> Never]
  /\ logs = <<>>
  /\ runs = {}
  /\ started = [e \in Entries |-> Never]
  /\ ended = [e \in Periodic |-> Never]
  /\ forgotten = {}
  /\ excused = Fixed
  /\ missed = {}
  /\ rebooted = {}
  /\ faults = 0

Fault == faults < MaxFaults /\ faults' = faults + 1

\* local_automation_scheduling_enabled
DeviceSchedules ==
  \/ ~link.enabled
  \/ Fallback /\ ~link.online /\ clock - link.since >= Timeout

-----------------------------------------------------------------------------
(* Time.  A loop sleeps 30 seconds and a little: of two units one at least *)
(* has a tick.  An evaluation takes no time, a report and a run do.        *)

WithinLimit == \A r \in runs : clock - r.began < RunLimit

Advance ==
  /\ clock < MaxTime
  /\ auto.todo = {} /\ auto.tick >= clock - 1
  /\ report.busy # None \/ (report.todo = {} /\ report.tick >= clock - 1)
  /\ WithinLimit /\ \A r \in runs : r.at # "check"
  /\ clock' = clock + 1
  /\ LET over == (clock + 1) % 2 = 0
         idle == (IF DeviceSchedules THEN {} ELSE Tasks)
                 \cup (IF report.busy = None THEN {} ELSE Rules)
                 \cup (Entries \ enabled)
         late == {e \in Fixed \ (excused \cup idle) :
                    started[e] = Never \/ started[e] \div 2 # Minute}
     IN /\ missed' = IF over /\ Matches(Minute) THEN missed \cup late ELSE missed
        /\ excused' = Fixed \cap (IF over THEN idle ELSE excused \cup idle)
  /\ UNCHANGED <<enabled, link, auto, report, memory, logs, runs, started, ended, forgotten,
                 rebooted, faults>>

Started(e) == started' = [started EXCEPT ![e] = clock]

-----------------------------------------------------------------------------
(* The log. *)

HasLog(t) == \E i \in DOMAIN logs : logs[i].task = t

\* cleanup_automation_logs: by age, then by number.  The rows are in the order of
\* their times, so that both take the oldest.
Deleted ==
  LET old    == IF Retention = 0 THEN 0
                ELSE Cardinality({i \in DOMAIN logs : logs[i].at < clock - Retention})
      excess == IF MaxEntries = 0 THEN 0 ELSE Len(logs) - MaxEntries
  IN IF excess <= old THEN old ELSE excess

Cleaned == SubSeq(logs, Deleted + 1, Len(logs))

\* Periodic tasks whose last row is gone when only these are left.
LostBy(rows) ==
  {t \in Tasks \cap Periodic : HasLog(t) /\ \A i \in DOMAIN rows : rows[i].task # t}

-----------------------------------------------------------------------------
(* The automation loop. *)

Cleanup == logs' = Cleaned /\ forgotten' = forgotten \cup LostBy(Cleaned)

AutoTick ==
  /\ auto.todo = {} /\ auto.tick < clock
  /\ IF DeviceSchedules /\ Tasks \cap enabled # {}
     THEN auto' = [tick |-> clock, todo |-> Tasks \cap enabled] /\ UNCHANGED <<logs, forgotten>>
     ELSE auto' = [auto EXCEPT !.tick = clock] /\ Cleanup
  /\ UNCHANGED <<clock, enabled, link, report, memory, runs, started, ended, excused, missed,
                 rebooted, faults>>

\* The first entry of a list that is still to be evaluated.
IsFirst(e, list, todo) ==
  \E i \in DOMAIN list :
    list[i] = e /\ e \in todo /\ \A j \in DOMAIN list : list[j] \in todo => i <= j

IsNext(t) == IsFirst(t, TaskList, auto.todo)

Evaluated(t) ==
  /\ auto' = [auto EXCEPT !.todo = @ \ {t}]
  /\ UNCHANGED <<clock, enabled, link, report, due, ended, excused, missed, rebooted>>

\* After the last task the log is cleaned up.
MaybeCleanup(t) ==
  IF auto.todo = {t} THEN Cleanup ELSE UNCHANGED <<logs, forgotten>>

Spawned(t, by, at) == [task |-> t, by |-> by, at |-> at, began |-> clock]

Starts(t) ==
  /\ runs' = runs \cup {Spawned(t, "loop", "check")}
  /\ Started(t)

Takes(e) == Matches(Minute) /\ Minute \notin marked[e]

\* Mutant: the minute is not remembered.
EvaluateFixedForgetting(t) ==
  /\ IsNext(t) /\ t \in Fixed
  /\ IF Takes(t) THEN Starts(t) ELSE UNCHANGED <<runs, started>>
  /\ MaybeCleanup(t) /\ Evaluated(t) /\ UNCHANGED <<marked, faults>>

EvaluateFixed(t) ==
  /\ IsNext(t) /\ t \in Fixed
  /\ IF Takes(t)
     THEN Starts(t) /\ marked' = [marked EXCEPT ![t] = {Minute}]
     ELSE UNCHANGED <<runs, started, marked>>
  /\ MaybeCleanup(t) /\ Evaluated(t) /\ UNCHANGED faults

Elapsed(i) == clock - logs[i].at >= Period

\* Mutant: the oldest row of the task decides.
IntervalElapsedOfFirst(t) ==
  HasLog(t) => \E i \in DOMAIN logs : logs[i].task = t /\ Elapsed(i)

\* The latest row decides, that is, all of them have to be old enough.
IntervalElapsed(t) == \A i \in DOMAIN logs : logs[i].task = t => Elapsed(i)

EvaluatePeriodic(t) ==
  /\ IsNext(t) /\ t \notin Fixed
  /\ IF IntervalElapsed(t) THEN Starts(t) ELSE UNCHANGED <<runs, started>>
  /\ MaybeCleanup(t) /\ Evaluated(t) /\ UNCHANGED <<marked, faults>>

\* The query fails: the task counts as one that never ran.
QueryFails(t) ==
  /\ IsNext(t) /\ t \notin Fixed
  /\ Fault
  /\ Starts(t)
  /\ logs' = IF auto.todo = {t} THEN Cleaned ELSE logs
  /\ forgotten' = forgotten \cup {t} \cup LostBy(logs')
  /\ Evaluated(t) /\ UNCHANGED marked

-----------------------------------------------------------------------------
(* A run of a task. *)

RunStep ==
  UNCHANGED <<clock, enabled, link, auto, report, memory, started, excused, missed, rebooted>>

\* execute_task: nothing is run or logged when the Hub schedules by now.
Check(r) ==
  /\ r.at = "check"
  /\ runs' = (runs \ {r}) \cup (IF DeviceSchedules THEN {[r EXCEPT !.at = "work"]} ELSE {})
  /\ RunStep /\ UNCHANGED <<logs, ended, forgotten, faults>>

\* The handler succeeded, failed or was cut off at the time limit: the row of
\* the run is written.  The event after it changes nothing here.
Finish(r) ==
  /\ r.at = "work"
  /\ runs' = runs \ {r}
  /\ ended' = [e \in Periodic |-> IF e = r.task THEN clock ELSE ended[e]]
  /\ \/ /\ logs' = Append(logs, [task |-> r.task, at |-> clock])
        /\ forgotten' = forgotten \ {r.task}
        /\ UNCHANGED faults
     \/ Fault /\ forgotten' = forgotten \cup ({r.task} \cap Periodic) /\ UNCHANGED logs
  /\ RunStep

-----------------------------------------------------------------------------
(* The report loop. *)

ReportTick ==
  /\ report.todo = {} /\ report.busy = None /\ report.tick < clock
  /\ report' = [report EXCEPT !.tick = clock, !.todo = Rules \cap enabled]
  /\ UNCHANGED <<clock, enabled, link, auto, memory, logs, runs, history, faults>>

RuleDue(r) ==
  IF r \in Fixed THEN Takes(r) ELSE due[r] = Never \/ clock - due[r] >= Period

Remember(r) ==
  IF r \in Fixed THEN marked' = [marked EXCEPT ![r] = @ \cup {Minute}] /\ UNCHANGED due
  ELSE due' = [due EXCEPT ![r] = clock] /\ UNCHANGED marked

\* device_status_due, then the quiet hours: what they suppress is not made up for.
EvaluateRule(r) ==
  /\ IsFirst(r, RuleList, report.todo) /\ report.busy = None
  /\ \E quiet \in BOOLEAN :
       /\ report' = [report EXCEPT !.todo = @ \ {r},
                                   !.busy = IF RuleDue(r) /\ ~quiet THEN r ELSE None]
       /\ IF RuleDue(r)
          THEN /\ Remember(r) /\ Started(r)
               /\ ended' = [e \in Periodic |-> IF e = r THEN clock ELSE ended[e]]
               /\ forgotten' = forgotten \ {r}
          ELSE ~quiet /\ UNCHANGED <<memory, started, ended, forgotten>>
  /\ UNCHANGED <<clock, enabled, link, auto, logs, runs, excused, missed, rebooted, faults>>

\* The report is collected and given to the notification rules.
Reported ==
  /\ report.busy # None
  /\ report' = [report EXCEPT !.busy = None]
  /\ UNCHANGED <<clock, enabled, link, auto, memory, logs, runs, history, faults>>

-----------------------------------------------------------------------------
(* The user, the link, restarts. *)

Toggle(e) ==
  /\ Fault
  /\ enabled' = IF e \in enabled THEN enabled \ {e} ELSE enabled \cup {e}
  /\ excused' = excused \cup (Fixed \cap {e})
  /\ UNCHANGED <<clock, link, auto, report, memory, logs, runs, started, ended, forgotten,
                 missed, rebooted>>

\* The test button runs a task whatever the Hub does.
TestRun(t) ==
  /\ Fault
  /\ runs' = runs \cup {Spawned(t, "user", "work")}
  /\ UNCHANGED <<clock, enabled, link, auto, report, memory, logs, history>>

ClearLogs ==
  /\ Fault
  /\ logs' = <<>> /\ forgotten' = forgotten \cup LostBy(<<>>)
  /\ UNCHANGED <<clock, enabled, link, auto, report, memory, runs, started, ended, excused,
                 missed, rebooted>>

\* The session starts or ends, or the user switches the Hub: a new runtime
\* counts as offline from now on.
LinkChanges ==
  /\ Fault
  /\ \/ link.enabled /\ ~link.online /\ link' = [link EXCEPT !.online = TRUE]
     \/ link.enabled /\ link.online /\ link' = [link EXCEPT !.online = FALSE, !.since = clock]
     \/ link.enabled /\ link' = [enabled |-> FALSE, online |-> FALSE, since |-> 0]
     \/ ~link.enabled /\ link' = [enabled |-> TRUE, online |-> FALSE, since |-> clock]
  /\ excused' = excused \cup (Fixed \cap Tasks)
  /\ UNCHANGED <<clock, enabled, auto, report, memory, logs, runs, started, ended, forgotten,
                 missed, rebooted>>

Restart ==
  /\ Fault
  /\ auto' = [tick |-> clock, todo |-> {}]
  /\ report' = [tick |-> clock, todo |-> {}, busy |-> None]
  /\ marked' = [e \in Fixed |-> {}]
  /\ due' = [r \in Rules \cap Periodic |-> Never]
  /\ runs' = {}
  /\ link' = [link EXCEPT !.online = FALSE, !.since = IF link.enabled THEN clock ELSE 0]
  /\ forgotten' = forgotten \cup (Rules \cap Periodic)
  /\ excused' = Fixed
  /\ rebooted' = rebooted \cup {Minute}
  /\ UNCHANGED <<clock, enabled, logs, started, ended, missed>>

SchedulesNext ==
  \/ Advance \/ AutoTick \/ ReportTick \/ Reported
  \/ \E t \in Tasks : EvaluateFixed(t) \/ EvaluatePeriodic(t) \/ QueryFails(t) \/ TestRun(t)
  \/ \E r \in runs : Check(r) \/ Finish(r)
  \/ \E r \in Rules : EvaluateRule(r)
  \/ \E e \in Entries : Toggle(e)
  \/ ClearLogs \/ LinkChanges \/ Restart

SchedulesSpec == SchedulesInit /\ [][SchedulesNext]_schedules

-----------------------------------------------------------------------------
\* A fixed entry starts exactly once in a minute it names: at most once although
\* its loop comes by twice in it, as only a restart makes the loops forget, and at
\* least once if the device schedules in that minute and, for a rule, no report
\* keeps the loop busy, as the sleep of 30 seconds misses no minute;
\* all in well-typed states.
\* (fixed_last_run, fixed_sent_keys, start_automation_scheduler,
\* spawn_device_status_scheduler)
FixedOnce ==
  /\ [](SchedulesTypeOK /\ missed = {})
  /\ [][\A e \in Fixed :
         started'[e] # started[e] =>
           started[e] = Never \/ started[e] \div 2 # Minute \/ Minute \in rebooted]_schedules

\* A loop does not start a periodic entry within its period after its last end,
\* unless that end is not in the program's reach: its row was deleted by the
\* cleanup or by the user, could not be written or read, or was in memory.
\* (get_last_log_for_task, last_interval_sent)
PeriodAfterEnd ==
  [][\A e \in Periodic :
       started'[e] # started[e] =>
         \/ ended[e] = Never \/ clock - ended[e] >= Period
         \/ e \in forgotten \cup forgotten']_schedules

\* A periodic task is started once in its period.
\* (README: the interval mode runs a task, for instance, every 180 days)
OncePerPeriod ==
  [][\A t \in Tasks \cap Periodic :
       started'[t] # started[t] => started[t] = Never \/ clock - started[t] >= Period]_schedules
=============================================================================
