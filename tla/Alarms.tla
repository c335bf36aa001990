------------------------------- MODULE Alarms -------------------------------
(***************************************************************************)
(* The system event monitor's alarms and the alert on failed logins.  An   *)
(* alarm is triggered by a number of bad samples in a row and ended by a   *)
(* number of good ones; what lies between the two limits is neither.  The  *)
(* alert is given for enough failures within a window, once per window.    *)
(***************************************************************************)
EXTENDS Integers, Sequences, FiniteSets

CONSTANTS
  Limits,      \* pairs of *_TRIGGER_SAMPLES and *_RECOVER_SAMPLES
  MaxSamples,  \* bound on samples
  Threshold,   \* LOGIN_FAILURE_THRESHOLD
  Window,      \* LOGIN_FAILURE_WINDOW, in ticks
  MaxFailures, \* bound on failed logins
  MaxTime      \* bound on ticks

ASSUME AlarmsAssumption ==
  /\ Limits \subseteq (Nat \ {0}) \X (Nat \ {0})
  /\ {MaxSamples, Threshold, MaxFailures, MaxTime} \subseteq Nat
  /\ Window \in Nat \ {0}

VARIABLES
  limit,    \* the limits of this alarm
  counter,  \* its AlarmCounter
  codes,    \* the enabled ones of its two event codes
  told,     \* the last event emitted
  samples,  \* history: the samples taken
  muted,    \* history: a code was disabled at some time
  now,
  timestamps, lastNotification,  \* LoginFailureState
  failures, \* history: the times of all failures counted
  alerts    \* history: the times of the alerts

alarm  == <<limit, counter, codes, told, samples, muted>>
logins == <<now, timestamps, lastNotification, failures, alerts>>
watch  == <<alarm, logins>>

-----------------------------------------------------------------------------
Codes   == {"triggered", "recovered"}
Samples == {"bad", "between", "good"}
Never   == MaxTime + 1
AnyLimit == CHOOSE l \in Limits : TRUE
NoAlarm == [active |-> FALSE, bad |-> 0, good |-> 0]

AlarmsTypeOK ==
  /\ limit \in Limits
  /\ counter \in [active : BOOLEAN, bad : 0..MaxSamples, good : 0..MaxSamples]
  /\ codes \subseteq Codes /\ told \in Codes \cup {"nothing"}
  /\ samples \in Seq(Samples) /\ Len(samples) <= MaxSamples
  /\ muted \in BOOLEAN
  /\ now \in 0..MaxTime
  /\ timestamps \in Seq(0..MaxTime) /\ failures \in Seq(0..MaxTime)
  /\ lastNotification \in 0..MaxTime \cup {Never}
  /\ alerts \in Seq(0..MaxTime)

AlarmsInit ==
  /\ limit \in Limits
  /\ counter = NoAlarm
  /\ codes \in {Codes, {"recovered"}}
  /\ muted = (codes # Codes)
  /\ told = "nothing"
  /\ samples = <<>>
  /\ now = 0
  /\ timestamps = <<>>
  /\ lastNotification = Never
  /\ failures = <<>>
  /\ alerts = <<>>

-----------------------------------------------------------------------------
(* AlarmCounter::update *)

\* Mutant: good samples need not be in a row.
CountGoodAnyhow(s) ==
  LET good == counter.good + (IF s = "good" THEN 1 ELSE 0)
  IN  IF good >= limit[2] THEN NoAlarm ELSE [counter EXCEPT !.good = good]

CountGood(s) ==
  LET good == IF s = "good" THEN counter.good + 1 ELSE 0
  IN  IF good >= limit[2] THEN NoAlarm ELSE [counter EXCEPT !.good = good]

CountBad(s) ==
  LET bad == IF s = "bad" THEN counter.bad + 1 ELSE 0
  IN  IF bad >= limit[1] THEN [NoAlarm EXCEPT !.active = TRUE] ELSE [counter EXCEPT !.bad = bad]

Update(s) == IF counter.active THEN CountGood(s) ELSE CountBad(s)

Transition(old, new) ==
  CASE new.active /\ ~old.active -> "triggered"
    [] old.active /\ ~new.active -> "recovered"
    [] OTHER                     -> "nothing"

\* One resource in one round of sample_resources; it is skipped while both
\* codes are disabled or it cannot be read.  emit_code tests its own code.
Sample(s) ==
  /\ codes # {}
  /\ Len(samples) < MaxSamples
  /\ samples' = Append(samples, s)
  /\ counter' = Update(s)
  /\ told' = IF Transition(counter, counter') \in codes
             THEN Transition(counter, counter') ELSE told
  /\ UNCHANGED <<limit, codes, muted>>

SetCodes(c) ==
  /\ c # codes
  /\ Len(samples) < MaxSamples
  /\ codes' = c
  /\ muted' = TRUE
  /\ UNCHANGED <<limit, counter, told, samples>>

-----------------------------------------------------------------------------
(* record_login_failure *)

\* pop_front, until the first that is young enough
Outdated(t) ==
  CHOOSE k \in 0..Len(timestamps) :
    /\ \A i \in 1..k : t - timestamps[i] > Window
    /\ k < Len(timestamps) => t - timestamps[k + 1] <= Window

Remembered(t) == SubSeq(timestamps, Outdated(t) + 1, Len(timestamps))

CooledDown == lastNotification = Never \/ now - lastNotification >= Window

LoginFails ==
  /\ Len(failures) < MaxFailures
  /\ timestamps' = Append(Remembered(now), now)
  /\ failures' = Append(failures, now)
  /\ IF Len(timestamps') >= Threshold /\ CooledDown
     THEN lastNotification' = now /\ alerts' = Append(alerts, now)
     ELSE UNCHANGED <<lastNotification, alerts>>
  /\ UNCHANGED now

TimePasses ==
  /\ now < MaxTime
  /\ now' = now + 1
  /\ UNCHANGED <<timestamps, lastNotification, failures, alerts>>

AlarmNext ==
  \/ \E s \in Samples : Sample(s)
  \/ \E c \in SUBSET Codes : SetCodes(c)

LoginsNext == LoginFails \/ TimePasses

-----------------------------------------------------------------------------
AllAre(s, from, to) == \A i \in from..to : samples[i] = s

\* The alarm is on if at some time enough samples in a row were bad, and since
\* then never enough in a row were good.
OnByDefinition ==
  \E i \in limit[1]..Len(samples) :
    /\ AllAre("bad", i - limit[1] + 1, i)
    /\ \A j \in (i + limit[2])..Len(samples) : ~AllAre("good", j - limit[2] + 1, j)

InWindow(t) == Cardinality({i \in DOMAIN failures : t - failures[i] \in 0..Window})

\* The counters of an alarm, which are reset at each change, agree with what
\* the whole sequence of samples says; what the user was last told is the state
\* of the alarm, unless a code was disabled.  The failures that were dropped
\* from the list make no difference: each alert has enough failures behind it,
\* alerts are a window apart, and enough failures never go without an alert
\* within the last window.  (AlarmCounter::update, record_login_failure)
AlarmsExact ==
  /\ counter.active = OnByDefinition
  /\ ~muted => (told = "triggered") = counter.active
  /\ \A i \in 1..Len(alerts) :
       /\ InWindow(alerts[i]) >= Threshold
       /\ i > 1 => alerts[i] - alerts[i - 1] >= Window
  /\ failures # <<>> =>
       LET last == failures[Len(failures)]
       IN  InWindow(last) >= Threshold => \E i \in 1..Len(alerts) : last - alerts[i] < Window
=============================================================================
