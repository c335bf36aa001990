-------------------------- MODULE CellularControl --------------------------
(***************************************************************************)
(* Who moves the modem of a device: the requests of the user and of the    *)
(* Hub (data switch, roaming, airplane mode, APN, baseband restart, eSIM   *)
(* profile switch, operator registration), the task that restores the data *)
(* connection after a start, and the watchdog that looks at the modem      *)
(* every 15 seconds.  They meet in the modem, in NetworkManager's profile, *)
(* in three flags in memory and in the configuration.  One global lock,    *)
(* with_serial, covers most of what they do; what a task read before it    *)
(* waited for the lock may be stale when it gets it, and the watchdog's    *)
(* radio cycle does not take the lock at all.                              *)
(*                                                                         *)
(* The modem, ModemManager and NetworkManager are external: they are what  *)
(* src/backend/src/modem_manager.rs expects of them.                       *)
(***************************************************************************)
EXTENDS Naturals

CONSTANTS
  Requests,     \* requests that may be under way at once
  Ops,          \* the operations they may ask for
  MaxRequests,  \* bound on the requests made
  MaxFaults,    \* bound on faults, cancellations and restarts together
  MaxEvents,    \* bound on requests and faults together
  ScanAfter, RestartAfter,     \* ticks without a modem
  RegisterAfter, CycleAfter,   \* ticks of searching
  IdleAfter, FailedAfter, StuckAfter

Switches  == {"dataOn", "dataOff", "hubDataOn", "hubDataOff"}
Airplanes == {"airplaneOn", "airplaneOff", "hubAirplaneOn", "hubAirplaneOff"}
AllOps    == Switches \cup Airplanes
               \cup {"roaming", "hubApn", "restart", "hubRestart", "profile", "register"}

ASSUME ConstantsAssumption ==
  /\ Requests \cap {"watchdog", "boot", "free"} = {}
  /\ Ops \subseteq AllOps
  /\ {MaxRequests, MaxFaults, MaxEvents, ScanAfter, RestartAfter, RegisterAfter, CycleAfter,
      IdleAfter, FailedAfter, StuckAfter} \subseteq Nat

VARIABLES
  radio,       \* the State property of the modem, "missing" without a modem
  profile,     \* NetworkManager's cellular profile; "held": taken down by nmcli
  stuck,       \* the modem does not move until it is cycled or restarted
  offBy,       \* history: what switched the radio off last
  dataOff,     \* data_user_disabled
  dataConfig,  \* data_enabled in the configuration
  autoconnect, \* autoconnect of the profile
  syncing,     \* detached tasks that will set autoconnect, with their value
  crossed,     \* history: two data switches were between save and flag
  airplane,    \* airplane_mode_requested
  running,     \* BASEBAND_RESTART_RUNNING
  lock,        \* DBUS_LOCK
  job,         \* what each task is doing
  seen,        \* the watchdog's counter for the state it saw last
  missing,     \* the watchdog's count of ticks without a modem
  cool,        \* the watchdog's cool-downs that are active
  faults,
  requests

modem    == <<radio, profile, stuck, offBy>>
switch   == <<dataOff, dataConfig, autoconnect, syncing, crossed>>
flags    == <<airplane, running>>
counters == <<seen, missing, cool>>
vars     == <<modem, switch, flags, lock, job, counters, faults, requests>>

-----------------------------------------------------------------------------
Watchdog  == "watchdog"
Boot      == "boot"
Free      == "free"
Processes == Requests \cup {Watchdog, Boot}

On      == {"enabled", "searching", "registered", "changing", "connected"}
Present == On \cup {"disabled"}
Radio   == Present \cup {"missing", "failed"}
Active  == {"broken", "ready"}

Idle  == [op |-> "none", step |-> "idle", dial |-> FALSE]
Steps == {"boot", "profile", "serial", "again", "cycle", "dark", "power", "appear",
          "dial", "save", "flag"}

\* The steps a task takes with the lock in its hand.
Sections == {"dark", "power", "appear", "dial"}

TypeOK ==
  /\ radio \in Radio
  /\ profile \in Active \cup {"none", "held"}
  /\ stuck \in BOOLEAN
  /\ offBy \in {"nothing", "airplane", "cycle", "cut", "modem"}
  /\ {dataOff, dataConfig, autoconnect, crossed, airplane, running} \subseteq BOOLEAN
  /\ syncing \in SUBSET BOOLEAN
  /\ lock \in {Free} \cup {p \in Processes : job[p].step \in Sections}
  /\ job \in [Processes -> [op : AllOps \cup {"on", "off", "cycle", "boot"}, step : Steps,
                            dial : BOOLEAN] \cup {Idle}]
  /\ seen \in [state : Radio, n : Nat, asked : BOOLEAN]
  /\ missing \in [n : Nat, scanned : BOOLEAN]
  /\ cool \in SUBSET {"data", "search", "restart"}
  /\ faults \in 0..MaxFaults
  /\ requests \in 0..MaxRequests

Fresh == <<[state |-> "missing", n |-> 0, asked |-> FALSE], [n |-> 0, scanned |-> FALSE], {}>>

\* The service starts on a device whose data switch was left on or off.
Init ==
  /\ radio = "searching"
  /\ profile = "none"
  /\ stuck = FALSE
  /\ offBy = "nothing"
  /\ dataConfig \in BOOLEAN
  /\ dataOff = ~dataConfig
  /\ autoconnect = dataConfig
  /\ syncing = {}
  /\ crossed = FALSE
  /\ airplane = FALSE
  /\ running = FALSE
  /\ lock = Free
  /\ job = [p \in Processes |-> IF p = Boot THEN [Idle EXCEPT !.op = "boot", !.step = "boot"]
                                ELSE Idle]
  /\ seen = Fresh[1] /\ missing = Fresh[2] /\ cool = Fresh[3]
  /\ faults = 0
  /\ requests = 0

-----------------------------------------------------------------------------
(* What the calls do to the modem.  A call that fails although the modem   *)
(* could have obeyed is a fault.                                           *)

Fault ==
  /\ faults < MaxFaults
  /\ faults + requests < MaxEvents
  /\ faults' = faults + 1

EnableRadio(ok) ==
  \/ /\ ok /\ radio \in On
     /\ UNCHANGED <<modem, faults>>
  \/ /\ ok /\ radio = "disabled"
     /\ radio' = "enabled"
     /\ stuck' = FALSE
     /\ UNCHANGED <<profile, offBy, faults>>
  \/ /\ ~ok /\ radio = "disabled"
     /\ Fault
     /\ offBy' = IF offBy = "cycle" THEN "cut" ELSE offBy
     /\ UNCHANGED <<radio, profile, stuck>>
  \/ /\ ~ok /\ radio \notin Present
     /\ UNCHANGED <<modem, faults>>

\* A modem that is changing is waited for, in vain if it is stuck and not forced
\* off by AT+CFUN=4, which only the watchdog's cycle sends.
DisableRadio(ok, why, forced) ==
  \/ /\ ok /\ radio \in Present
     /\ radio = "changing" /\ stuck => forced
     /\ radio' = "disabled"
     /\ profile' = IF radio = "disabled" THEN profile ELSE "none"
     /\ offBy' = why
     /\ UNCHANGED <<stuck, faults>>
  \/ /\ ~ok /\ radio \in On
     /\ Fault
     /\ UNCHANGED modem
  \/ /\ ~ok
     /\ radio \notin Present \/ (radio = "changing" /\ stuck /\ ~forced)
     /\ UNCHANGED <<modem, faults>>

\* nmcli connection up: it can also bring up a radio that is off.
Activate(ok) ==
  \/ /\ ok
     /\ radio \in {"registered", "connected"} \/ (radio \in {"disabled", "enabled", "searching"}
                                                  /\ ~stuck)
     /\ radio' = "connected"
     /\ profile' = "ready"
     /\ stuck' = FALSE
     /\ UNCHANGED <<offBy, faults>>
  \/ /\ ~ok /\ radio \in {"registered", "connected"}
     /\ Fault
     /\ \/ radio' = "registered" /\ profile' = "none"
        \/ radio' = "connected" /\ profile' = "broken"
        \/ radio' = "changing" /\ profile' = "none"
     /\ UNCHANGED <<stuck, offBy>>
  \/ /\ ~ok /\ radio \notin {"registered", "connected"}
     /\ UNCHANGED <<modem, faults>>

DataOn(ok) ==
  \/ /\ ok
     /\ radio = "changing" \/ (radio = "connected" /\ profile = "ready")
     /\ UNCHANGED <<modem, faults>>
  \/ /\ radio # "changing"
     /\ radio # "connected" \/ profile # "ready"
     /\ Activate(ok)

DataOff(ok) ==
  \/ /\ ok /\ profile \in Active
     /\ profile' = "held"
     /\ \/ radio' = (IF radio = "connected" THEN "registered" ELSE radio) /\ UNCHANGED faults
        \/ radio' = radio /\ Fault      \* another bearer keeps the modem connected
     /\ UNCHANGED <<stuck, offBy>>
  \/ /\ ok /\ profile \notin Active
     /\ UNCHANGED <<modem, faults>>
  \/ /\ ~ok
     /\ Fault
     /\ UNCHANGED modem

-----------------------------------------------------------------------------
Restarts == {"restart", "hubRestart", "profile"}

At(p, step)   == job[p].step = step
Goto(p, step) == job' = [job EXCEPT ![p].step = step]

\* A job ends, however it ends: the guards of the lock and of the flag drop.
Finish(p) ==
  /\ job' = [job EXCEPT ![p] = Idle]
  /\ lock' = IF lock = p THEN Free ELSE lock
  /\ running' = (running /\ job[p].op \notin Restarts)

Begin(r, op, step, dial) ==
  /\ At(r, "idle")
  /\ op \in Ops
  /\ requests < MaxRequests
  /\ faults + requests < MaxEvents
  /\ requests' = requests + 1
  /\ job' = [job EXCEPT ![r] = [op |-> op, step |-> step, dial |-> dial]]
  /\ UNCHANGED <<modem, lock, counters, faults>>

AskData(r, op) ==
  /\ op \in Switches
  /\ Begin(r, op, "serial", FALSE)
  /\ UNCHANGED <<switch, flags>>

\* The handler sets the flag before it waits for the lock; the Hub's action
\* never touches the flag.
AskAirplane(r, op) ==
  /\ op \in Airplanes
  /\ Begin(r, op, "serial", FALSE)
  /\ airplane' = (airplane \/ op = "airplaneOn")
  /\ UNCHANGED <<switch, running>>

\* Roaming is applied at once when the modem is connected.
AskRoaming(r) ==
  /\ radio = "connected"
  /\ Begin(r, "roaming", "serial", FALSE)
  /\ UNCHANGED <<switch, flags>>

\* The APN command acts on the data switch it reads in the configuration.
AskApn(r) ==
  /\ Begin(r, "hubApn", "serial", dataConfig)
  /\ UNCHANGED <<switch, flags>>

AskRegister(r) ==
  /\ Begin(r, "register", "serial", FALSE)
  /\ UNCHANGED <<switch, flags>>

AskRestart(r, op) ==
  /\ op \in {"restart", "hubRestart"}
  /\ Begin(r, op, "serial", IF op = "restart" THEN ~dataOff ELSE dataConfig)
  /\ running' = TRUE
  /\ UNCHANGED <<switch, airplane>>

AskProfile(r) ==
  /\ Begin(r, "profile", "profile", FALSE)
  /\ running' = TRUE
  /\ UNCHANGED <<switch, airplane>>

-----------------------------------------------------------------------------
(* Sections under the lock that do one thing. *)

Waiting(p, ops) == At(p, "serial") /\ job[p].op \in ops /\ lock = Free

SerialData(p) ==
  /\ Waiting(p, Switches)
  /\ \E ok \in BOOLEAN :
       /\ IF job[p].op \in {"dataOn", "hubDataOn"} THEN DataOn(ok) ELSE DataOff(ok)
       /\ IF ok THEN Goto(p, "save") ELSE job' = [job EXCEPT ![p] = Idle]
  /\ UNCHANGED <<switch, flags, lock, counters, requests>>

\* The activations that are not a switch of the user's.
SerialApply(p) ==
  /\ Waiting(p, {"on", "off", "hubApn"})
  /\ \E ok \in BOOLEAN : IF job[p].op = "on" \/ job[p].dial THEN DataOn(ok) ELSE DataOff(ok)
  /\ job' = [job EXCEPT ![p] = Idle]
  /\ UNCHANGED <<switch, flags, lock, counters, requests>>

\* apply_roaming_policy takes the lock twice: off, then on.
SerialRoaming(p) ==
  /\ lock = Free
  /\ job[p].op = "roaming"
  /\ \E ok \in BOOLEAN :
       \/ /\ At(p, "serial")
          /\ DataOff(ok)
          /\ IF ok THEN Goto(p, "again") ELSE job' = [job EXCEPT ![p] = Idle]
       \/ /\ At(p, "again")
          /\ DataOn(ok)
          /\ job' = [job EXCEPT ![p] = Idle]
  /\ UNCHANGED <<switch, flags, lock, counters, requests>>

SerialAirplane(p) ==
  /\ Waiting(p, Airplanes)
  /\ \E ok \in BOOLEAN :
       /\ IF job[p].op \in {"airplaneOn", "hubAirplaneOn"} THEN DisableRadio(ok, "airplane", FALSE)
          ELSE EnableRadio(ok)
       /\ IF ok /\ p \in Requests /\ job[p].op \in {"airplaneOn", "airplaneOff"}
          THEN Goto(p, "flag") ELSE job' = [job EXCEPT ![p] = Idle]
  /\ UNCHANGED <<switch, flags, lock, counters, requests>>

\* Registration; an internal error of the modem is answered by a radio reset.
SerialRegister(p) ==
  /\ Waiting(p, {"register"})
  /\ \/ /\ job' = [job EXCEPT ![p] = Idle]
        /\ UNCHANGED <<modem, lock, faults>>
     \/ \E ok \in BOOLEAN :
          /\ DisableRadio(ok, "cycle", FALSE)
          /\ IF ok THEN Goto(p, "dark") /\ lock' = p
             ELSE job' = [job EXCEPT ![p] = Idle] /\ UNCHANGED lock
  /\ UNCHANGED <<switch, flags, counters, requests>>

-----------------------------------------------------------------------------
(* Sections that switch the radio off and on again. *)

\* restart_baseband_inner goes on when the radio cannot be switched off.
RestartOff(p) ==
  /\ Waiting(p, {"restart", "hubRestart"})
  /\ \/ /\ radio = "missing"
        /\ Finish(p)
        /\ UNCHANGED <<modem, faults>>
     \/ /\ radio # "missing"
        /\ \E ok \in BOOLEAN : DisableRadio(ok, "cycle", FALSE)
        /\ Goto(p, "dark")
        /\ lock' = p
        /\ UNCHANGED running
  /\ UNCHANGED <<switch, airplane, counters, requests>>

\* Mutant: the cycle gives up when the radio did not go off cleanly.
CycleOffOnly ==
  /\ At(Watchdog, "cycle")
  /\ \E ok \in BOOLEAN : DisableRadio(ok, "cycle", TRUE)
  /\ job' = [job EXCEPT ![Watchdog] = Idle]
  /\ UNCHANGED <<switch, flags, lock, counters, requests>>

\* The watchdog's cycle_modem_radio_deep, which does not take the lock.
CycleOff ==
  /\ At(Watchdog, "cycle")
  /\ \E ok \in BOOLEAN : DisableRadio(ok, "cycle", TRUE)
  /\ Goto(Watchdog, "dark")
  /\ UNCHANGED <<switch, flags, lock, counters, requests>>

LightOn(p) ==
  /\ At(p, "dark")
  /\ \E ok \in BOOLEAN :
       /\ EnableRadio(ok)
       /\ IF ok /\ job[p].op \in Restarts THEN Goto(p, "dial") /\ UNCHANGED <<lock, running>>
          ELSE Finish(p)
  /\ UNCHANGED <<switch, airplane, counters, requests>>

\* The last step of a restart: dial if data was on when it began, then wait
\* for the registration.
Dial(p) ==
  /\ At(p, "dial")
  /\ \/ job[p].dial /\ radio # "connected" /\ \E ok \in BOOLEAN : Activate(ok)
     \/ UNCHANGED <<modem, faults>>
  /\ Finish(p)
  /\ UNCHANGED <<switch, airplane, counters, requests>>

\* The eSIM switch runs detached; the flags are read after the profile is on.
ProfileEnabled(p) ==
  /\ At(p, "profile")
  /\ \/ /\ job' = [job EXCEPT ![p].step = "serial", ![p].dial = ~dataOff]
        /\ UNCHANGED <<lock, running>>
     \/ Finish(p)
  /\ UNCHANGED <<modem, switch, airplane, counters, faults, requests>>

\* power_cycle_sim_for_profile_switch: a QMI modem goes with ModemManager, any
\* other loses its registration.
PowerOff(p) ==
  /\ Waiting(p, {"profile"})
  /\ lock' = p
  /\ profile' = "none"
  /\ \/ /\ radio' = "missing"
        /\ stuck' = TRUE
        /\ Goto(p, "power")
     \/ /\ radio' = IF radio \in On THEN "searching" ELSE radio
        /\ UNCHANGED stuck
        /\ Goto(p, "appear")
  /\ UNCHANGED <<offBy, switch, flags, counters, faults, requests>>

PowerOn(p) ==
  /\ At(p, "power")
  /\ \/ stuck' = FALSE /\ Goto(p, "appear") /\ UNCHANGED <<lock, running, faults>>
     \/ Fault /\ Finish(p) /\ UNCHANGED stuck
  /\ UNCHANGED <<radio, profile, offBy, switch, airplane, counters, requests>>

Reappear(p) ==
  /\ At(p, "appear")
  /\ \/ radio \in Present /\ Goto(p, "dial") /\ UNCHANGED <<lock, running>>
     \/ radio \notin Present /\ Finish(p)
  /\ UNCHANGED <<modem, switch, airplane, counters, faults, requests>>

-----------------------------------------------------------------------------
(* What a request does after its section under the lock. *)

\* Mutant: a configuration that cannot be saved does not stop the request.
SaveSwitchAnyway(p) ==
  /\ At(p, "save")
  /\ \/ /\ dataConfig' = (job[p].op \in {"dataOn", "hubDataOn"})
        /\ crossed' = (crossed \/ \E q \in Requests : At(q, "flag") /\ job[q].op \in Switches)
        /\ UNCHANGED faults
     \/ Fault /\ UNCHANGED <<dataConfig, crossed>>
  /\ Goto(p, "flag")
  /\ UNCHANGED <<modem, dataOff, autoconnect, syncing, flags, lock, counters, requests>>

\* The configuration is saved; if that fails the request ends there.
SaveSwitch(p) ==
  /\ At(p, "save")
  /\ \/ /\ dataConfig' = (job[p].op \in {"dataOn", "hubDataOn"})
        /\ crossed' = (crossed \/ \E q \in Requests : At(q, "flag") /\ job[q].op \in Switches)
        /\ Goto(p, "flag")
        /\ UNCHANGED faults
     \/ /\ Fault
        /\ job' = [job EXCEPT ![p] = Idle]
        /\ UNCHANGED <<dataConfig, crossed>>
  /\ UNCHANGED <<modem, dataOff, autoconnect, syncing, flags, lock, counters, requests>>

\* Only the handler, not the Hub's action, has NetworkManager follow.
StoreSwitch(p) ==
  /\ At(p, "flag")
  /\ job[p].op \in Switches
  /\ dataOff' = (job[p].op \in {"dataOff", "hubDataOff"})
  /\ syncing' = syncing \cup {on \in BOOLEAN : job[p].op = IF on THEN "dataOn" ELSE "dataOff"}
  /\ job' = [job EXCEPT ![p] = Idle]
  /\ UNCHANGED <<modem, dataConfig, autoconnect, crossed, flags, lock, counters, faults, requests>>

SyncAutoconnect(on) ==
  /\ on \in syncing
  /\ autoconnect' = on
  /\ syncing' = syncing \ {on}
  /\ UNCHANGED <<modem, dataOff, dataConfig, crossed, flags, lock, job, counters, faults, requests>>

StoreAirplane(p) ==
  /\ At(p, "flag")
  /\ job[p].op \in Airplanes
  /\ airplane' = (job[p].op = "airplaneOn")
  /\ job' = [job EXCEPT ![p] = Idle]
  /\ UNCHANGED <<modem, switch, running, lock, counters, faults, requests>>

\* The client goes away or the time limit of the task ends: the request is
\* dropped where it waits.  At "save" it is dropped inside the section, after
\* nmcli was started.  The eSIM switch is detached and is not dropped.
Cancel(p) ==
  /\ Fault
  /\ job[p].op # "profile"
  /\ job[p].step \in {"serial", "again", "dark", "dial", "save"}
  /\ Finish(p)
  /\ offBy' = IF offBy = "cycle" /\ radio = "disabled" THEN "cut" ELSE offBy
  /\ UNCHANGED <<radio, profile, stuck, switch, airplane, counters, requests>>

-----------------------------------------------------------------------------
(* The task that restores the connection after a start. *)

BootBegin ==
  /\ At(Boot, "boot")
  /\ autoconnect' = ~dataOff
  /\ job' = [job EXCEPT ![Boot] =
       IF dataOff THEN [Idle EXCEPT !.op = "off", !.step = "serial"]
       ELSE IF radio = "registered" \/ (radio = "connected" /\ profile # "ready")
            THEN [Idle EXCEPT !.op = "on", !.step = "serial"]
            ELSE Idle]
  /\ UNCHANGED <<modem, dataOff, dataConfig, syncing, crossed, flags, lock, counters, faults,
                 requests>>

\* The service stops wherever it is and starts again.
Restart ==
  /\ Fault
  /\ job' = [p \in Processes |-> IF p = Boot THEN [Idle EXCEPT !.op = "boot", !.step = "boot"]
                                 ELSE Idle]
  /\ dataOff' = ~dataConfig
  /\ airplane' = FALSE
  /\ running' = FALSE
  /\ lock' = Free
  /\ syncing' = {}
  /\ crossed' = FALSE
  /\ seen' = Fresh[1] /\ missing' = Fresh[2] /\ cool' = Fresh[3]
  /\ offBy' = IF offBy = "cycle" /\ radio = "disabled" THEN "cut" ELSE offBy
  /\ UNCHANGED <<radio, profile, stuck, dataConfig, autoconnect, requests>>

-----------------------------------------------------------------------------
(* The watchdog: one action per branch of a tick. *)

Tick(op, step) ==
  /\ At(Watchdog, "idle")
  /\ ~running
  /\ job' = IF op = "none" THEN job
            ELSE [job EXCEPT ![Watchdog] = [op |-> op, step |-> step, dial |-> FALSE]]
  /\ UNCHANGED <<switch, flags, lock, requests>>

Count == IF seen.state = radio THEN seen.n ELSE 0
Asked == seen.state = radio /\ seen.asked

\* A modem was found: every counter but the one of its state starts again.
Saw(n, asked) ==
  /\ radio # "missing"
  /\ seen' = [state |-> radio, n |-> n, asked |-> asked]
  /\ missing' = [n |-> 0, scanned |-> FALSE]

WatchAirplane ==
  /\ airplane
  /\ Saw(Count, Asked)
  /\ IF radio \in On THEN Tick("airplaneOn", "serial") ELSE Tick("none", "idle")
  /\ UNCHANGED <<modem, cool, faults>>

WatchIdle ==
  /\ ~airplane /\ radio = "enabled"
  /\ LET n == Count + 1 IN
       IF n < IdleAfter THEN Saw(n, FALSE) /\ Tick("none", "idle")
       ELSE Saw(0, FALSE) /\ Tick("cycle", "cycle")
  /\ UNCHANGED <<modem, cool, faults>>

\* Mutant: the counter starts again at every tick.
WatchSearchingForgets ==
  /\ ~airplane /\ radio = "searching"
  /\ Saw(0, TRUE)
  /\ IF Asked THEN Tick("none", "idle") ELSE Tick("register", "serial")
  /\ UNCHANGED <<modem, cool, faults>>

WatchSearching ==
  /\ ~airplane /\ radio = "searching"
  /\ LET n == IF Count < CycleAfter THEN Count + 1 ELSE Count IN
       \/ /\ n >= CycleAfter /\ "search" \notin cool
          /\ Saw(0, FALSE)
          /\ cool' = cool \cup {"search"}
          /\ Tick("cycle", "cycle")
       \/ /\ n < CycleAfter \/ "search" \in cool
          /\ n >= RegisterAfter /\ ~Asked
          /\ Saw(n, TRUE)
          /\ Tick("register", "serial")
          /\ UNCHANGED cool
       \/ /\ n < CycleAfter \/ "search" \in cool
          /\ n < RegisterAfter \/ Asked
          /\ Saw(n, Asked)
          /\ Tick("none", "idle")
          /\ UNCHANGED cool
  /\ UNCHANGED <<modem, faults>>

\* ModemManager is restarted: the modem goes and can come back.
RestartModemManager ==
  /\ radio' = "missing"
  /\ profile' = "none"
  /\ stuck' = FALSE
  /\ UNCHANGED offBy

WatchFailed ==
  /\ ~airplane /\ radio = "failed"
  /\ LET n == Count + 1 IN
       IF n < FailedAfter THEN Saw(n, FALSE) /\ UNCHANGED <<modem, faults>>
       ELSE /\ Saw(0, FALSE)
            /\ \/ RestartModemManager /\ UNCHANGED faults
               \/ Fault /\ UNCHANGED modem
  /\ Tick("none", "idle")
  /\ UNCHANGED cool

\* A radio that is off is waited for: nothing the watchdog does turns it on.
WatchWaiting ==
  /\ ~airplane /\ radio = "disabled"
  /\ Saw(0, FALSE)
  /\ Tick("none", "idle")
  /\ UNCHANGED <<modem, cool, faults>>

\* A connected modem is repaired whether or not the user switched data off.
WatchConnected ==
  /\ ~airplane /\ radio = "connected"
  /\ Saw(0, FALSE)
  /\ \/ /\ profile = "ready"
        /\ cool' = cool \ {"data"}
        /\ Tick("none", "idle")
     \/ /\ profile # "ready"
        /\ cool' = cool \cup {"data"}
        /\ IF "data" \in cool THEN Tick("none", "idle") ELSE Tick("on", "serial")
  /\ UNCHANGED <<modem, faults>>

WatchTransition ==
  /\ ~airplane /\ radio = "changing"
  /\ LET n == Count + 1 IN
       IF n < StuckAfter THEN Saw(n, FALSE) /\ Tick("none", "idle")
       ELSE Saw(0, FALSE) /\ Tick("cycle", "cycle")
  /\ UNCHANGED <<modem, cool, faults>>

WatchInactive ==
  /\ ~airplane /\ radio = "registered"
  /\ Saw(0, FALSE)
  /\ \/ /\ dataOff
        /\ cool' = cool \ {"data"}
        /\ Tick("none", "idle")
     \/ /\ ~dataOff
        /\ cool' = cool \cup {"data"}
        /\ IF "data" \in cool THEN Tick("none", "idle") ELSE Tick("on", "serial")
  /\ UNCHANGED <<modem, faults>>

\* No modem: one rescan, then ModemManager is restarted.  A failing restart
\* is tried again at the next tick.
WatchMissing ==
  /\ radio = "missing"
  /\ LET n == IF missing.n < RestartAfter THEN missing.n + 1 ELSE missing.n IN
       \/ /\ n >= RestartAfter /\ "restart" \notin cool
          /\ \/ /\ RestartModemManager
                /\ cool' = cool \cup {"restart"}
                /\ missing' = [n |-> 0, scanned |-> FALSE]
                /\ UNCHANGED faults
             \/ /\ Fault
                /\ missing' = [n |-> n, scanned |-> TRUE]
                /\ UNCHANGED <<modem, cool>>
       \/ /\ n < RestartAfter \/ "restart" \in cool
          /\ missing' = [n |-> n, scanned |-> missing.scanned \/ n >= ScanAfter]
          /\ UNCHANGED <<modem, cool, faults>>
  /\ Tick("none", "idle")
  /\ UNCHANGED seen

Watch ==
  \/ WatchAirplane \/ WatchIdle \/ WatchSearching \/ WatchFailed \/ WatchWaiting
  \/ WatchConnected \/ WatchTransition \/ WatchInactive \/ WatchMissing

\* 120 s after an activation or 300 s after a recovery.
CoolDown(c) ==
  /\ c \in cool
  /\ cool' = cool \ {c}
  /\ UNCHANGED <<modem, switch, flags, lock, job, seen, missing, faults, requests>>

-----------------------------------------------------------------------------
(* The modem and NetworkManager by themselves. *)

External == UNCHANGED <<switch, flags, lock, job, counters, requests>>

Appear ==
  /\ radio = "missing" /\ ~stuck
  /\ \/ radio' \in {"disabled", "enabled", "searching"} /\ UNCHANGED faults
     \/ radio' = "failed" /\ Fault
  /\ offBy' = IF radio' = "disabled" THEN "modem" ELSE offBy
  /\ External /\ UNCHANGED <<profile, stuck>>

\* The radio finds its network.
Advance ==
  /\ ~stuck
  /\ \/ radio = "enabled" /\ radio' = "searching"
     \/ radio = "searching" /\ radio' = "registered"
  /\ External /\ UNCHANGED <<profile, stuck, offBy, faults>>

TransitionEnds ==
  /\ radio = "changing" /\ ~stuck
  /\ radio' = "registered"
  /\ External /\ UNCHANGED <<profile, stuck, offBy, faults>>

\* NetworkManager connects by itself unless the profile was taken down.
AutoDial ==
  /\ autoconnect /\ radio = "registered" /\ profile = "none"
  /\ radio' = "connected" /\ profile' = "ready"
  /\ External /\ UNCHANGED <<stuck, offBy, faults>>

\* What goes wrong: the modem goes or fails, hangs, loses its network, or the
\* data path breaks under a connected modem.
Trouble ==
  /\ Fault
  /\ \/ /\ radio # "missing" /\ radio' \in {"missing", "failed"}
        /\ profile' = "none" /\ stuck' \in BOOLEAN
     \/ /\ radio \in {"missing", "enabled", "searching", "changing"} /\ stuck' = TRUE
        /\ UNCHANGED <<radio, profile>>
     \/ /\ radio \in {"registered", "connected"} /\ radio' = "searching" /\ profile' = "none"
        /\ UNCHANGED stuck
     \/ /\ profile = "ready" /\ profile' \in {"none", "broken"}
        /\ UNCHANGED <<radio, stuck>>
  /\ External /\ UNCHANGED offBy

-----------------------------------------------------------------------------
Ask(r) ==
  \/ \E op \in Ops : AskData(r, op) \/ AskAirplane(r, op) \/ AskRestart(r, op)
  \/ AskRoaming(r) \/ AskApn(r) \/ AskRegister(r) \/ AskProfile(r)

Work(p) ==
  \/ SerialData(p) \/ SerialApply(p) \/ SerialRoaming(p) \/ SerialAirplane(p)
  \/ SerialRegister(p) \/ RestartOff(p) \/ LightOn(p) \/ Dial(p) \/ ProfileEnabled(p)
  \/ PowerOff(p) \/ PowerOn(p) \/ Reappear(p) \/ SaveSwitch(p) \/ StoreSwitch(p)
  \/ StoreAirplane(p)

Recovers == Appear \/ Advance \/ TransitionEnds

Next ==
  \/ \E r \in Requests : Ask(r) \/ Cancel(r)
  \/ \E p \in Processes : Work(p)
  \/ \E on \in BOOLEAN : SyncAutoconnect(on)
  \/ BootBegin \/ CycleOff \/ Watch \/ Restart
  \/ \E c \in cool : CoolDown(c)
  \/ Recovers \/ AutoDial \/ Trouble

Spec == Init /\ [][Next]_vars

\* Every task runs and every timer ends.  A modem that is not stuck finds its
\* network although the watchdog may cycle it: two minutes are enough for it.
Fairness ==
  /\ \A p \in Processes : SF_vars(Work(p))
  /\ WF_vars(\E on \in BOOLEAN : SyncAutoconnect(on))
  /\ WF_vars(BootBegin)
  /\ WF_vars(CycleOff)
  /\ WF_vars(Watch)
  /\ WF_vars(\E c \in cool : CoolDown(c))
  /\ WF_vars(Appear)
  /\ SF_vars(Advance)
  /\ SF_vars(TransitionEnds)

FairSpec == Spec /\ Fairness

-----------------------------------------------------------------------------
Quiet == syncing = {} /\ \A p \in Processes : At(p, "idle")

\* When nothing is under way, the switch in the configuration, which decides
\* after a restart, is the one the watchdog obeys, unless two requests crossed
\* between saving and storing; a request that fails changes neither.  And
\* the state is well typed.
\* (set_data_status, execute_device_action)
SwitchAgrees == TypeOK /\ (Quiet /\ ~crossed => dataConfig = ~dataOff)

\* A radio found off with nothing under way was put off by airplane mode, came
\* so, or was left so by an enable that failed or a restart that was cut off;
\* no cycle, restart or registration that ran to its end leaves it off, however
\* they overlap.  (cycle_modem_radio_deep, restart_baseband_inner,
\* recover_after_registration_failure)
RadioOffHasReason == Quiet /\ radio = "disabled" => offBy # "cycle"

\* The device settles after any trouble with the modem, the path, a handler's own
\* call or an overlapping restart: requested airplane mode puts the radio off in
\* the end; data that is wanted comes back unless the radio is off, as nothing
\* brings it back from there; and the watchdog is not paused for good.
\* (data_connection_watchdog, BasebandRestartRunGuard)
CellularSettles ==
  /\ airplane /\ radio \in On ~> radio \notin On \/ ~airplane
  /\ ~dataOff ~> profile = "ready" \/ dataOff \/ airplane \/ radio = "disabled"
  /\ running ~> ~running

\* "Fixed: automatic reconnection may still be triggered after cellular data
\* is switched off" (docs/changelog.md): the watchdog does not bring up the
\* profile while data is switched off by the user.
UserOffHolds ==
  [][dataOff /\ profile \notin Active /\ profile' \in Active
       => job'[Watchdog] = job[Watchdog]]_vars
=============================================================================
