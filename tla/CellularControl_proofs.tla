----------------------- MODULE CellularControl_proofs -----------------------
(***************************************************************************)
(* Proofs about CellularControl for any number of requests, operations,    *)
(* thresholds and faults: the data switch in the configuration is the one  *)
(* the watchdog obeys, and no cycle of the radio leaves it off.            *)
(***************************************************************************)
EXTENDS CellularControl, TLAPS

JobRecord ==
  [op : AllOps \cup {"on", "off", "cycle", "boot"}, step : Steps, dial : BOOLEAN]

(* The parts of TypeOK.                                                     *)
ModemOK ==
  /\ radio \in Radio
  /\ profile \in Active \cup {"none", "held"}
  /\ stuck \in BOOLEAN
  /\ offBy \in {"nothing", "airplane", "cycle", "cut", "modem"}

FlagsOK ==
  /\ dataOff \in BOOLEAN
  /\ dataConfig \in BOOLEAN
  /\ autoconnect \in BOOLEAN
  /\ crossed \in BOOLEAN
  /\ airplane \in BOOLEAN
  /\ running \in BOOLEAN
  /\ syncing \in SUBSET BOOLEAN

JobsOK == job \in [Processes -> JobRecord \cup {Idle}]

(* The lock is free or held by a task in a section.                         *)
LockOK == lock \in {Free} \cup {p \in Processes : job[p].step \in Sections}

WatchOK ==
  /\ seen \in [state : Radio, n : Nat, asked : BOOLEAN]
  /\ missing \in [n : Nat, scanned : BOOLEAN]
  /\ cool \in SUBSET {"data", "search", "restart"}

BoundsOK == faults \in 0..MaxFaults /\ requests \in 0..MaxRequests

(* A switch of the user's between the save of the configuration and the     *)
(* store of the flag.                                                       *)
Storing(p) == At(p, "flag") /\ job[p].op \in Switches

(* Unless two switches crossed, the flag is the configuration or one        *)
(* request, which saved it last, is about to make it so.                    *)
SwitchInv ==
  /\ \A q \in Processes : /\ job[q].op \in Switches => q \in Requests
                          /\ At(q, "save") => job[q].op \in Switches
  /\ \/ crossed
     \/ /\ \A q \in Processes : ~Storing(q)
        /\ dataConfig = ~dataOff
     \/ \E p \in Processes :
          /\ Storing(p)
          /\ \A q \in Processes \ {p} : ~Storing(q)
          /\ dataConfig = (job[p].op \in {"dataOn", "hubDataOn"})

(* Whoever switched the radio off for a cycle, or another one that is in    *)
(* the middle of a cycle, is about to switch it on.                         *)
DarkInv == radio = "disabled" /\ offBy = "cycle" => \E p \in Processes : At(p, "dark")

IInv == TypeOK /\ SwitchInv /\ DarkInv

-----------------------------------------------------------------------------
LEMMA BoundsAssumed ==
  /\ MaxFaults \in Nat /\ MaxRequests \in Nat
  /\ ScanAfter \in Nat /\ RestartAfter \in Nat /\ RegisterAfter \in Nat /\ CycleAfter \in Nat
  /\ IdleAfter \in Nat /\ FailedAfter \in Nat /\ StuckAfter \in Nat
BY ConstantsAssumption

LEMMA TypeParts == TypeOK <=> ModemOK /\ FlagsOK /\ JobsOK /\ LockOK /\ WatchOK /\ BoundsOK
<1>1. {dataOff, dataConfig, autoconnect, crossed, airplane, running} \subseteq BOOLEAN
        <=> /\ dataOff \in BOOLEAN /\ dataConfig \in BOOLEAN /\ autoconnect \in BOOLEAN
            /\ crossed \in BOOLEAN /\ airplane \in BOOLEAN /\ running \in BOOLEAN
  BY Zenon
<1> QED
  BY <1>1, Zenon DEF TypeOK, ModemOK, FlagsOK, JobsOK, JobRecord, LockOK, WatchOK, BoundsOK

LEMMA TypePartsNext ==
  ASSUME ModemOK', FlagsOK', JobsOK', LockOK', WatchOK', BoundsOK'
  PROVE  TypeOK'
BY TypeParts, PTL

LEMMA MembershipIsBoolean ==
  ASSUME NEW x, NEW S
  PROVE  /\ (x \in S) \in BOOLEAN
         /\ x \in S => (x \in S) = TRUE
         /\ x \notin S => (x \in S) = FALSE
<1>1. CASE x \in S
  <2>1. (x \in S) = TRUE
    BY <1>1
  <2> QED BY <1>1, <2>1
<1>2. CASE x \notin S
  <2>1. (x \in S) = FALSE
    BY <1>2
  <2> QED BY <1>2, <2>1
<1> QED BY <1>1, <1>2

LEMMA IdleIs == Idle.op = "none" /\ Idle.step = "idle" /\ Idle.op \notin Switches
BY DEF Idle, Switches

(* The fields of a job under way.                                           *)
LEMMA JobIs ==
  ASSUME JobsOK, NEW p \in Processes, job[p].step # "idle"
  PROVE  job[p] \in JobRecord
BY IdleIs DEF JobsOK

(* A task goes on to its next step.                                         *)
LEMMA GotoJob ==
  ASSUME JobsOK, NEW p \in Processes, job[p].step # "idle", NEW s \in Steps, Goto(p, s)
  PROVE  /\ JobsOK'
         /\ job'[p].op = job[p].op /\ job'[p].step = s
         /\ \A q \in Processes \ {p} : job'[q] = job[q]
<1>1. job[p] \in JobRecord
  BY JobIs
<1> DEFINE rec == [job[p] EXCEPT !.step = s]
<1>2. rec \in JobRecord /\ rec.op = job[p].op /\ rec.step = s
  BY <1>1 DEF JobRecord
<1>3. job' = [job EXCEPT ![p] = rec]
  BY DEF Goto
<1> HIDE DEF rec
<1> QED BY <1>2, <1>3 DEF JobsOK

(* A task gets another job, or none.                                        *)
LEMMA SetJob ==
  ASSUME JobsOK, NEW p \in Processes, NEW rec \in JobRecord \cup {Idle},
         job' = [job EXCEPT ![p] = rec]
  PROVE  /\ JobsOK'
         /\ job'[p] = rec
         /\ \A q \in Processes \ {p} : job'[q] = job[q]
BY DEF JobsOK

LEMMA DropJob ==
  ASSUME JobsOK, NEW p \in Processes, job' = [job EXCEPT ![p] = Idle]
  PROVE  /\ JobsOK'
         /\ job'[p].op = "none" /\ job'[p].step = "idle"
         /\ \A q \in Processes \ {p} : job'[q] = job[q]
BY SetJob, IdleIs

(* What one task does with the lock.                                        *)
LEMMA KeepsLock ==
  ASSUME LockOK, NEW p \in Processes, \A q \in Processes \ {p} : job'[q] = job[q],
         \/ lock' = lock /\ lock # p
         \/ lock' = lock /\ job'[p].step \in Sections
         \/ lock' = Free
         \/ lock' = p /\ job'[p].step \in Sections
  PROVE  LockOK'
BY DEF LockOK

(* A task that is not between save and store touches neither.               *)
LEMMA KeepsSwitch ==
  ASSUME SwitchInv, NEW p \in Processes, \A q \in Processes \ {p} : job'[q] = job[q],
         job'[p].op \in Switches => p \in Requests,
         job'[p].step = "save" => job'[p].op \in Switches,
         ~Storing(p),
         ~(job'[p].step = "flag" /\ job'[p].op \in Switches),
         UNCHANGED <<dataOff, dataConfig, crossed>>
  PROVE  SwitchInv'
<1>1. \A q \in Processes : Storing(q)' <=> Storing(q)
  BY DEF Storing, At
<1>2. \A q \in Processes : Storing(q) => job'[q] = job[q]
  OBVIOUS
<1>3. \A q \in Processes : /\ job'[q].op \in Switches => q \in Requests
                           /\ job'[q].step = "save" => job'[q].op \in Switches
  BY DEF SwitchInv, At
<1>4. CASE crossed
  BY <1>3, <1>4 DEF SwitchInv, At
<1>5. CASE (\A q \in Processes : ~Storing(q)) /\ dataConfig = ~dataOff
  BY <1>1, <1>3, <1>5 DEF SwitchInv, At
<1>6. ASSUME NEW r \in Processes, Storing(r), \A q \in Processes \ {r} : ~Storing(q),
             dataConfig = (job[r].op \in {"dataOn", "hubDataOn"})
      PROVE  SwitchInv'
  <2>1. dataConfig' = (job'[r].op \in {"dataOn", "hubDataOn"})
    BY <1>2, <1>6
  <2> QED BY <1>1, <1>3, <1>6, <2>1 DEF SwitchInv, At
<1> QED BY <1>4, <1>5, <1>6 DEF SwitchInv

(* A task that does not leave the dark part of a cycle, nor switches the    *)
(* radio off for one.                                                       *)
LEMMA KeepsDark ==
  ASSUME DarkInv, NEW p \in Processes, \A q \in Processes \ {p} : job'[q] = job[q],
         radio' = "disabled" /\ offBy' = "cycle" => radio = "disabled" /\ offBy = "cycle",
         job[p].step = "dark" => job'[p].step = "dark"
  PROVE  DarkInv'
BY DEF DarkInv, At

LEMMA FaultBounds ==
  ASSUME faults \in 0..MaxFaults, Fault \/ UNCHANGED faults
  PROVE  faults' \in 0..MaxFaults
BY BoundsAssumed DEF Fault
-----------------------------------------------------------------------------
(* What the calls do to the modem.                                          *)

LEMMA EnableEffect ==
  ASSUME ModemOK, faults \in 0..MaxFaults, NEW ok \in BOOLEAN, EnableRadio(ok)
  PROVE  /\ ModemOK' /\ faults' \in 0..MaxFaults
         /\ ~(radio' = "disabled" /\ offBy' = "cycle")
<1>1. faults' \in 0..MaxFaults
  BY FaultBounds DEF EnableRadio
<1>2. stuck' \in BOOLEAN
  BY Zenon DEF EnableRadio, ModemOK, modem
<1>3. /\ radio' \in Radio /\ profile' = profile
      /\ offBy' \in {"nothing", "airplane", "cycle", "cut", "modem"}
      /\ ~(radio' = "disabled" /\ offBy' = "cycle")
  BY DEF EnableRadio, ModemOK, modem, Radio, Present, On
<1> QED BY <1>1, <1>2, <1>3 DEF ModemOK

LEMMA DisableEffect ==
  ASSUME ModemOK, faults \in 0..MaxFaults, NEW ok \in BOOLEAN,
         NEW why \in {"airplane", "cycle"}, NEW forced \in BOOLEAN,
         DisableRadio(ok, why, forced)
  PROVE  /\ ModemOK' /\ faults' \in 0..MaxFaults
         /\ IF ok THEN offBy' = why ELSE radio' # "disabled"
<1>1. faults' \in 0..MaxFaults
  BY FaultBounds DEF DisableRadio
<1>2. stuck' \in BOOLEAN
  BY Zenon DEF DisableRadio, ModemOK, modem
<1>3. /\ radio' \in Radio /\ profile' \in Active \cup {"none", "held"}
      /\ offBy' \in {"nothing", "airplane", "cycle", "cut", "modem"}
      /\ IF ok THEN offBy' = why ELSE radio' # "disabled"
  BY DEF DisableRadio, ModemOK, modem, Radio, Present, On, Active
<1> QED BY <1>1, <1>2, <1>3 DEF ModemOK

LEMMA ActivateEffect ==
  ASSUME ModemOK, faults \in 0..MaxFaults, NEW ok \in BOOLEAN, Activate(ok)
  PROVE  /\ ModemOK' /\ faults' \in 0..MaxFaults
         /\ offBy' = offBy /\ (radio' = "disabled" => radio = "disabled")
<1>1. faults' \in 0..MaxFaults
  BY FaultBounds DEF Activate
<1>2. stuck' \in BOOLEAN
  BY Zenon DEF Activate, ModemOK, modem
<1>3. /\ radio' \in Radio /\ profile' \in Active \cup {"none", "held"}
      /\ offBy' = offBy /\ (radio' = "disabled" => radio = "disabled")
  BY DEF Activate, ModemOK, modem, Radio, Present, On, Active
<1> QED BY <1>1, <1>2, <1>3 DEF ModemOK

LEMMA DataOnEffect ==
  ASSUME ModemOK, faults \in 0..MaxFaults, NEW ok \in BOOLEAN, DataOn(ok)
  PROVE  /\ ModemOK' /\ faults' \in 0..MaxFaults
         /\ offBy' = offBy /\ (radio' = "disabled" => radio = "disabled")
<1>1. CASE UNCHANGED <<modem, faults>>
  BY <1>1 DEF modem, ModemOK
<1> QED BY <1>1, ActivateEffect DEF DataOn

LEMMA DataOffEffect ==
  ASSUME ModemOK, faults \in 0..MaxFaults, NEW ok \in BOOLEAN, DataOff(ok)
  PROVE  /\ ModemOK' /\ faults' \in 0..MaxFaults
         /\ offBy' = offBy /\ (radio' = "disabled" => radio = "disabled")
<1>1. faults' \in 0..MaxFaults
  BY FaultBounds DEF DataOff
<1>2. stuck' = stuck
  BY DEF DataOff, modem
<1>3. /\ radio' \in Radio /\ profile' \in Active \cup {"none", "held"}
      /\ offBy' = offBy /\ (radio' = "disabled" => radio = "disabled")
  BY DEF DataOff, ModemOK, modem, Radio, Present, On, Active
<1> QED BY <1>1, <1>2, <1>3 DEF ModemOK

(* What a job's end does.                                                   *)
LEMMA FinishEffect ==
  ASSUME JobsOK, LockOK, FlagsOK, NEW p \in Processes, Finish(p)
  PROVE  /\ JobsOK' /\ LockOK' /\ running' \in BOOLEAN
         /\ job'[p].op = "none" /\ job'[p].step = "idle"
         /\ \A q \in Processes \ {p} : job'[q] = job[q]
<1>1. /\ JobsOK'
      /\ job'[p].op = "none" /\ job'[p].step = "idle"
      /\ \A q \in Processes \ {p} : job'[q] = job[q]
  BY DropJob DEF Finish
<1>2. LockOK'
  BY <1>1, KeepsLock DEF Finish
<1>3. running' \in BOOLEAN
  BY Zenon DEF Finish, FlagsOK
<1> QED BY <1>1, <1>2, <1>3

(* A step of one task that leaves the data switch alone.                    *)
LEMMA TaskStep ==
  ASSUME IInv, NEW p \in Processes,
         ModemOK', faults' \in 0..MaxFaults, JobsOK', LockOK',
         \A q \in Processes \ {p} : job'[q] = job[q],
         UNCHANGED <<switch, counters>>,
         requests' \in 0..MaxRequests,
         airplane' \in BOOLEAN, running' \in BOOLEAN,
         job'[p].op \in Switches => p \in Requests,
         job'[p].step = "save" => job'[p].op \in Switches,
         ~Storing(p),
         ~(job'[p].step = "flag" /\ job'[p].op \in Switches),
         DarkInv'
  PROVE  IInv'
<1>1. FlagsOK'
  BY TypeParts DEF IInv, FlagsOK, switch
<1>2. WatchOK' /\ BoundsOK'
  BY TypeParts DEF IInv, WatchOK, BoundsOK, counters
<1>3. TypeOK'
  BY <1>1, <1>2, TypePartsNext
<1>4. SwitchInv'
  BY KeepsSwitch DEF IInv, switch
<1> QED BY <1>3, <1>4 DEF IInv
-----------------------------------------------------------------------------
LEMMA IInvAtInit == Init => IInv
<1> SUFFICES ASSUME Init PROVE IInv
  OBVIOUS
<1> USE DEF Init
<1>1. /\ JobsOK
      /\ \A p \in Processes : job[p].op \in {"none", "boot"} /\ job[p].step \in {"idle", "boot"}
  BY DEF JobsOK, JobRecord, Idle, Steps
<1>2. FlagsOK
  <2>1. autoconnect \in BOOLEAN /\ dataConfig \in BOOLEAN /\ dataOff \in BOOLEAN
    BY Zenon
  <2>2. /\ crossed \in BOOLEAN /\ airplane \in BOOLEAN /\ running \in BOOLEAN
        /\ syncing \in SUBSET BOOLEAN
    BY Zenon
  <2> QED BY <2>1, <2>2 DEF FlagsOK
<1>3. ModemOK /\ LockOK /\ BoundsOK
  <2>1. stuck \in BOOLEAN
    BY Zenon
  <2> QED BY <2>1, BoundsAssumed DEF ModemOK, LockOK, BoundsOK, Radio, Present, On
<1>4. WatchOK
  BY DEF WatchOK, Fresh, Radio
<1>5. TypeOK
  BY <1>1, <1>2, <1>3, <1>4, TypeParts
<1>6. dataConfig = ~dataOff
  BY Zenon
<1>7. SwitchInv
  BY <1>1, <1>6 DEF SwitchInv, Storing, At, Switches
<1>8. DarkInv
  BY DEF DarkInv
<1> QED BY <1>5, <1>7, <1>8 DEF IInv

LEMMA LockElsewhere ==
  ASSUME LockOK, NEW p \in Processes, job[p].step \notin Sections
  PROVE  lock # p
BY ConstantsAssumption DEF LockOK, Processes, Watchdog, Boot, Free

LEMMA BeginStep ==
  ASSUME IInv, NEW r \in Requests, NEW op \in AllOps, NEW step \in {"serial", "profile"},
         NEW dial \in BOOLEAN, Begin(r, op, step, dial), UNCHANGED switch,
         airplane' \in BOOLEAN, running' \in BOOLEAN
  PROVE  IInv'
<1> USE DEF IInv
<1>0. r \in Processes /\ JobsOK /\ LockOK /\ ModemOK /\ BoundsOK
  BY TypeParts DEF Processes
<1> DEFINE rec == [op |-> op, step |-> step, dial |-> dial]
<1>1. rec \in JobRecord /\ rec.op = op /\ rec.step = step
  BY DEF JobRecord, Steps
<1>2. job' = [job EXCEPT ![r] = rec]
  BY DEF Begin
<1> HIDE DEF rec
<1>3. JobsOK' /\ job'[r] = rec /\ \A q \in Processes \ {r} : job'[q] = job[q]
  BY <1>0, <1>1, <1>2, SetJob
<1>4. job[r].step = "idle" /\ lock' = lock
  BY DEF Begin, At
<1>5. LockOK'
  BY <1>0, <1>3, <1>4, KeepsLock, LockElsewhere DEF Sections
<1>6. ModemOK' /\ radio' = radio /\ offBy' = offBy /\ UNCHANGED counters
  BY <1>0 DEF Begin, modem, ModemOK
<1>7. DarkInv'
  BY <1>0, <1>3, <1>4, <1>6, KeepsDark
<1>8. requests' \in 0..MaxRequests /\ faults' \in 0..MaxFaults
  BY <1>0, BoundsAssumed DEF Begin, BoundsOK
<1> QED BY <1>0, <1>1, <1>3, <1>4, <1>5, <1>6, <1>7, <1>8, TaskStep DEF Storing, At

LEMMA AskStep ==
  ASSUME IInv, NEW r \in Requests, Ask(r)
  PROVE  IInv'
<1>0. FlagsOK /\ TRUE \in BOOLEAN /\ FALSE \in BOOLEAN
  BY TypeParts DEF IInv
<1>1. ASSUME NEW op \in Ops, AskData(r, op) PROVE IInv'
  <2>1. airplane' \in BOOLEAN /\ running' \in BOOLEAN /\ op \in AllOps
    BY <1>0, <1>1, ConstantsAssumption DEF AskData, flags, FlagsOK
  <2> QED BY <1>0, <1>1, <2>1, BeginStep DEF AskData
<1>2. ASSUME NEW op \in Ops, AskAirplane(r, op) PROVE IInv'
  <2>1. running' \in BOOLEAN /\ op \in AllOps
    BY <1>0, <1>2, ConstantsAssumption DEF AskAirplane, FlagsOK
  <2>2. airplane' \in BOOLEAN
    BY <1>2, Zenon DEF AskAirplane
  <2> QED BY <1>0, <1>2, <2>1, <2>2, BeginStep DEF AskAirplane
<1>3. ASSUME NEW op \in Ops, AskRestart(r, op) PROVE IInv'
  <2>1. airplane' \in BOOLEAN /\ running' \in BOOLEAN /\ op \in AllOps
    BY <1>0, <1>3, ConstantsAssumption DEF AskRestart, FlagsOK
  <2>2. (IF op = "restart" THEN ~dataOff ELSE dataConfig) \in BOOLEAN
    BY <1>0, Zenon DEF FlagsOK
  <2> QED BY <1>0, <1>3, <2>1, <2>2, BeginStep DEF AskRestart
<1>4. CASE AskRoaming(r)
  <2>1. airplane' \in BOOLEAN /\ running' \in BOOLEAN /\ "roaming" \in AllOps
    BY <1>0, <1>4 DEF AskRoaming, flags, FlagsOK, AllOps
  <2> QED BY <1>0, <1>4, <2>1, BeginStep DEF AskRoaming
<1>5. CASE AskApn(r)
  <2>1. airplane' \in BOOLEAN /\ running' \in BOOLEAN /\ "hubApn" \in AllOps
    BY <1>0, <1>5 DEF AskApn, flags, FlagsOK, AllOps
  <2> QED BY <1>0, <1>5, <2>1, BeginStep DEF AskApn, FlagsOK
<1>6. CASE AskRegister(r)
  <2>1. airplane' \in BOOLEAN /\ running' \in BOOLEAN /\ "register" \in AllOps
    BY <1>0, <1>6 DEF AskRegister, flags, FlagsOK, AllOps
  <2> QED BY <1>0, <1>6, <2>1, BeginStep DEF AskRegister
<1>7. CASE AskProfile(r)
  <2>1. airplane' \in BOOLEAN /\ running' \in BOOLEAN /\ "profile" \in AllOps
    BY <1>0, <1>7 DEF AskProfile, FlagsOK, AllOps
  <2> QED BY <1>0, <1>7, <2>1, BeginStep DEF AskProfile
<1> QED BY <1>1, <1>2, <1>3, <1>4, <1>5, <1>6, <1>7 DEF Ask
-----------------------------------------------------------------------------
LEMMA Parts ==
  ASSUME IInv
  PROVE  /\ ModemOK /\ FlagsOK /\ JobsOK /\ LockOK /\ WatchOK /\ BoundsOK
         /\ faults \in 0..MaxFaults /\ requests \in 0..MaxRequests
         /\ airplane \in BOOLEAN /\ running \in BOOLEAN
         /\ SwitchInv /\ DarkInv
BY TypeParts DEF IInv, FlagsOK, BoundsOK

(* A task in or before its section moves the modem, which does not go dark. *)
LEMMA SectionStep ==
  ASSUME IInv, NEW p \in Processes, job[p].step \in {"serial", "again"},
         ModemOK', faults' \in 0..MaxFaults,
         \/ offBy' = offBy /\ (radio' = "disabled" => radio = "disabled")
         \/ ~(radio' = "disabled" /\ offBy' = "cycle"),
         \/ job' = [job EXCEPT ![p] = Idle]
         \/ Goto(p, "save") /\ job[p].op \in Switches
         \/ Goto(p, "again")
         \/ Goto(p, "flag") /\ job[p].op \notin Switches,
         UNCHANGED <<switch, flags, lock, counters, requests>>
  PROVE  IInv'
<1>1. /\ JobsOK /\ LockOK /\ ModemOK
      /\ requests' \in 0..MaxRequests /\ airplane' \in BOOLEAN /\ running' \in BOOLEAN
      /\ "save" \in Steps /\ "again" \in Steps /\ "flag" \in Steps
  BY Parts DEF flags, Steps
<1>2. /\ JobsOK'
      /\ \A q \in Processes \ {p} : job'[q] = job[q]
      /\ \/ job'[p].op = "none" /\ job'[p].step = "idle"
         \/ job'[p].op = job[p].op /\ job'[p].step = "save" /\ job[p].op \in Switches
         \/ job'[p].op = job[p].op /\ job'[p].step = "again"
         \/ job'[p].op = job[p].op /\ job'[p].step = "flag" /\ job[p].op \notin Switches
  <2>1. job[p].step # "idle"
    OBVIOUS
  <2>2. CASE job' = [job EXCEPT ![p] = Idle]
    BY <1>1, <2>2, DropJob
  <2>3. CASE Goto(p, "save") /\ job[p].op \in Switches
    BY <1>1, <2>1, <2>3, GotoJob
  <2>4. CASE Goto(p, "again")
    BY <1>1, <2>1, <2>4, GotoJob
  <2>5. CASE Goto(p, "flag") /\ job[p].op \notin Switches
    BY <1>1, <2>1, <2>5, GotoJob
  <2> QED BY <2>2, <2>3, <2>4, <2>5
<1>3. LockOK'
  <2>1. lock # p
    BY <1>1, LockElsewhere DEF Sections
  <2> QED BY <1>1, <1>2, <2>1, KeepsLock
<1>4. DarkInv'
  <2>1. CASE offBy' = offBy /\ (radio' = "disabled" => radio = "disabled")
    BY <1>2, <2>1, Parts, KeepsDark
  <2>2. CASE ~(radio' = "disabled" /\ offBy' = "cycle")
    BY <2>2 DEF DarkInv
  <2> QED BY <2>1, <2>2
<1>5. /\ job'[p].op \in Switches => p \in Requests
      /\ job'[p].step = "save" => job'[p].op \in Switches
      /\ ~Storing(p)
      /\ ~(job'[p].step = "flag" /\ job'[p].op \in Switches)
  BY <1>2, Parts DEF SwitchInv, Storing, At, Switches
<1> QED BY <1>1, <1>2, <1>3, <1>4, <1>5, TaskStep

LEMMA SerialDataStep ==
  ASSUME IInv, NEW p \in Processes, SerialData(p)
  PROVE  IInv'
<1>1. job[p].step = "serial" /\ job[p].op \in Switches
      /\ UNCHANGED <<switch, flags, lock, counters, requests>>
  BY DEF SerialData, Waiting, At
<1>2. PICK ok \in BOOLEAN :
        /\ IF job[p].op \in {"dataOn", "hubDataOn"} THEN DataOn(ok) ELSE DataOff(ok)
        /\ IF ok THEN Goto(p, "save") ELSE job' = [job EXCEPT ![p] = Idle]
  BY DEF SerialData
<1>3. /\ ModemOK' /\ faults' \in 0..MaxFaults
      /\ offBy' = offBy /\ (radio' = "disabled" => radio = "disabled")
  BY <1>2, Parts, DataOnEffect, DataOffEffect
<1> QED BY <1>1, <1>2, <1>3, SectionStep

LEMMA SerialApplyStep ==
  ASSUME IInv, NEW p \in Processes, SerialApply(p)
  PROVE  IInv'
<1>1. /\ job[p].step = "serial" /\ job' = [job EXCEPT ![p] = Idle]
      /\ UNCHANGED <<switch, flags, lock, counters, requests>>
  BY DEF SerialApply, Waiting, At
<1>2. PICK ok \in BOOLEAN : DataOn(ok) \/ DataOff(ok)
  BY DEF SerialApply
<1>3. /\ ModemOK' /\ faults' \in 0..MaxFaults
      /\ offBy' = offBy /\ (radio' = "disabled" => radio = "disabled")
  BY <1>2, Parts, DataOnEffect, DataOffEffect
<1> QED BY <1>1, <1>3, SectionStep

LEMMA SerialRoamingStep ==
  ASSUME IInv, NEW p \in Processes, SerialRoaming(p)
  PROVE  IInv'
<1>1. UNCHANGED <<switch, flags, lock, counters, requests>>
  BY DEF SerialRoaming
<1>2. PICK ok \in BOOLEAN :
        \/ /\ At(p, "serial")
           /\ DataOff(ok)
           /\ IF ok THEN Goto(p, "again") ELSE job' = [job EXCEPT ![p] = Idle]
        \/ /\ At(p, "again")
           /\ DataOn(ok)
           /\ job' = [job EXCEPT ![p] = Idle]
  BY DEF SerialRoaming
<1>3. /\ ModemOK' /\ faults' \in 0..MaxFaults
      /\ offBy' = offBy /\ (radio' = "disabled" => radio = "disabled")
  BY <1>2, Parts, DataOnEffect, DataOffEffect
<1>4. job[p].step \in {"serial", "again"}
  BY <1>2 DEF At
<1>5. Goto(p, "again") \/ job' = [job EXCEPT ![p] = Idle]
  BY <1>2
<1> QED BY <1>1, <1>3, <1>4, <1>5, SectionStep

LEMMA SerialAirplaneStep ==
  ASSUME IInv, NEW p \in Processes, SerialAirplane(p)
  PROVE  IInv'
<1>1. /\ job[p].step = "serial" /\ job[p].op \notin Switches
      /\ UNCHANGED <<switch, flags, lock, counters, requests>>
  BY DEF SerialAirplane, Waiting, At, Airplanes, Switches
<1>2. PICK ok \in BOOLEAN :
        /\ IF job[p].op \in {"airplaneOn", "hubAirplaneOn"} THEN DisableRadio(ok, "airplane", FALSE)
           ELSE EnableRadio(ok)
        /\ IF ok /\ p \in Requests /\ job[p].op \in {"airplaneOn", "airplaneOff"}
           THEN Goto(p, "flag") ELSE job' = [job EXCEPT ![p] = Idle]
  BY DEF SerialAirplane
<1>3. ModemOK' /\ faults' \in 0..MaxFaults /\ ~(radio' = "disabled" /\ offBy' = "cycle")
  <2>1. CASE DisableRadio(ok, "airplane", FALSE)
    BY <2>1, Parts, DisableEffect
  <2>2. CASE EnableRadio(ok)
    BY <2>2, Parts, EnableEffect
  <2> QED BY <1>2, <2>1, <2>2
<1>4. Goto(p, "flag") \/ job' = [job EXCEPT ![p] = Idle]
  BY <1>2
<1> QED BY <1>1, <1>3, <1>4, SectionStep
-----------------------------------------------------------------------------
(* A task of a section that switches the radio off and on goes on or ends.  *)
LEMMA CycleStep ==
  ASSUME IInv, NEW p \in Processes, job[p].step \notin {"idle", "flag"},
         ModemOK', faults' \in 0..MaxFaults,
         \/ Finish(p)
         \/ \E s \in {"dark", "power", "appear", "dial", "serial"} :
              /\ Goto(p, s)
              /\ running' = running
              /\ \/ lock' = p /\ s \in Sections
                 \/ lock' = lock /\ s \in Sections
                 \/ lock' = lock /\ lock # p,
         \/ ~(radio' = "disabled" /\ offBy' = "cycle")
         \/ Goto(p, "dark")
         \/ /\ offBy' = offBy /\ (radio' = "disabled" => radio = "disabled")
            /\ job[p].step # "dark",
         UNCHANGED <<switch, airplane, counters, requests>>
  PROVE  IInv'
<1>1. /\ JobsOK /\ LockOK /\ FlagsOK
      /\ requests' \in 0..MaxRequests /\ airplane' \in BOOLEAN /\ running \in BOOLEAN
      /\ {"dark", "power", "appear", "dial", "serial"} \subseteq Steps \ {"save", "flag"}
  BY Parts DEF Steps
<1>2. CASE Finish(p)
  <2>1. /\ JobsOK' /\ LockOK' /\ running' \in BOOLEAN
        /\ job'[p].op = "none" /\ job'[p].step = "idle"
        /\ \A q \in Processes \ {p} : job'[q] = job[q]
    BY <1>1, <1>2, FinishEffect
  <2>2. ~Goto(p, "dark")
    <3>1. CASE Goto(p, "dark")
      BY <1>1, <2>1, <3>1, GotoJob
    <3> QED BY <3>1
  <2>3. DarkInv'
    <3>1. CASE ~(radio' = "disabled" /\ offBy' = "cycle")
      BY <3>1 DEF DarkInv
    <3> QED BY <2>1, <2>2, <3>1, Parts, KeepsDark
  <2> QED BY <1>1, <2>1, <2>3, TaskStep DEF Storing, At, Switches
<1>3. ASSUME NEW s \in {"dark", "power", "appear", "dial", "serial"},
             Goto(p, s), running' = running,
             \/ lock' = p /\ s \in Sections
             \/ lock' = lock /\ s \in Sections
             \/ lock' = lock /\ lock # p
      PROVE  IInv'
  <2>1. /\ JobsOK'
        /\ job'[p].op = job[p].op /\ job'[p].step = s
        /\ \A q \in Processes \ {p} : job'[q] = job[q]
    BY <1>1, <1>3, GotoJob
  <2>2. LockOK'
    BY <1>1, <1>3, <2>1, KeepsLock
  <2>3. DarkInv'
    <3>1. CASE ~(radio' = "disabled" /\ offBy' = "cycle")
      BY <3>1 DEF DarkInv
    <3>2. CASE Goto(p, "dark")
      <4>1. job'[p].step = "dark"
        BY <1>1, <3>2, GotoJob
      <4> QED BY <4>1 DEF DarkInv, At
    <3> QED BY <2>1, <3>1, <3>2, Parts, KeepsDark
  <2>4. job[p].op \in Switches => p \in Requests
    BY Parts DEF SwitchInv
  <2>5. running' \in BOOLEAN
    BY <1>1, <1>3
  <2> QED BY <1>1, <1>3, <2>1, <2>2, <2>3, <2>4, <2>5, TaskStep DEF Storing, At
<1> QED BY <1>2, <1>3

LEMMA SerialRegisterStep ==
  ASSUME IInv, NEW p \in Processes, SerialRegister(p)
  PROVE  IInv'
<1>1. /\ job[p].step = "serial" /\ job[p].op \notin Switches
      /\ UNCHANGED <<switch, flags, counters, requests>>
  BY DEF SerialRegister, Waiting, At, Switches
<1>2. CASE job' = [job EXCEPT ![p] = Idle] /\ UNCHANGED <<modem, lock, faults>>
  <2>1. ModemOK' /\ faults' \in 0..MaxFaults /\ offBy' = offBy /\ radio' = radio
    BY <1>2, Parts DEF modem, ModemOK
  <2> QED BY <1>1, <1>2, <2>1, SectionStep
<1>3. ASSUME NEW ok \in BOOLEAN, DisableRadio(ok, "cycle", FALSE),
             IF ok THEN Goto(p, "dark") /\ lock' = p
             ELSE job' = [job EXCEPT ![p] = Idle] /\ UNCHANGED lock
      PROVE  IInv'
  <2>1. /\ ModemOK' /\ faults' \in 0..MaxFaults
        /\ IF ok THEN offBy' = "cycle" ELSE radio' # "disabled"
    BY <1>3, Parts, DisableEffect
  <2>2. CASE ok
    <3>1. "dark" \in Sections /\ running' = running /\ UNCHANGED airplane
      BY <1>1 DEF Sections, flags
    <3> QED BY <1>1, <1>3, <2>1, <2>2, <3>1, CycleStep
  <2>3. CASE ~ok
    BY <1>1, <1>3, <2>1, <2>3, SectionStep
  <2> QED BY <2>2, <2>3
<1> QED BY <1>2, <1>3 DEF SerialRegister

LEMMA RestartOffStep ==
  ASSUME IInv, NEW p \in Processes, RestartOff(p)
  PROVE  IInv'
<1>1. job[p].step = "serial" /\ UNCHANGED <<switch, airplane, counters, requests>>
  BY DEF RestartOff, Waiting, At
<1>2. CASE radio = "missing" /\ Finish(p) /\ UNCHANGED <<modem, faults>>
  <2>1. ModemOK' /\ faults' \in 0..MaxFaults /\ offBy' = offBy /\ radio' = radio
    BY <1>2, Parts DEF modem, ModemOK
  <2> QED BY <1>1, <1>2, <2>1, CycleStep
<1>3. ASSUME NEW ok \in BOOLEAN, DisableRadio(ok, "cycle", FALSE), Goto(p, "dark"), lock' = p,
             UNCHANGED running
      PROVE  IInv'
  <2>1. ModemOK' /\ faults' \in 0..MaxFaults
    BY <1>3, Parts, DisableEffect
  <2> QED BY <1>1, <1>3, <2>1, CycleStep DEF Sections
<1> QED BY <1>2, <1>3 DEF RestartOff

LEMMA CycleOffStep ==
  ASSUME IInv, CycleOff
  PROVE  IInv'
<1>1. /\ job[Watchdog].step = "cycle" /\ Watchdog \in Processes
      /\ Goto(Watchdog, "dark") /\ lock' = lock /\ running' = running
      /\ UNCHANGED <<switch, airplane, counters, requests>>
  BY DEF CycleOff, At, Processes, flags
<1>2. PICK ok \in BOOLEAN : DisableRadio(ok, "cycle", TRUE)
  BY DEF CycleOff
<1>3. ModemOK' /\ faults' \in 0..MaxFaults
  BY <1>2, Parts, DisableEffect
<1> QED BY <1>1, <1>3, CycleStep DEF Sections

LEMMA LightOnStep ==
  ASSUME IInv, NEW p \in Processes, LightOn(p)
  PROVE  IInv'
<1>1. job[p].step = "dark" /\ UNCHANGED <<switch, airplane, counters, requests>>
  BY DEF LightOn, At
<1>2. PICK ok \in BOOLEAN :
        /\ EnableRadio(ok)
        /\ IF ok /\ job[p].op \in Restarts THEN Goto(p, "dial") /\ UNCHANGED <<lock, running>>
           ELSE Finish(p)
  BY DEF LightOn
<1>3. ModemOK' /\ faults' \in 0..MaxFaults /\ ~(radio' = "disabled" /\ offBy' = "cycle")
  BY <1>2, Parts, EnableEffect
<1> QED BY <1>1, <1>2, <1>3, CycleStep DEF Sections

LEMMA DialStep ==
  ASSUME IInv, NEW p \in Processes, Dial(p)
  PROVE  IInv'
<1>1. job[p].step = "dial" /\ Finish(p) /\ UNCHANGED <<switch, airplane, counters, requests>>
  BY DEF Dial, At
<1>2. /\ ModemOK' /\ faults' \in 0..MaxFaults
      /\ offBy' = offBy /\ (radio' = "disabled" => radio = "disabled")
  <2>1. CASE UNCHANGED <<modem, faults>>
    BY <2>1, Parts DEF modem, ModemOK
  <2> QED BY <2>1, Parts, ActivateEffect DEF Dial
<1> QED BY <1>1, <1>2, CycleStep
LEMMA ProfileEnabledStep ==
  ASSUME IInv, NEW p \in Processes, ProfileEnabled(p)
  PROVE  IInv'
<1>1. /\ job[p].step = "profile" /\ UNCHANGED <<switch, airplane, counters, requests>>
      /\ JobsOK /\ LockOK /\ airplane' \in BOOLEAN /\ requests' \in 0..MaxRequests
  BY Parts DEF ProfileEnabled, At
<1>2. ModemOK' /\ faults' \in 0..MaxFaults /\ offBy' = offBy /\ radio' = radio
  BY Parts DEF ProfileEnabled, modem, ModemOK
<1>3. CASE Finish(p)
  BY <1>1, <1>2, <1>3, CycleStep
<1>4. CASE /\ job' = [job EXCEPT ![p].step = "serial", ![p].dial = ~dataOff]
           /\ UNCHANGED <<lock, running>>
  <2> DEFINE rec == [job[p] EXCEPT !.step = "serial", !.dial = ~dataOff]
  <2>1. job[p] \in JobRecord
    BY <1>1, JobIs
  <2>2. (~dataOff) \in BOOLEAN
    BY Zenon
  <2>3. rec \in JobRecord /\ rec.op = job[p].op /\ rec.step = "serial"
    BY <2>1, <2>2 DEF JobRecord, Steps
  <2>4. job' = [job EXCEPT ![p] = rec]
    BY <1>4
  <2> HIDE DEF rec
  <2>5. JobsOK' /\ job'[p] = rec /\ \A q \in Processes \ {p} : job'[q] = job[q]
    BY <1>1, <2>3, <2>4, SetJob
  <2>6. LockOK'
    BY <1>1, <1>4, <2>5, KeepsLock, LockElsewhere DEF Sections
  <2>7. DarkInv'
    BY <1>1, <1>2, <2>5, Parts, KeepsDark
  <2>8. running' \in BOOLEAN /\ (job[p].op \in Switches => p \in Requests)
    BY <1>4, Parts DEF SwitchInv
  <2> QED BY <1>1, <1>2, <2>3, <2>5, <2>6, <2>7, <2>8, TaskStep DEF Storing, At
<1> QED BY <1>3, <1>4 DEF ProfileEnabled

LEMMA PowerOffStep ==
  ASSUME IInv, NEW p \in Processes, PowerOff(p)
  PROVE  IInv'
<1>1. /\ job[p].step = "serial" /\ lock' = p
      /\ UNCHANGED <<offBy, switch, flags, counters, faults, requests>>
      /\ profile' = "none"
      /\ \/ radio' = "missing" /\ stuck' = TRUE /\ Goto(p, "power")
         \/ /\ radio' = IF radio \in On THEN "searching" ELSE radio
            /\ UNCHANGED stuck
            /\ Goto(p, "appear")
  BY DEF PowerOff, Waiting, At
<1>2. /\ radio' \in Radio /\ profile' \in Active \cup {"none", "held"} /\ offBy' = offBy
      /\ (radio' = "disabled" => radio = "disabled")
  BY <1>1, Parts DEF ModemOK, Radio, Present, On
<1>3. stuck' \in BOOLEAN
  BY <1>1, Parts, Zenon DEF ModemOK
<1>4. ModemOK' /\ faults' \in 0..MaxFaults
  BY <1>1, <1>2, <1>3, Parts DEF ModemOK
<1>5. UNCHANGED <<airplane, running>>
  BY <1>1 DEF flags
<1> QED BY <1>1, <1>2, <1>4, <1>5, CycleStep DEF Sections

LEMMA PowerOnStep ==
  ASSUME IInv, NEW p \in Processes, PowerOn(p)
  PROVE  IInv'
<1>1. /\ job[p].step = "power"
      /\ UNCHANGED <<radio, profile, offBy, switch, airplane, counters, requests>>
  BY DEF PowerOn, At
<1>2. stuck' \in BOOLEAN
  BY Parts, Zenon DEF PowerOn, ModemOK
<1>3. faults' \in 0..MaxFaults
  BY Parts, FaultBounds DEF PowerOn
<1>4. ModemOK'
  BY <1>1, <1>2, Parts DEF ModemOK
<1>5. Finish(p) \/ (Goto(p, "appear") /\ lock' = lock /\ running' = running)
  BY DEF PowerOn
<1> QED BY <1>1, <1>3, <1>4, <1>5, CycleStep DEF Sections

LEMMA ReappearStep ==
  ASSUME IInv, NEW p \in Processes, Reappear(p)
  PROVE  IInv'
<1>1. /\ job[p].step = "appear" /\ UNCHANGED <<switch, airplane, counters, requests>>
      /\ Finish(p) \/ (Goto(p, "dial") /\ lock' = lock /\ running' = running)
  BY DEF Reappear, At
<1>2. ModemOK' /\ faults' \in 0..MaxFaults /\ offBy' = offBy /\ radio' = radio
  BY Parts DEF Reappear, modem, ModemOK
<1> QED BY <1>1, <1>2, CycleStep DEF Sections

LEMMA CancelStep ==
  ASSUME IInv, NEW p \in Requests, Cancel(p)
  PROVE  IInv'
<1>1. /\ p \in Processes /\ job[p].step \notin {"idle", "flag"} /\ Finish(p)
      /\ UNCHANGED <<radio, profile, stuck, switch, airplane, counters, requests>>
  BY DEF Cancel, Processes
<1>2. faults' \in 0..MaxFaults
  BY Parts, FaultBounds DEF Cancel
<1>3. ModemOK' /\ ~(radio' = "disabled" /\ offBy' = "cycle")
  BY <1>1, Parts DEF Cancel, ModemOK
<1> QED BY <1>1, <1>2, <1>3, CycleStep

-----------------------------------------------------------------------------
(* The data switch.                                                         *)

(* The configuration is saved: from here the request that saved it is the   *)
(* only one between save and store, or two have crossed.                    *)
LEMMA SaveSwitchStep ==
  ASSUME IInv, NEW p \in Processes, SaveSwitch(p)
  PROVE  IInv'
<1>1. /\ job[p].step = "save" /\ job[p].op \in Switches /\ p \in Requests
      /\ JobsOK /\ LockOK /\ FlagsOK
      /\ UNCHANGED <<modem, dataOff, autoconnect, syncing, flags, lock, counters, requests>>
  BY Parts DEF SaveSwitch, At, SwitchInv
<1>2. ModemOK' /\ WatchOK' /\ offBy' = offBy /\ radio' = radio
  BY <1>1, Parts DEF modem, ModemOK, counters, WatchOK
<1>3. BoundsOK'
  BY <1>1, Parts, FaultBounds DEF BoundsOK, SaveSwitch
<1>4. FlagsOK'
  <2>1. (job[p].op \in {"dataOn", "hubDataOn"}) \in BOOLEAN
    BY MembershipIsBoolean
  <2>2. dataConfig' \in BOOLEAN
    BY <1>1, <2>1 DEF SaveSwitch, FlagsOK
  <2>3. crossed' \in BOOLEAN
    BY <1>1, Zenon DEF SaveSwitch, FlagsOK
  <2> QED BY <1>1, <2>2, <2>3 DEF flags, FlagsOK
<1>5. CASE job' = [job EXCEPT ![p] = Idle] /\ UNCHANGED <<dataConfig, crossed>>
  <2>1. /\ JobsOK'
        /\ job'[p].op = "none" /\ job'[p].step = "idle"
        /\ \A q \in Processes \ {p} : job'[q] = job[q]
    BY <1>1, <1>5, DropJob
  <2>2. LockOK'
    BY <1>1, <2>1, KeepsLock, LockElsewhere DEF Sections
  <2>3. SwitchInv'
    BY <1>1, <1>5, <2>1, Parts, KeepsSwitch DEF Storing, At, Switches
  <2>4. DarkInv'
    BY <1>1, <1>2, <2>1, Parts, KeepsDark
  <2> QED BY <1>2, <1>3, <1>4, <2>1, <2>2, <2>3, <2>4, TypePartsNext DEF IInv
<1>6. CASE /\ dataConfig' = (job[p].op \in {"dataOn", "hubDataOn"})
           /\ crossed' = (crossed \/ \E q \in Requests : At(q, "flag") /\ job[q].op \in Switches)
           /\ Goto(p, "flag")
  <2>1. /\ JobsOK'
        /\ job'[p].op = job[p].op /\ job'[p].step = "flag"
        /\ \A q \in Processes \ {p} : job'[q] = job[q]
    BY <1>1, <1>6, GotoJob DEF Steps
  <2>2. LockOK'
    BY <1>1, <2>1, KeepsLock, LockElsewhere DEF Sections
  <2>3. SwitchInv'
    <3>1. \A q \in Processes : /\ job'[q].op \in Switches => q \in Requests
                               /\ job'[q].step = "save" => job'[q].op \in Switches
      BY <1>1, <2>1, Parts DEF SwitchInv, At
    <3>2. CASE crossed'
      BY <3>1, <3>2 DEF SwitchInv, At
    <3>3. CASE ~crossed'
      <4>1. \A q \in Processes \ {p} : ~Storing(q)'
        BY <1>6, <2>1, <3>3, Parts DEF SwitchInv, Storing, At
      <4>2. Storing(p)' /\ dataConfig' = (job'[p].op \in {"dataOn", "hubDataOn"})
        BY <1>1, <1>6, <2>1 DEF Storing, At
      <4> QED BY <3>1, <4>1, <4>2 DEF SwitchInv, At
    <3> QED BY <3>2, <3>3
  <2>4. DarkInv'
    BY <1>1, <1>2, <2>1, Parts, KeepsDark
  <2> QED BY <1>2, <1>3, <1>4, <2>1, <2>2, <2>3, <2>4, TypePartsNext DEF IInv
<1> QED BY <1>5, <1>6 DEF SaveSwitch

(* The flag is stored: it is the configuration, if only one was storing.    *)
LEMMA StoreSwitchStep ==
  ASSUME IInv, NEW p \in Processes, StoreSwitch(p)
  PROVE  IInv'
<1>1. /\ Storing(p) /\ JobsOK /\ LockOK /\ FlagsOK
      /\ dataOff' = (job[p].op \in {"dataOff", "hubDataOff"})
      /\ job' = [job EXCEPT ![p] = Idle]
      /\ UNCHANGED <<modem, dataConfig, autoconnect, crossed, flags, lock, counters, faults,
                     requests>>
  BY Parts DEF StoreSwitch, Storing
<1>2. ModemOK' /\ WatchOK' /\ BoundsOK' /\ offBy' = offBy /\ radio' = radio
  BY <1>1, Parts DEF modem, ModemOK, counters, WatchOK, BoundsOK
<1>3. /\ JobsOK'
      /\ job'[p].op = "none" /\ job'[p].step = "idle"
      /\ \A q \in Processes \ {p} : job'[q] = job[q]
  BY <1>1, DropJob
<1>4. FlagsOK'
  <2>1. dataOff' \in BOOLEAN
    <3>1. (job[p].op \in {"dataOff", "hubDataOff"}) \in BOOLEAN
      BY MembershipIsBoolean
    <3> QED BY <1>1, <3>1
  <2>2. syncing' \in SUBSET BOOLEAN
    BY <1>1, Zenon DEF StoreSwitch, FlagsOK
  <2> QED BY <1>1, <2>1, <2>2 DEF flags, FlagsOK
<1>5. LockOK'
  BY <1>1, <1>3, KeepsLock, LockElsewhere DEF Sections, Storing, At
<1>6. SwitchInv'
  <2>1. \A q \in Processes : /\ job'[q].op \in Switches => q \in Requests
                             /\ job'[q].step = "save" => job'[q].op \in Switches
    BY <1>1, <1>3, Parts DEF SwitchInv, At, Switches
  <2>2. CASE crossed
    BY <1>1, <2>1, <2>2 DEF SwitchInv, At
  <2>3. CASE ~crossed
    <3>1. /\ \A q \in Processes \ {p} : ~Storing(q)
          /\ dataConfig = (job[p].op \in {"dataOn", "hubDataOn"})
      BY <1>1, <2>3, Parts DEF SwitchInv
    <3>2. \A q \in Processes : ~Storing(q)'
      BY <1>3, <3>1 DEF Storing, At
    <3>3. dataConfig' = ~dataOff'
      <4>1. CASE job[p].op \in {"dataOn", "hubDataOn"}
        <5>1. dataOff' = FALSE
          <6>1. job[p].op \notin {"dataOff", "hubDataOff"}
            BY <4>1
          <6>2. (job[p].op \in {"dataOff", "hubDataOff"}) = FALSE
            BY <6>1, MembershipIsBoolean, Zenon
          <6> QED BY <1>1, <6>2
        <5>2. dataConfig' = TRUE
          BY <1>1, <3>1, <4>1
        <5> QED BY <5>1, <5>2
      <4>2. CASE job[p].op \in {"dataOff", "hubDataOff"}
        <5>1. dataOff' = TRUE
          BY <1>1, <4>2
        <5>2. dataConfig' = FALSE
          <6>1. job[p].op \notin {"dataOn", "hubDataOn"}
            BY <4>2
          <6>2. (job[p].op \in {"dataOn", "hubDataOn"}) = FALSE
            BY <6>1, MembershipIsBoolean, Zenon
          <6> QED BY <1>1, <3>1, <6>2
        <5> QED BY <5>1, <5>2
      <4> QED BY <1>1, <4>1, <4>2 DEF Storing, Switches
    <3> QED BY <2>1, <3>2, <3>3 DEF SwitchInv, At
  <2> QED BY <2>2, <2>3
<1>7. DarkInv'
  BY <1>1, <1>2, <1>3, Parts, KeepsDark DEF Storing, At
<1> QED BY <1>2, <1>3, <1>4, <1>5, <1>6, <1>7, TypePartsNext DEF IInv
LEMMA StoreAirplaneStep ==
  ASSUME IInv, NEW p \in Processes, StoreAirplane(p)
  PROVE  IInv'
<1>1. /\ job[p].step = "flag" /\ job[p].op \notin Switches
      /\ JobsOK /\ LockOK
      /\ job' = [job EXCEPT ![p] = Idle]
      /\ UNCHANGED <<modem, switch, running, lock, counters, faults, requests>>
  BY Parts DEF StoreAirplane, At, Airplanes, Switches
<1>2. /\ ModemOK' /\ offBy' = offBy /\ radio' = radio
      /\ faults' \in 0..MaxFaults /\ requests' \in 0..MaxRequests /\ running' \in BOOLEAN
  BY <1>1, Parts DEF modem, ModemOK
<1>3. airplane' \in BOOLEAN
  BY Zenon DEF StoreAirplane
<1>4. /\ JobsOK'
      /\ job'[p].op = "none" /\ job'[p].step = "idle"
      /\ \A q \in Processes \ {p} : job'[q] = job[q]
  BY <1>1, DropJob
<1>5. LockOK'
  BY <1>1, <1>4, KeepsLock, LockElsewhere DEF Sections
<1>6. DarkInv'
  BY <1>1, <1>2, <1>4, Parts, KeepsDark
<1> QED BY <1>1, <1>2, <1>3, <1>4, <1>5, <1>6, TaskStep DEF Storing, At, Switches

LEMMA WorkStep ==
  ASSUME IInv, NEW p \in Processes, Work(p)
  PROVE  IInv'
BY SerialDataStep, SerialApplyStep, SerialRoamingStep, SerialAirplaneStep, SerialRegisterStep,
   RestartOffStep, LightOnStep, DialStep, ProfileEnabledStep, PowerOffStep, PowerOnStep,
   ReappearStep, SaveSwitchStep, StoreSwitchStep, StoreAirplaneStep
   DEF Work

-----------------------------------------------------------------------------
(* Starts and restarts of the service.                                      *)

LEMMA BootBeginStep ==
  ASSUME IInv, BootBegin
  PROVE  IInv'
<1> DEFINE rec == IF dataOff THEN [Idle EXCEPT !.op = "off", !.step = "serial"]
                  ELSE IF radio = "registered" \/ (radio = "connected" /\ profile # "ready")
                       THEN [Idle EXCEPT !.op = "on", !.step = "serial"]
                       ELSE Idle
<1>1. /\ job[Boot].step = "boot" /\ Boot \in Processes
      /\ JobsOK /\ LockOK /\ FlagsOK
      /\ job' = [job EXCEPT ![Boot] = rec]
      /\ UNCHANGED <<modem, dataOff, dataConfig, syncing, crossed, flags, lock, counters, faults,
                     requests>>
  BY Parts DEF BootBegin, At, Processes
<1>2. /\ rec \in JobRecord \cup {Idle}
      /\ rec.op \notin Switches /\ rec.step \in {"idle", "serial"}
  BY DEF JobRecord, Idle, Steps, Switches
<1> HIDE DEF rec
<1>3. JobsOK' /\ job'[Boot] = rec /\ \A q \in Processes \ {Boot} : job'[q] = job[q]
  BY <1>1, <1>2, SetJob
<1>4. ModemOK' /\ WatchOK' /\ BoundsOK' /\ offBy' = offBy /\ radio' = radio
  BY <1>1, Parts DEF modem, ModemOK, counters, WatchOK, BoundsOK
<1>5. FlagsOK'
  <2>1. autoconnect' \in BOOLEAN
    BY Zenon DEF BootBegin
  <2> QED BY <1>1, <2>1 DEF flags, FlagsOK
<1>6. LockOK'
  BY <1>1, <1>3, KeepsLock, LockElsewhere DEF Sections
<1>7. SwitchInv'
  BY <1>1, <1>2, <1>3, Parts, KeepsSwitch DEF Storing, At
<1>8. DarkInv'
  BY <1>1, <1>3, <1>4, Parts, KeepsDark
<1> QED BY <1>3, <1>4, <1>5, <1>6, <1>7, <1>8, TypePartsNext DEF IInv

(* The flag starts as the configuration says.                               *)
LEMMA RestartStep ==
  ASSUME IInv, Restart
  PROVE  IInv'
<1>1. UNCHANGED <<radio, profile, stuck, dataConfig, autoconnect, requests>>
  BY DEF Restart
<1>2. /\ JobsOK'
      /\ \A p \in Processes : job'[p].op \in {"none", "boot"}
                                /\ job'[p].step \in {"idle", "boot"}
  BY DEF Restart, JobsOK, JobRecord, Idle, Steps
<1>3. ModemOK' /\ ~(radio' = "disabled" /\ offBy' = "cycle")
  BY Parts DEF Restart, ModemOK
<1>4. FlagsOK'
  <2>1. dataOff' \in BOOLEAN
    BY Zenon DEF Restart
  <2>2. /\ crossed' \in BOOLEAN /\ airplane' \in BOOLEAN /\ running' \in BOOLEAN
        /\ syncing' \in SUBSET BOOLEAN
    BY Zenon DEF Restart
  <2> QED BY <1>1, <2>1, <2>2, Parts DEF FlagsOK
<1>5. LockOK'
  BY DEF Restart, LockOK
<1>6. WatchOK'
  BY DEF Restart, WatchOK, Fresh, Radio
<1>7. BoundsOK'
  BY <1>1, Parts, FaultBounds DEF Restart, BoundsOK
<1>8. SwitchInv'
  <2>1. dataConfig' = ~dataOff'
    BY <1>1, Parts, Zenon DEF Restart, FlagsOK
  <2> QED BY <1>2, <2>1 DEF SwitchInv, Storing, At, Switches
<1>9. DarkInv'
  BY <1>3 DEF DarkInv
<1> QED BY <1>2, <1>3, <1>4, <1>5, <1>6, <1>7, <1>8, <1>9, TypePartsNext DEF IInv

-----------------------------------------------------------------------------
(* The watchdog.                                                            *)

LEMMA CountIs ==
  ASSUME WatchOK
  PROVE  Count \in Nat /\ Asked \in BOOLEAN
<1>1. Count \in Nat
  BY DEF WatchOK, Count
<1>2. seen.asked \in BOOLEAN
  BY DEF WatchOK
<1>3. Asked \in BOOLEAN
  BY <1>2, Zenon DEF Asked
<1> QED BY <1>1, <1>3

LEMMA SawEffect ==
  ASSUME ModemOK, NEW n \in Nat, NEW asked \in BOOLEAN, Saw(n, asked)
  PROVE  /\ seen' \in [state : Radio, n : Nat, asked : BOOLEAN]
         /\ missing' \in [n : Nat, scanned : BOOLEAN]
BY DEF Saw, ModemOK

(* A tick may give the watchdog a job.                                      *)
LEMMA TickStep ==
  ASSUME IInv, NEW op \in {"none", "airplaneOn", "register", "cycle", "on"},
         NEW step \in {"idle", "serial", "cycle"}, Tick(op, step),
         op # "none" => step # "idle",
         ModemOK', faults' \in 0..MaxFaults, WatchOK',
         offBy' = offBy /\ (radio' = "disabled" => radio = "disabled")
  PROVE  IInv'
<1> DEFINE rec == [op |-> op, step |-> step, dial |-> FALSE]
<1>1. /\ job[Watchdog].step = "idle" /\ Watchdog \in Processes
      /\ JobsOK /\ LockOK /\ FlagsOK
      /\ job' = IF op = "none" THEN job ELSE [job EXCEPT ![Watchdog] = rec]
      /\ UNCHANGED <<switch, flags, lock, requests>>
  BY Parts DEF Tick, At, Processes
<1>2. op # "none" => rec \in JobRecord
  BY DEF JobRecord, Steps, AllOps, Airplanes
<1>3. rec.op = op /\ rec.step = step
  OBVIOUS
<1> HIDE DEF rec
<1>4. /\ JobsOK'
      /\ job'[Watchdog] \in {rec, job[Watchdog]}
      /\ \A q \in Processes \ {Watchdog} : job'[q] = job[q]
  <2>1. CASE op = "none"
    BY <1>1, <2>1 DEF JobsOK
  <2>2. CASE op # "none"
    BY <1>1, <1>2, <2>2, SetJob
  <2> QED BY <2>1, <2>2
<1>5. /\ job'[Watchdog].op \in Switches => Watchdog \in Requests
      /\ job'[Watchdog].step \in {"idle", "serial", "cycle"}
  BY <1>1, <1>3, <1>4, Parts DEF SwitchInv, Switches
<1>6. LockOK'
  BY <1>1, <1>4, KeepsLock, LockElsewhere DEF Sections
<1>7. SwitchInv'
  BY <1>1, <1>4, <1>5, Parts, KeepsSwitch DEF switch, Storing, At
<1>8. DarkInv'
  BY <1>1, <1>4, Parts, KeepsDark
<1>9. FlagsOK' /\ BoundsOK'
  BY <1>1, Parts DEF FlagsOK, switch, flags, BoundsOK
<1> QED BY <1>4, <1>6, <1>7, <1>8, <1>9, TypePartsNext DEF IInv

(* A tick that leaves the modem alone.                                      *)
LEMMA LookStep ==
  ASSUME IInv, NEW n \in Nat, NEW asked \in BOOLEAN, Saw(n, asked),
         NEW op \in {"none", "airplaneOn", "register", "cycle", "on"},
         NEW step \in {"idle", "serial", "cycle"}, Tick(op, step),
         op # "none" => step # "idle",
         cool' \in SUBSET {"data", "search", "restart"},
         UNCHANGED <<modem, faults>>
  PROVE  IInv'
<1>1. WatchOK'
  BY Parts, SawEffect DEF WatchOK
<1>2. ModemOK' /\ faults' \in 0..MaxFaults /\ offBy' = offBy /\ radio' = radio
  BY Parts DEF modem, ModemOK
<1> QED BY <1>1, <1>2, TickStep
LEMMA MissingIs ==
  ASSUME NEW k \in Nat, NEW b \in BOOLEAN
  PROVE  [n |-> k, scanned |-> b] \in [n : Nat, scanned : BOOLEAN]
OBVIOUS

(* ModemManager is restarted, or cannot be.                                 *)
LEMMA RestartedEffect ==
  ASSUME ModemOK, faults \in 0..MaxFaults,
         \/ RestartModemManager /\ UNCHANGED faults
         \/ Fault /\ UNCHANGED modem
         \/ UNCHANGED <<modem, faults>>
  PROVE  /\ ModemOK' /\ faults' \in 0..MaxFaults
         /\ offBy' = offBy /\ (radio' = "disabled" => radio = "disabled")
<1>1. faults' \in 0..MaxFaults
  BY FaultBounds
<1>2. stuck' \in BOOLEAN
  BY Zenon DEF RestartModemManager, ModemOK, modem
<1>3. /\ radio' \in Radio /\ profile' \in Active \cup {"none", "held"}
      /\ offBy' = offBy /\ (radio' = "disabled" => radio = "disabled")
  BY DEF RestartModemManager, ModemOK, modem, Radio
<1> QED BY <1>1, <1>2, <1>3 DEF ModemOK

LEMMA WatchStep ==
  ASSUME IInv, Watch
  PROVE  IInv'
<1>0. /\ Count \in Nat /\ Asked \in BOOLEAN /\ Count + 1 \in Nat
      /\ 0 \in Nat /\ FALSE \in BOOLEAN /\ TRUE \in BOOLEAN
      /\ cool \in SUBSET {"data", "search", "restart"}
  BY CountIs, Parts DEF WatchOK
<1>1. CASE WatchAirplane
  <2>1. /\ Saw(Count, Asked) /\ UNCHANGED <<modem, cool, faults>>
        /\ Tick("airplaneOn", "serial") \/ Tick("none", "idle")
    BY <1>1 DEF WatchAirplane
  <2> QED BY <1>0, <2>1, LookStep
<1>2. CASE WatchIdle
  <2>1. /\ UNCHANGED <<modem, cool, faults>>
        /\ \/ Saw(Count + 1, FALSE) /\ Tick("none", "idle")
           \/ Saw(0, FALSE) /\ Tick("cycle", "cycle")
    BY <1>2 DEF WatchIdle
  <2> QED BY <1>0, <2>1, LookStep
<1>3. CASE WatchSearching
  <2>1. PICK n \in Nat :
          /\ UNCHANGED <<modem, faults>>
          /\ \/ Saw(0, FALSE) /\ cool' = cool \cup {"search"} /\ Tick("cycle", "cycle")
             \/ Saw(n, TRUE) /\ Tick("register", "serial") /\ UNCHANGED cool
             \/ Saw(n, Asked) /\ Tick("none", "idle") /\ UNCHANGED cool
    <3>1. (IF Count < CycleAfter THEN Count + 1 ELSE Count) \in Nat
      BY <1>0
    <3> QED BY <1>3, <3>1 DEF WatchSearching
  <2>2. cool' \in SUBSET {"data", "search", "restart"}
    BY <1>0, <2>1
  <2>3. CASE Saw(0, FALSE) /\ Tick("cycle", "cycle")
    BY <1>0, <2>1, <2>2, <2>3, LookStep
  <2>4. CASE Saw(n, TRUE) /\ Tick("register", "serial")
    BY <1>0, <2>1, <2>2, <2>4, LookStep
  <2>5. CASE Saw(n, Asked) /\ Tick("none", "idle")
    BY <1>0, <2>1, <2>2, <2>5, LookStep
  <2> QED BY <2>1, <2>3, <2>4, <2>5
<1>4. CASE WatchFailed
  <2>1. /\ Saw(Count + 1, FALSE) \/ Saw(0, FALSE)
        /\ UNCHANGED cool /\ Tick("none", "idle")
    BY <1>4 DEF WatchFailed
  <2>2. WatchOK'
    BY <1>0, <2>1, Parts, SawEffect DEF WatchOK
  <2>3. /\ ModemOK' /\ faults' \in 0..MaxFaults
        /\ offBy' = offBy /\ (radio' = "disabled" => radio = "disabled")
    BY <1>4, Parts, RestartedEffect DEF WatchFailed
  <2> QED BY <2>1, <2>2, <2>3, TickStep
<1>5. CASE WatchWaiting
  BY <1>0, <1>5, LookStep DEF WatchWaiting
<1>6. CASE WatchConnected
  <2>1. /\ Saw(0, FALSE) /\ UNCHANGED <<modem, faults>>
        /\ cool' \in {cool \ {"data"}, cool \cup {"data"}}
        /\ Tick("none", "idle") \/ Tick("on", "serial")
    BY <1>6 DEF WatchConnected
  <2>2. cool' \in SUBSET {"data", "search", "restart"}
    BY <1>0, <2>1
  <2> QED BY <1>0, <2>1, <2>2, LookStep
<1>7. CASE WatchTransition
  <2>1. /\ UNCHANGED <<modem, cool, faults>>
        /\ \/ Saw(Count + 1, FALSE) /\ Tick("none", "idle")
           \/ Saw(0, FALSE) /\ Tick("cycle", "cycle")
    BY <1>7 DEF WatchTransition
  <2> QED BY <1>0, <2>1, LookStep
<1>8. CASE WatchInactive
  <2>1. /\ Saw(0, FALSE) /\ UNCHANGED <<modem, faults>>
        /\ cool' \in {cool \ {"data"}, cool \cup {"data"}}
        /\ Tick("none", "idle") \/ Tick("on", "serial")
    BY <1>8 DEF WatchInactive
  <2>2. cool' \in SUBSET {"data", "search", "restart"}
    BY <1>0, <2>1
  <2> QED BY <1>0, <2>1, <2>2, LookStep
<1>9. CASE WatchMissing
  <2> DEFINE n == IF missing.n < RestartAfter THEN missing.n + 1 ELSE missing.n
  <2>1. n \in Nat /\ 0 \in Nat
    BY Parts DEF WatchOK
  <2>2. /\ seen' = seen /\ Tick("none", "idle")
        /\ \/ missing' = [n |-> 0, scanned |-> FALSE] /\ cool' = cool \cup {"restart"}
           \/ missing' = [n |-> n, scanned |-> TRUE] /\ cool' = cool
           \/ /\ missing' = [n |-> n, scanned |-> missing.scanned \/ n >= ScanAfter]
              /\ cool' = cool
    BY <1>9 DEF WatchMissing
  <2>3. \/ RestartModemManager /\ UNCHANGED faults
        \/ Fault /\ UNCHANGED modem
        \/ UNCHANGED <<modem, faults>>
    BY <1>9 DEF WatchMissing
  <2> HIDE DEF n
  <2>4. missing' \in [n : Nat, scanned : BOOLEAN]
    <3> DEFINE scanned == missing.scanned \/ n >= ScanAfter
    <3>1. scanned \in BOOLEAN
      BY Zenon
    <3>2. missing' \in {[n |-> 0, scanned |-> FALSE], [n |-> n, scanned |-> TRUE],
                        [n |-> n, scanned |-> scanned]}
      BY <2>2
    <3> HIDE DEF scanned
    <3>3. /\ [n |-> 0, scanned |-> FALSE] \in [n : Nat, scanned : BOOLEAN]
          /\ [n |-> n, scanned |-> TRUE] \in [n : Nat, scanned : BOOLEAN]
          /\ [n |-> n, scanned |-> scanned] \in [n : Nat, scanned : BOOLEAN]
      BY <2>1, <3>1, MissingIs
    <3> QED BY <3>2, <3>3, Zenon
  <2>5. WatchOK'
    BY <1>0, <2>2, <2>4, Parts DEF WatchOK
  <2>6. /\ ModemOK' /\ faults' \in 0..MaxFaults
        /\ offBy' = offBy /\ (radio' = "disabled" => radio = "disabled")
    BY <2>3, Parts, RestartedEffect
  <2> QED BY <2>2, <2>5, <2>6, TickStep
<1> QED BY <1>1, <1>2, <1>3, <1>4, <1>5, <1>6, <1>7, <1>8, <1>9 DEF Watch

-----------------------------------------------------------------------------
(* The modem by itself, the timers, and autoconnect.                        *)

LEMMA OutsideStep ==
  ASSUME IInv, UNCHANGED <<dataOff, dataConfig, crossed, flags, lock, job, requests>>,
         ModemOK', faults' \in 0..MaxFaults, WatchOK',
         autoconnect' \in BOOLEAN, syncing' \in SUBSET BOOLEAN,
         \/ offBy' = offBy /\ (radio' = "disabled" => radio = "disabled")
         \/ ~(radio' = "disabled" /\ offBy' = "cycle")
  PROVE  IInv'
<1>1. FlagsOK' /\ JobsOK' /\ LockOK' /\ BoundsOK'
  BY Parts DEF FlagsOK, flags, JobsOK, LockOK, BoundsOK
<1>2. SwitchInv'
  BY Parts DEF SwitchInv, Storing, At
<1>3. DarkInv'
  BY Parts DEF DarkInv, At
<1> QED BY <1>1, <1>2, <1>3, TypePartsNext DEF IInv

LEMMA ExternalStep ==
  ASSUME IInv, External, ModemOK', faults' \in 0..MaxFaults,
         \/ offBy' = offBy /\ (radio' = "disabled" => radio = "disabled")
         \/ ~(radio' = "disabled" /\ offBy' = "cycle")
  PROVE  IInv'
<1>1. /\ UNCHANGED <<dataOff, dataConfig, crossed, flags, lock, job, requests>>
      /\ UNCHANGED counters
      /\ autoconnect' = autoconnect /\ syncing' = syncing
  BY DEF External, switch
<1>2. WatchOK' /\ autoconnect' \in BOOLEAN /\ syncing' \in SUBSET BOOLEAN
  BY <1>1, Parts DEF counters, WatchOK, FlagsOK
<1> QED BY <1>1, <1>2, OutsideStep

LEMMA ModemStep ==
  ASSUME IInv, Recovers \/ AutoDial \/ Trouble
  PROVE  IInv'
<1>1. External /\ faults' \in 0..MaxFaults
  BY Parts, FaultBounds DEF Recovers, Appear, Advance, TransitionEnds, AutoDial, Trouble
<1>2. stuck' \in BOOLEAN
  <2>1. CASE Recovers \/ AutoDial
    BY <2>1, Parts DEF Recovers, Appear, Advance, TransitionEnds, AutoDial, ModemOK
  <2>2. CASE Trouble
    BY <2>2, Parts, Zenon DEF Trouble, ModemOK
  <2> QED BY <2>1, <2>2
<1>3. CASE Recovers \/ AutoDial
  <2>1. /\ radio' \in Radio /\ profile' \in Active \cup {"none", "held"}
        /\ offBy' \in {"nothing", "airplane", "cycle", "cut", "modem"}
        /\ ~(radio' = "disabled" /\ offBy' = "cycle")
    BY <1>3, Parts
       DEF Recovers, Appear, Advance, TransitionEnds, AutoDial, ModemOK, Radio, Present, On, Active
  <2> QED BY <1>1, <1>2, <2>1, ExternalStep DEF ModemOK
<1>4. CASE Trouble
  <2>1. /\ radio' \in Radio /\ profile' \in Active \cup {"none", "held"}
        /\ offBy' = offBy /\ (radio' = "disabled" => radio = "disabled")
    BY <1>4, Parts DEF Trouble, ModemOK, Radio, Present, On, Active
  <2> QED BY <1>1, <1>2, <2>1, Parts, ExternalStep DEF ModemOK
<1> QED BY <1>3, <1>4

LEMMA CoolDownStep ==
  ASSUME IInv, NEW c \in cool, CoolDown(c)
  PROVE  IInv'
<1>1. ModemOK' /\ WatchOK' /\ faults' \in 0..MaxFaults /\ offBy' = offBy /\ radio' = radio
  BY Parts DEF CoolDown, modem, ModemOK, WatchOK
<1>2. /\ UNCHANGED <<dataOff, dataConfig, crossed, flags, lock, job, requests>>
      /\ autoconnect' \in BOOLEAN /\ syncing' \in SUBSET BOOLEAN
  BY Parts DEF CoolDown, switch, FlagsOK
<1> QED BY <1>1, <1>2, OutsideStep

LEMMA SyncAutoconnectStep ==
  ASSUME IInv, NEW on \in BOOLEAN, SyncAutoconnect(on)
  PROVE  IInv'
<1>1. ModemOK' /\ WatchOK' /\ faults' \in 0..MaxFaults /\ offBy' = offBy /\ radio' = radio
  BY Parts DEF SyncAutoconnect, modem, ModemOK, counters, WatchOK
<1>2. syncing' \in SUBSET BOOLEAN /\ autoconnect' \in BOOLEAN
  BY Parts, Zenon DEF SyncAutoconnect, FlagsOK
<1> QED BY <1>1, <1>2, OutsideStep DEF SyncAutoconnect

LEMMA IInvStep == IInv /\ [Next]_vars => IInv'
<1> SUFFICES ASSUME IInv, [Next]_vars PROVE IInv'
  OBVIOUS
<1>1. ASSUME NEW r \in Requests, Ask(r) \/ Cancel(r) PROVE IInv'
  BY <1>1, AskStep, CancelStep
<1>2. ASSUME NEW p \in Processes, Work(p) PROVE IInv'
  BY <1>2, WorkStep
<1>3. ASSUME NEW on \in BOOLEAN, SyncAutoconnect(on) PROVE IInv'
  BY <1>3, SyncAutoconnectStep
<1>4. ASSUME NEW c \in cool, CoolDown(c) PROVE IInv'
  BY <1>4, CoolDownStep
<1>5. CASE BootBegin \/ CycleOff \/ Watch \/ Restart
  BY <1>5, BootBeginStep, CycleOffStep, WatchStep, RestartStep
<1>6. CASE Recovers \/ AutoDial \/ Trouble
  BY <1>6, ModemStep
<1>7. CASE UNCHANGED vars
  <2>1. /\ ModemOK' /\ WatchOK' /\ faults' \in 0..MaxFaults /\ offBy' = offBy /\ radio' = radio
        /\ UNCHANGED <<dataOff, dataConfig, crossed, flags, lock, job, requests>>
        /\ autoconnect' \in BOOLEAN /\ syncing' \in SUBSET BOOLEAN
    BY <1>7, Parts DEF vars, modem, ModemOK, counters, WatchOK, switch, FlagsOK
  <2> QED BY <2>1, OutsideStep
<1> QED BY <1>1, <1>2, <1>3, <1>4, <1>5, <1>6, <1>7 DEF Next

-----------------------------------------------------------------------------
(* When nothing is under way, the data switch in the configuration is the   *)
(* one the watchdog obeys, unless two requests crossed.                     *)
THEOREM ConfigurationIsObeyed == Spec => []SwitchAgrees
<1>1. ASSUME IInv PROVE SwitchAgrees
  <2>1. TypeOK /\ SwitchInv
    BY <1>1 DEF IInv
  <2>2. ASSUME Quiet, ~crossed PROVE dataConfig = ~dataOff
    <3>1. \A p \in Processes : ~Storing(p)
      BY <2>2 DEF Quiet, Storing, At
    <3> QED BY <2>1, <2>2, <3>1 DEF SwitchInv
  <2> QED BY <2>1, <2>2 DEF SwitchAgrees
<1> QED BY <1>1, IInvAtInit, IInvStep, PTL DEF Spec

(* No cycle, restart or registration that ran to its end leaves the radio   *)
(* off, however they overlap.                                               *)
THEOREM CyclesLeaveRadioOn == Spec => []RadioOffHasReason
<1>1. IInv => RadioOffHasReason
  BY DEF IInv, DarkInv, RadioOffHasReason, Quiet, At
<1> QED BY <1>1, IInvAtInit, IInvStep, PTL DEF Spec
=============================================================================
