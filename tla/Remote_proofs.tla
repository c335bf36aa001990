---------------------------- MODULE Remote_proofs ----------------------------
(***************************************************************************)
(* Proofs about the other parts that Remote composes, each for any values  *)
(* of its constants, and about all.  A part that rests keeps its           *)
(* invariant, so that a theorem about RemoteSpec follows from the steps of *)
(* one part.                                                               *)
(***************************************************************************)
EXTENDS NotificationQueue_proofs, SequenceTheorems

-----------------------------------------------------------------------------
(* HubLifecycle.                                                            *)

Holding(c) == caller[c].at \in {"join", "ends", "reset", "announce"}

CallerType ==
  [at : {"idle", "order", "queue", "lock", "join", "ends", "reset", "announce", "forget"},
   want : HubSettings \cup {NoKey}, token : Hubs \cup {NoHub},
   ask : {"save", "provision", "unbind", "command"}, config : Configs \cup {NoConfig}]

TaskType ==
  [config : Configs, at : {"wait", "answered", "tell", "write"}, aborted : BOOLEAN]

(* The parts of HubTypeOK.                                                  *)
SettingsOK ==
  /\ hub \in HubSettings
  /\ activeKey \in HubSettings \cup {NoKey}
  /\ saved \in Configs \cup {NoConfig}
  /\ agentShown \in Hubs \cup {NoHub}

CallersOK == caller \in [Appliers -> CallerType]

LocksOK == provisioning \in Appliers \cup {"free"} /\ lifecycle \in Appliers \cup {"free"}

CountsOK == generation \in Nat /\ runtime \in Nat /\ saves \in 0..MaxSaves

SignsOK ==
  /\ fallback \in BOOLEAN /\ publisher \in BOOLEAN
  /\ cut \in BOOLEAN /\ unapplied \in BOOLEAN /\ orphaned \in BOOLEAN

TasksOK ==
  /\ DOMAIN tasks \subseteq 1..generation
  /\ \A g \in DOMAIN tasks : tasks[g] \in TaskType

(* What a caller is about to apply are settings; an unbinding brings no     *)
(* token; the one that is past the lock has it.                             *)
CallerInv ==
  \A c \in Appliers :
    /\ Applying(c) => caller[c].want \in HubSettings
    /\ CallerAt(c, "idle") => caller[c] = IdleCaller
    /\ caller[c].ask \in Unbinding => caller[c].token = NoHub
    /\ CallerAt(c, "order") => caller[c].ask = "command"
    /\ Holding(c) <=> lifecycle = c

OfItsHub(k) == k # NoConfig => {k.token, k.agent, k.enrollment} \subseteq {k.url, NoHub}

(* A token that waits to be applied is of the Hub that is.                  *)
SecretsInv ==
  /\ OfItsHub(saved)
  /\ \A g \in DOMAIN tasks : OfItsHub(tasks[g].config)
  /\ \A c \in Appliers :
       /\ Applying(c) => caller[c].token \in {caller[c].want.url, NoHub}
       /\ CallerAt(c, "announce") => OfItsHub(caller[c].config)

(* The runtime is the one of this generation, all others are aborted, and   *)
(* one that is left was left by a caller that did not wait for its end.     *)
RuntimeInv ==
  /\ runtime # 0 => /\ runtime = generation /\ generation \in DOMAIN tasks
                    /\ ~tasks[generation].aborted
  /\ \A g \in DOMAIN tasks : tasks[g].aborted \/ g = runtime
  /\ lifecycle # "free" => runtime = 0
  /\ publisher => runtime = 0
  /\ orphaned \/ \A g \in DOMAIN tasks :
                   g = runtime \/ \E c \in Appliers : CallerAt(c, "join") /\ g = generation - 1

(* What is active runs, unless its application was cut.                     *)
RunsActive ==
  lifecycle = "free" /\ ~cut /\ activeKey # NoKey =>
    /\ fallback = (activeKey.enabled /\ activeKey.fallback)
    /\ publisher = (activeKey.enabled /\ activeKey.url = NoHub)
    /\ (runtime # 0) = (activeKey.enabled /\ activeKey.url # NoHub)
    /\ runtime # 0 =>
         /\ tasks[runtime].config.url = activeKey.url
         /\ agentShown # NoHub /\ ~orphaned => agentShown = activeKey.url

(* From the reset on, what runs becomes what active_key asks for.           *)
KeyInv ==
  /\ \A c \in Appliers :
       /\ caller[c].at \in {"reset", "announce"} => activeKey = caller[c].want /\ ~publisher
       /\ CallerAt(c, "announce") =>
            /\ fallback = caller[c].want.fallback
            /\ caller[c].want.enabled /\ caller[c].want.url # NoHub
            /\ caller[c].config \in Configs /\ caller[c].config.url = caller[c].want.url
       /\ Holding(c) => generation > 0
  /\ RunsActive

(* The settings are applied, or one caller is about to apply them, or a     *)
(* command sleeps that will set them once more.                             *)
ApplyInv ==
  \/ unapplied
  \/ \E c \in Appliers : Scheduled(c)
  \/ activeKey = hub /\ \A c \in Appliers : ~Applying(c)
  \/ \E c \in Appliers : /\ Applying(c) /\ caller[c].want = hub
                         /\ \A d \in Appliers \ {c} : ~Applying(d)

HubInv == HubTypeOK /\ CallerInv /\ SecretsInv /\ RuntimeInv /\ KeyInv /\ ApplyInv

LEMMA HubTypeParts ==
  HubTypeOK <=> SettingsOK /\ CallersOK /\ LocksOK /\ CountsOK /\ SignsOK /\ TasksOK
<1>1. {fallback, publisher, cut, unapplied, orphaned} \subseteq BOOLEAN <=> SignsOK
  BY Zenon DEF SignsOK
<1>2. {provisioning, lifecycle} \subseteq Appliers \cup {"free"} <=> LocksOK
  BY DEF LocksOK
<1>3. {generation, runtime} \subseteq Nat /\ saves \in 0..MaxSaves <=> CountsOK
  BY DEF CountsOK
<1> QED
  BY <1>1, <1>2, <1>3, Zenon
     DEF HubTypeOK, SettingsOK, CallersOK, CallerType, TasksOK, TaskType

LEMMA HubTypePartsNext ==
  ASSUME SettingsOK', CallersOK', LocksOK', CountsOK', SignsOK', TasksOK'
  PROVE  HubTypeOK'
BY HubTypeParts, PTL

LEMMA HubParts ==
  ASSUME HubInv
  PROVE  /\ SettingsOK /\ CallersOK /\ LocksOK /\ CountsOK /\ SignsOK /\ TasksOK
         /\ CallerInv /\ SecretsInv /\ RuntimeInv /\ KeyInv /\ ApplyInv
BY HubTypeParts DEF HubInv

LEMMA IdleCallerIs ==
  /\ IdleCaller \in CallerType
  /\ IdleCaller.at = "idle" /\ IdleCaller.token = NoHub /\ IdleCaller.ask = "save"
  /\ IdleCaller.want = NoKey
BY DEF IdleCaller, CallerType

LEMMA NoConfigIs == NoConfig \notin Configs /\ NoConfig.url = NoHub
BY HubAssumption DEF NoConfig, Configs

LEMMA HubInvAtInit == HubInit => HubInv
<1> SUFFICES ASSUME HubInit PROVE HubInv
  OBVIOUS
<1> USE DEF HubInit
<1>1. hub \in HubSettings /\ "start" \in Appliers
  BY HubAssumption DEF Appliers
<1> DEFINE first == [IdleCaller EXCEPT !.at = "lock", !.want = hub]
<1>2. /\ first \in CallerType /\ first.at = "lock" /\ first.want = hub
      /\ first.token = NoHub /\ first.ask = "save"
  BY <1>1, IdleCallerIs DEF IdleCaller, CallerType
<1>3. caller = [c \in Appliers |-> IF c = "start" THEN first ELSE IdleCaller]
  OBVIOUS
<1> HIDE DEF first
<1>4. CallersOK
  BY <1>2, <1>3, IdleCallerIs DEF CallersOK
<1>5. \A c \in Appliers : caller[c] = IF c = "start" THEN first ELSE IdleCaller
  BY <1>3
<1>6. SettingsOK
  BY <1>1 DEF SettingsOK
<1>7. LocksOK /\ CountsOK
  BY HubAssumption DEF LocksOK, CountsOK
<1>8. SignsOK
  BY Zenon DEF SignsOK
<1>9. TasksOK
  BY DEF TasksOK
<1>10. HubTypeOK
  BY <1>4, <1>6, <1>7, <1>8, <1>9, HubTypeParts
<1>11. CallerInv
  BY <1>1, <1>2, <1>5, IdleCallerIs, HubAssumption
     DEF CallerInv, Applying, CallerAt, Holding, Appliers
<1>12. SecretsInv
  <2>1. OfItsHub(saved)
    BY NoConfigIs DEF OfItsHub
  <2>2. DOMAIN tasks = {}
    OBVIOUS
  <2> QED BY <1>2, <1>5, <2>1, <2>2, IdleCallerIs DEF SecretsInv, Applying, CallerAt
<1>13. RuntimeInv
  <2>1. DOMAIN tasks = {} /\ runtime = 0
    OBVIOUS
  <2> QED BY <2>1 DEF RuntimeInv
<1>14. KeyInv
  BY <1>2, <1>5, IdleCallerIs DEF KeyInv, RunsActive, CallerAt, Holding
<1>15. ApplyInv
  BY <1>1, <1>2, <1>5, IdleCallerIs DEF ApplyInv, Applying
<1> QED BY <1>10, <1>11, <1>12, <1>13, <1>14, <1>15 DEF HubInv
(* A caller's record changes.                                               *)
LEMMA SetCaller ==
  ASSUME CallersOK, NEW c \in Appliers, NEW rec \in CallerType,
         caller' = [caller EXCEPT ![c] = rec]
  PROVE  /\ CallersOK'
         /\ caller'[c] = rec
         /\ \A d \in Appliers \ {c} : caller'[d] = caller[d]
BY DEF CallersOK

LEMMA PayStep ==
  ASSUME CountsOK, Pay \/ UNCHANGED saves
  PROVE  saves' \in 0..MaxSaves
BY HubAssumption DEF Pay, CountsOK

(* A request that does not hold the lock of apply_config.                   *)
LEMMA RequestStep ==
  ASSUME HubInv, NEW c \in Appliers, NEW rec \in CallerType,
         caller' = [caller EXCEPT ![c] = rec],
         caller[c].at \in {"idle", "order", "queue", "lock", "forget"},
         rec.at \in {"idle", "order", "queue", "lock", "forget"},
         rec.at = "lock" => rec.want \in HubSettings /\ rec.token \in {rec.want.url, NoHub},
         rec.at = "idle" => rec = IdleCaller,
         rec.ask \in Unbinding => rec.token = NoHub,
         rec.at = "order" => rec.ask = "command",
         hub' \in HubSettings, agentShown' \in {agentShown, NoHub},
         provisioning' \in Appliers \cup {"free"}, unapplied' \in BOOLEAN,
         saves' \in 0..MaxSaves,
         cut' \in BOOLEAN, cut => cut',
         UNCHANGED <<lifecycle, running, tasks, saved, orphaned>>,
         ApplyInv'
  PROVE  HubInv'
<1>1. /\ CallersOK' /\ caller'[c] = rec
      /\ \A d \in Appliers \ {c} : caller'[d] = caller[d]
  BY HubParts, SetCaller
<1>2. UNCHANGED <<activeKey, generation, runtime, fallback, publisher>>
  BY DEF running
<1>3. SettingsOK' /\ LocksOK' /\ CountsOK' /\ SignsOK' /\ TasksOK'
  BY <1>2, HubParts DEF SettingsOK, LocksOK, CountsOK, SignsOK, TasksOK
<1>4. HubTypeOK'
  BY <1>1, <1>3, HubTypePartsNext
<1>5. CallerInv'
  BY <1>1, HubParts DEF CallerInv, Applying, CallerAt, Holding
<1>6. SecretsInv'
  BY <1>1, HubParts DEF SecretsInv, Applying, CallerAt, OfItsHub
<1>7. \A d \in Appliers : /\ Holding(d)' <=> Holding(d)
                          /\ Holding(d) => caller'[d] = caller[d]
  BY <1>1 DEF Holding
<1>8. RuntimeInv'
  BY <1>1, <1>2, <1>7, HubParts DEF RuntimeInv, CallerAt, Holding
<1>9. KeyInv'
  <2>1. \A d \in Appliers :
          /\ caller'[d].at \in {"reset", "announce"} => activeKey' = caller'[d].want /\ ~publisher'
          /\ caller'[d].at = "announce" =>
               /\ fallback' = caller'[d].want.fallback
               /\ caller'[d].want.enabled /\ caller'[d].want.url # NoHub
               /\ caller'[d].config \in Configs /\ caller'[d].config.url = caller'[d].want.url
          /\ Holding(d)' => generation' > 0
    BY <1>1, <1>2, <1>7, HubParts DEF KeyInv, CallerAt, Holding
  <2>2. RunsActive'
    BY <1>2, HubParts DEF KeyInv, RunsActive
  <2> QED BY <2>1, <2>2, Zenon DEF KeyInv, CallerAt
<1> QED BY <1>4, <1>5, <1>6, <1>8, <1>9 DEF HubInv

(* The settings are set: one is about to apply them, or they are not.       *)
LEMMA SetsStep ==
  ASSUME HubInv, NEW c \in Appliers, NEW s \in HubSettings, Sets(c, s),
         caller[c].at \in {"idle", "queue"},
         caller[c].token \in {s.url, NoHub},
         provisioning' \in Appliers \cup {"free"},
         saves' \in 0..MaxSaves,
         UNCHANGED <<lifecycle, running, tasks, saved, agentShown, cut, orphaned>>
  PROVE  HubInv'
<1>0. CallersOK /\ SignsOK /\ CallerInv
  BY HubParts
<1>1. hub' = s
  BY DEF Sets
<1>2. CASE caller' = [caller EXCEPT ![c] = IdleCaller] /\ unapplied' = TRUE
  <2>1. ApplyInv'
    BY <1>2 DEF ApplyInv
  <2> QED BY <1>0, <1>1, <1>2, <2>1, IdleCallerIs, RequestStep DEF SignsOK
<1>3. CASE /\ caller' = [caller EXCEPT ![c].at = "lock", ![c].want = s]
           /\ unapplied' = (\E d \in Appliers \ {c} : Applying(d))
  <2> DEFINE rec == [caller[c] EXCEPT !.at = "lock", !.want = s]
  <2>1. caller[c] \in CallerType
    BY <1>0 DEF CallersOK
  <2>2. /\ rec \in CallerType /\ rec.at = "lock" /\ rec.want = s
        /\ rec.token = caller[c].token /\ rec.ask = caller[c].ask
    BY <2>1 DEF CallerType
  <2>3. caller' = [caller EXCEPT ![c] = rec]
    BY <1>3
  <2> HIDE DEF rec
  <2>4. caller'[c] = rec /\ \A d \in Appliers \ {c} : caller'[d] = caller[d]
    BY <1>0, <2>2, <2>3, SetCaller
  <2>5. unapplied' \in BOOLEAN
    BY <1>3, Zenon
  <2>6. ApplyInv'
    <3>1. CASE unapplied'
      BY <3>1 DEF ApplyInv
    <3>2. CASE ~unapplied'
      <4>1. \A d \in Appliers \ {c} : ~Applying(d)
        BY <1>3, <3>2
      <4>2. \A d \in Appliers \ {c} : ~Applying(d)'
        BY <2>4, <4>1 DEF Applying
      <4>3. Applying(c)' /\ caller'[c].want = hub'
        BY <1>1, <2>2, <2>4 DEF Applying
      <4> QED BY <4>2, <4>3 DEF ApplyInv
    <3> QED BY <3>1, <3>2
  <2>7. rec.ask \in Unbinding => rec.token = NoHub
    BY <1>0, <2>2 DEF CallerInv
  <2> QED BY <1>0, <1>1, <2>2, <2>3, <2>5, <2>6, <2>7, RequestStep DEF SignsOK
<1> QED BY <1>2, <1>3 DEF Sets

(* Who applies is not changed.                                              *)
LEMMA KeepsApply ==
  ASSUME ApplyInv, \A d \in Appliers : Applying(d)' <=> Applying(d),
         \A d \in Appliers : Applying(d) => caller'[d].want = caller[d].want,
         \A d \in Appliers : Scheduled(d) => Scheduled(d)',
         UNCHANGED <<hub, activeKey, unapplied>>
  PROVE  ApplyInv'
BY DEF ApplyInv
LEMMA SaveSettingsStep ==
  ASSUME HubInv, NEW c \in Appliers, NEW s \in Offered, SaveSettings(c, s)
  PROVE  HubInv'
<1>1. caller[c] = IdleCaller
  BY HubParts DEF SaveSettings, CallerInv
<1>2. /\ saves' \in 0..MaxSaves /\ provisioning' \in Appliers \cup {"free"}
      /\ UNCHANGED <<lifecycle, running, tasks, saved, agentShown, cut, orphaned>>
  BY PayStep, HubParts DEF SaveSettings, LocksOK
<1>3. s \in HubSettings /\ Sets(c, s)
  BY HubAssumption DEF SaveSettings
<1> QED BY <1>1, <1>2, <1>3, IdleCallerIs, SetsStep

LEMMA AsksStep ==
  ASSUME HubInv, NEW c \in Appliers, NEW what \in {"provision", "unbind"},
         NEW h \in Hubs \cup {NoHub}, what = "unbind" => h = NoHub, Asks(c, what, h)
  PROVE  HubInv'
<1> DEFINE rec == [IdleCaller EXCEPT !.at = "queue", !.ask = what, !.token = h]
<1>1. rec \in CallerType /\ rec.at = "queue" /\ rec.ask = what /\ rec.token = h
  BY DEF IdleCaller, CallerType
<1>2. caller' = [caller EXCEPT ![c] = rec] /\ caller[c].at = "idle"
  BY DEF Asks, CallerAt
<1> HIDE DEF rec
<1>3. /\ UNCHANGED <<hub, provisioning, lifecycle, running, tasks, saved, agentShown, cut,
                     unapplied, orphaned>>
      /\ saves' \in 0..MaxSaves
  BY PayStep, HubParts DEF Asks
<1>4. ApplyInv'
  <2>1. caller'[c] = rec /\ \A d \in Appliers \ {c} : caller'[d] = caller[d]
    BY <1>1, <1>2, HubParts, SetCaller
  <2>2. UNCHANGED activeKey
    BY <1>3 DEF running
  <2> QED BY <1>1, <1>2, <1>3, <2>1, <2>2, HubParts, KeepsApply DEF Applying, Scheduled, CallerAt
<1>5. rec.ask \in Unbinding => rec.token = NoHub
  BY <1>1 DEF Unbinding
<1> QED BY <1>1, <1>2, <1>3, <1>4, <1>5, HubParts, RequestStep DEF SettingsOK, LocksOK, SignsOK

(* A command comes, and then it changes the settings by itself.             *)
LEMMA CommandsStep ==
  ASSUME HubInv, NEW c \in Appliers, Commands(c)
  PROVE  HubInv'
<1> DEFINE rec == [IdleCaller EXCEPT !.at = "order", !.ask = "command"]
<1>1. rec \in CallerType /\ rec.at = "order" /\ rec.ask = "command" /\ rec.token = NoHub
  BY DEF IdleCaller, CallerType
<1>2. caller' = [caller EXCEPT ![c] = rec] /\ caller[c].at = "idle"
  BY DEF Commands, CallerAt
<1> HIDE DEF rec
<1>3. /\ UNCHANGED <<hub, provisioning, lifecycle, running, tasks, saved, agentShown, cut,
                     unapplied, orphaned>>
      /\ saves' \in 0..MaxSaves
  BY PayStep, HubParts DEF Commands
<1>4. ApplyInv'
  <2>1. caller'[c] = rec /\ \A d \in Appliers \ {c} : caller'[d] = caller[d]
    BY <1>1, <1>2, HubParts, SetCaller
  <2>2. UNCHANGED activeKey
    BY <1>3 DEF running
  <2> QED BY <1>1, <1>2, <1>3, <2>1, <2>2, HubParts, KeepsApply DEF Applying, Scheduled, CallerAt
<1> QED BY <1>1, <1>2, <1>3, <1>4, HubParts, RequestStep DEF SettingsOK, LocksOK, SignsOK

LEMMA ObeysStep ==
  ASSUME HubInv, NEW c \in Appliers, Obeys(c)
  PROVE  HubInv'
<1>0. /\ CallersOK /\ SignsOK /\ CallerInv /\ SettingsOK /\ LocksOK /\ CountsOK
  BY HubParts
<1>1. /\ caller[c].at = "order" /\ caller[c].ask = "command" /\ caller[c].token = NoHub
      /\ caller[c] \in CallerType
  BY <1>0 DEF Obeys, CallerInv, CallerAt, Unbinding, CallersOK
<1>2. /\ UNCHANGED <<provisioning, lifecycle, running, tasks, saved, agentShown, cut, orphaned,
                     saves>>
      /\ hub' \in HubSettings
  BY <1>0 DEF Obeys, SettingsOK, HubSettings
<1>3. CASE caller' = [caller EXCEPT ![c] = IdleCaller] /\ unapplied' = TRUE
  <2>1. ApplyInv'
    BY <1>3 DEF ApplyInv
  <2> QED BY <1>0, <1>1, <1>2, <1>3, <2>1, IdleCallerIs, RequestStep
             DEF SignsOK, LocksOK, CountsOK
<1>4. CASE MoveTo(c, "queue") /\ UNCHANGED unapplied
  <2> DEFINE rec == [caller[c] EXCEPT !.at = "queue"]
  <2>1. /\ rec \in CallerType /\ rec.at = "queue" /\ rec.ask = "command" /\ rec.token = NoHub
    BY <1>1 DEF CallerType
  <2>2. caller' = [caller EXCEPT ![c] = rec]
    BY <1>4 DEF MoveTo
  <2> HIDE DEF rec
  <2>3. caller'[c] = rec
    BY <1>0, <2>1, <2>2, SetCaller
  <2>4. Scheduled(c)'
    BY <2>1, <2>3 DEF Scheduled, CallerAt
  <2>5. ApplyInv'
    BY <2>4 DEF ApplyInv
  <2> QED BY <1>0, <1>1, <1>2, <1>4, <2>1, <2>2, <2>5, RequestStep DEF SignsOK, LocksOK, CountsOK
<1> QED BY <1>3, <1>4 DEF Obeys

(* A request ends that is not about to apply anything, without a change of  *)
(* the settings.                                                            *)
LEMMA EndsStep ==
  ASSUME HubInv, NEW c \in Appliers, caller[c].at \in {"queue", "forget"}, ~Scheduled(c),
         caller' = [caller EXCEPT ![c] = IdleCaller],
         provisioning' \in Appliers \cup {"free"}, agentShown' \in {agentShown, NoHub},
         UNCHANGED <<hub, lifecycle, running, tasks, saved, cut, unapplied, orphaned, saves>>
  PROVE  HubInv'
<1>1. caller'[c] = IdleCaller /\ \A d \in Appliers \ {c} : caller'[d] = caller[d]
  BY IdleCallerIs, HubParts, SetCaller
<1>2. UNCHANGED activeKey
  BY DEF running
<1>3. ApplyInv'
  BY <1>1, <1>2, IdleCallerIs, HubParts, KeepsApply DEF Applying, Scheduled, CallerAt
<1> QED BY <1>3, IdleCallerIs, HubParts, RequestStep DEF SettingsOK, SignsOK, CountsOK, Unbinding

LEMMA ProvisionStep ==
  ASSUME HubInv, NEW c \in Appliers, Provision(c)
  PROVE  HubInv'
<1>1. caller[c].at = "queue" /\ ~Scheduled(c)
  BY DEF Provision, CallerAt, Scheduled
<1>2. provisioning' \in Appliers \cup {"free"} /\ saves' \in 0..MaxSaves
  BY HubParts DEF Provision, CountsOK
<1>3. UNCHANGED <<lifecycle, running, tasks, saved, agentShown, cut, orphaned, saves>>
  BY DEF Provision
<1>4. CASE Unbound
  <2> DEFINE s == [hub EXCEPT !.enabled = TRUE, !.url = caller[c].token]
  <2>1. s \in HubSettings /\ s.url = caller[c].token
    <3>1. hub \in HubSettings /\ caller[c] \in CallerType
      BY HubParts DEF SettingsOK, CallersOK
    <3> QED BY <3>1 DEF HubSettings, CallerType
  <2>2. Sets(c, s)
    BY <1>4 DEF Provision
  <2> QED BY <1>1, <1>2, <1>3, <2>1, <2>2, SetsStep
<1>5. CASE ~Unbound
  <2>1. caller' = [caller EXCEPT ![c] = IdleCaller] /\ UNCHANGED <<hub, unapplied>>
    BY <1>5 DEF Provision
  <2> QED BY <1>1, <1>2, <1>3, <2>1, EndsStep
<1> QED BY <1>4, <1>5

LEMMA UnbindStep ==
  ASSUME HubInv, NEW c \in Appliers, Unbind(c)
  PROVE  HubInv'
<1> DEFINE s == [hub EXCEPT !.enabled = TRUE, !.url = NoHub]
<1>1. caller[c].at = "queue" /\ caller[c].ask \in Unbinding /\ Sets(c, s)
  BY DEF Unbind, CallerAt
<1>2. provisioning' \in Appliers \cup {"free"} /\ saves' \in 0..MaxSaves
  BY HubParts DEF Unbind, CountsOK
<1>3. UNCHANGED <<lifecycle, running, tasks, saved, agentShown, cut, orphaned>>
  BY DEF Unbind
<1>4. s \in HubSettings
  BY HubParts DEF SettingsOK, HubSettings
<1>5. caller[c].token = NoHub
  BY <1>1, HubParts DEF CallerInv
<1> QED BY <1>1, <1>2, <1>3, <1>4, <1>5, SetsStep

LEMMA ForgetStep ==
  ASSUME HubInv, NEW c \in Appliers, Forget(c)
  PROVE  HubInv'
BY EndsStep DEF Forget, CallerAt, Scheduled

(* A request that is dropped.  Past the lock, it leaves what it has begun.  *)
LEMMA DroppedStep ==
  ASSUME HubInv, NEW c \in Appliers, Dropped(c)
  PROVE  HubInv'
<1> USE DEF Dropped
<1>0. /\ CallersOK /\ SignsOK /\ CallerInv /\ SecretsInv /\ RuntimeInv /\ KeyInv /\ ApplyInv
      /\ SettingsOK /\ LocksOK /\ CountsOK /\ TasksOK
  BY HubParts
<1>1. /\ caller' = [caller EXCEPT ![c] = IdleCaller] /\ caller[c].at # "idle" /\ ~Scheduled(c)
      /\ provisioning' \in Appliers \cup {"free"} /\ saves' \in 0..MaxSaves
  BY <1>0, PayStep DEF CallerAt, LocksOK, Scheduled
<1>2. /\ cut' = (cut \/ lifecycle = c) /\ unapplied' = (unapplied \/ Applying(c))
      /\ orphaned' = (orphaned \/ CallerAt(c, "join"))
      /\ UNCHANGED <<hub, running, tasks, saved, agentShown>>
  OBVIOUS
<1>3. cut' \in BOOLEAN /\ unapplied' \in BOOLEAN /\ orphaned' \in BOOLEAN
  BY <1>2, Zenon
<1>4. caller'[c] = IdleCaller /\ \A d \in Appliers \ {c} : caller'[d] = caller[d]
  BY <1>0, <1>1, IdleCallerIs, SetCaller
<1>5. UNCHANGED <<activeKey, generation, runtime, fallback, publisher>>
  BY <1>2 DEF running
<1>6. ApplyInv'
  <2>1. CASE Applying(c)
    BY <1>2, <2>1 DEF ApplyInv
  <2>2. CASE ~Applying(c)
    <3>1. unapplied' = unapplied
      BY <1>0, <1>2, <2>2, Zenon DEF SignsOK
    <3> QED BY <1>0, <1>1, <1>2, <1>4, <1>5, <2>2, <3>1, IdleCallerIs, KeepsApply
               DEF Applying, Scheduled, CallerAt
  <2> QED BY <2>1, <2>2
<1>7. CASE ~Holding(c)
  <2>1. lifecycle # c /\ ~CallerAt(c, "join")
    BY <1>0, <1>7 DEF CallerInv, Holding, CallerAt
  <2>2. cut' = cut /\ orphaned' = orphaned
    BY <1>0, <1>2, <2>1, Zenon DEF SignsOK
  <2>3. caller[c].at \in {"idle", "order", "queue", "lock", "forget"}
    BY <1>0, <1>7 DEF CallersOK, CallerType, Holding
  <2>4. UNCHANGED lifecycle
    BY <2>1
  <2> QED BY <1>0, <1>1, <1>2, <1>3, <1>6, <2>2, <2>3, <2>4, IdleCallerIs, RequestStep
             DEF SettingsOK, SignsOK
<1>8. CASE Holding(c)
  <2>1. lifecycle = c /\ lifecycle' = "free" /\ \A d \in Appliers \ {c} : ~Holding(d)
    BY <1>0, <1>8 DEF CallerInv
  <2>2. cut'
    BY <1>2, <2>1
  <2>3. c # "free" /\ "free" \notin Appliers
    BY HubAssumption DEF Appliers
  <2>4. \A d \in Appliers : ~Holding(d)'
    BY <1>4, <2>1, IdleCallerIs DEF Holding
  <2>5. HubTypeOK'
    <3>1. CallersOK'
      BY <1>0, <1>1, IdleCallerIs, SetCaller
    <3>2. SettingsOK' /\ LocksOK' /\ CountsOK' /\ SignsOK' /\ TasksOK'
      BY <1>0, <1>1, <1>2, <1>3, <1>5, <2>1
         DEF SettingsOK, LocksOK, CountsOK, SignsOK, TasksOK
    <3> QED BY <3>1, <3>2, HubTypePartsNext
  <2>6. CallerInv'
    BY <1>0, <1>4, <2>1, <2>3, <2>4, IdleCallerIs DEF CallerInv, Applying, CallerAt
  <2>7. SecretsInv'
    BY <1>0, <1>2, <1>4, IdleCallerIs DEF SecretsInv, Applying, CallerAt, OfItsHub
  <2>8. RuntimeInv'
    <3>1. runtime = 0
      BY <1>0, <2>1, <2>3 DEF RuntimeInv
    <3>2. orphaned' \/ \A g \in DOMAIN tasks : g = runtime
      <4>1. CASE CallerAt(c, "join")
        BY <1>2, <4>1
      <4>2. CASE ~CallerAt(c, "join")
        <5>1. \A d \in Appliers : ~CallerAt(d, "join")
          BY <2>1, <4>2 DEF CallerAt, Holding
        <5> QED BY <1>0, <1>2, <5>1 DEF RuntimeInv
      <4> QED BY <4>1, <4>2
    <3> QED BY <1>0, <1>2, <1>5, <2>1, <3>1, <3>2 DEF RuntimeInv
  <2>9. KeyInv'
    BY <2>2, <2>4 DEF KeyInv, RunsActive, CallerAt, Holding
  <2> QED BY <1>6, <2>5, <2>6, <2>7, <2>8, <2>9 DEF HubInv
<1> QED BY <1>7, <1>8
(* apply_config.  One that has the lock goes on, with what it is to apply.  *)
LEMMA LockedStep ==
  ASSUME HubInv, NEW c \in Appliers, NEW rec \in CallerType,
         caller' = [caller EXCEPT ![c] = rec],
         Applying(c), lifecycle \in {"free", c}, lifecycle' = c,
         rec.at \in {"join", "ends", "reset", "announce"},
         rec.want = caller[c].want, rec.token = caller[c].token, rec.ask = caller[c].ask,
         UNCHANGED <<hub, unapplied>>
  PROVE  /\ CallersOK' /\ CallerInv' /\ ApplyInv'
         /\ caller'[c] = rec
         /\ \A d \in Appliers \ {c} : caller'[d] = caller[d] /\ ~Holding(d) /\ ~Holding(d)'
         /\ \A d \in Appliers : /\ Applying(d)' <=> Applying(d)
                                /\ caller'[d].token = caller[d].token
                                /\ caller'[d].want = caller[d].want
         /\ c # "free"
<1>1. /\ CallersOK' /\ caller'[c] = rec
      /\ \A d \in Appliers \ {c} : caller'[d] = caller[d]
  BY HubParts, SetCaller
<1>2. CallerInv /\ ApplyInv
  BY HubParts
<1>3. "free" \notin Appliers
  BY HubAssumption DEF Appliers
<1>4. \A d \in Appliers \ {c} : ~Holding(d) /\ ~Holding(d)'
  BY <1>1, <1>2, <1>3 DEF CallerInv, Holding
<1>5. \A d \in Appliers : /\ Applying(d)' <=> Applying(d)
                          /\ caller'[d].token = caller[d].token
                          /\ caller'[d].want = caller[d].want
  BY <1>1 DEF Applying
<1>6. CallerInv'
  BY <1>1, <1>2, <1>4 DEF CallerInv, Applying, CallerAt, Holding
<1>7. ApplyInv'
  <2>1. CASE unapplied
    BY <2>1 DEF ApplyInv
  <2>2. CASE \E b \in Appliers : /\ Applying(b) /\ caller[b].want = hub
                                 /\ \A d \in Appliers \ {b} : ~Applying(d)
    BY <1>5, <2>2 DEF ApplyInv
  <2>3. CASE \E d \in Appliers : Scheduled(d)
    <3>1. ~Scheduled(c)
      BY DEF Scheduled, CallerAt, Applying
    <3> QED BY <1>1, <2>3, <3>1 DEF ApplyInv, Scheduled, CallerAt
  <2>4. CASE activeKey = hub /\ \A d \in Appliers : ~Applying(d)
    BY <2>4
  <2> QED BY <1>2, <2>1, <2>2, <2>3, <2>4 DEF ApplyInv
<1> QED BY <1>1, <1>3, <1>4, <1>5, <1>6, <1>7

(* It returns: what it was to apply is active.                              *)
LEMMA ReturnsStep ==
  ASSUME HubInv, NEW c \in Appliers, Returns(c), Applying(c), lifecycle \in {"free", c},
         activeKey' = caller[c].want,
         UNCHANGED <<hub, unapplied>>
  PROVE  /\ CallersOK' /\ LocksOK' /\ CallerInv' /\ ApplyInv'
         /\ lifecycle' = "free" /\ \A d \in Appliers : ~Holding(d)'
         /\ caller'[c].at \in {"idle", "forget"}
         /\ \A d \in Appliers \ {c} : caller'[d] = caller[d]
<1> DEFINE rec == IF caller[c].ask \in Unbinding
                  THEN [caller[c] EXCEPT !.at = "forget"]
                  ELSE IdleCaller
<1>0. CallersOK /\ LocksOK /\ CallerInv /\ ApplyInv
  BY HubParts
<1>1. caller' = [caller EXCEPT ![c] = rec]
  BY DEF Returns
<1>2. /\ rec \in CallerType /\ rec.at \in {"idle", "forget"}
      /\ rec.at = "idle" => rec = IdleCaller
      /\ rec.ask \in Unbinding => rec.token = NoHub
  <2>1. caller[c] \in CallerType /\ (caller[c].ask \in Unbinding => caller[c].token = NoHub)
    BY <1>0 DEF CallersOK, CallerInv
  <2>2. CASE caller[c].ask \in Unbinding
    BY <2>1, <2>2 DEF CallerType
  <2>3. CASE caller[c].ask \notin Unbinding
    BY <2>3, IdleCallerIs DEF Unbinding
  <2> QED BY <2>2, <2>3
<1> HIDE DEF rec
<1>3. CallersOK' /\ caller'[c] = rec /\ \A d \in Appliers \ {c} : caller'[d] = caller[d]
  BY <1>0, <1>1, <1>2, SetCaller
<1>4. LocksOK' /\ lifecycle' = "free"
  BY <1>0 DEF Returns, LocksOK
<1>5. "free" \notin Appliers
  BY HubAssumption DEF Appliers
<1>6. \A d \in Appliers : ~Holding(d)'
  BY <1>0, <1>2, <1>3, <1>5 DEF CallerInv, Holding
<1>7. CallerInv'
  BY <1>0, <1>2, <1>3, <1>4, <1>5, <1>6 DEF CallerInv, Applying, CallerAt
<1>8. ApplyInv'
  <2>1. CASE unapplied
    BY <2>1 DEF ApplyInv
  <2>2. CASE \E b \in Appliers : /\ Applying(b) /\ caller[b].want = hub
                                 /\ \A d \in Appliers \ {b} : ~Applying(d)
    <3>1. caller[c].want = hub /\ \A d \in Appliers \ {c} : ~Applying(d)
      BY <2>2
    <3>2. \A d \in Appliers : ~Applying(d)'
      BY <1>2, <1>3, <3>1 DEF Applying
    <3> QED BY <3>1, <3>2 DEF ApplyInv
  <2>3. CASE \E d \in Appliers : Scheduled(d)
    <3>1. ~Scheduled(c)
      BY DEF Scheduled, CallerAt, Applying
    <3> QED BY <1>3, <2>3, <3>1 DEF ApplyInv, Scheduled, CallerAt
  <2>4. CASE activeKey = hub /\ \A d \in Appliers : ~Applying(d)
    BY <2>4
  <2> QED BY <1>0, <2>1, <2>2, <2>3, <2>4 DEF ApplyInv
<1> QED BY <1>2, <1>3, <1>4, <1>6, <1>7, <1>8

(* With the lock, there is no runtime, and only what another one left.      *)
LEMMA HolderSees ==
  ASSUME HubInv, NEW c \in Appliers, Holding(c)
  PROVE  /\ lifecycle = c /\ c # "free" /\ runtime = 0 /\ generation > 0
         /\ \A g \in DOMAIN tasks : tasks[g].aborted
         /\ orphaned \/ \A g \in DOMAIN tasks : CallerAt(c, "join") /\ g = generation - 1
<1>1. /\ CallerInv /\ RuntimeInv /\ KeyInv /\ TasksOK /\ CountsOK
  BY HubParts
<1>2. lifecycle = c /\ c # "free" /\ \A d \in Appliers \ {c} : ~Holding(d)
  BY <1>1, HubAssumption DEF CallerInv, Appliers
<1>3. runtime = 0 /\ generation > 0
  BY <1>1, <1>2 DEF RuntimeInv, KeyInv
<1>4. \A g \in DOMAIN tasks : g # 0
  BY <1>1 DEF TasksOK, CountsOK
<1>5. \A d \in Appliers : CallerAt(d, "join") => d = c
  BY <1>2 DEF CallerAt, Holding
<1>6. \A g \in DOMAIN tasks : tasks[g].aborted
  BY <1>1, <1>3, <1>4 DEF RuntimeInv
<1>7. orphaned \/ \A g \in DOMAIN tasks : CallerAt(c, "join") /\ g = generation - 1
  BY <1>1, <1>3, <1>4, <1>5 DEF RuntimeInv
<1> QED BY <1>2, <1>3, <1>6, <1>7

LEMMA EnterStep ==
  ASSUME HubInv, NEW c \in Appliers, Enter(c)
  PROVE  HubInv'
<1>0. /\ CallersOK /\ SignsOK /\ CallerInv /\ SecretsInv /\ RuntimeInv /\ KeyInv /\ ApplyInv
      /\ SettingsOK /\ LocksOK /\ CountsOK /\ TasksOK
  BY HubParts
<1>1. /\ caller[c].at = "lock" /\ Applying(c) /\ lifecycle = "free" /\ ~Holding(c)
      /\ UNCHANGED <<hub, saved, agentShown, cut, unapplied, orphaned, saves>>
      /\ caller[c] \in CallerType
  BY <1>0 DEF Enter, CallerAt, Applying, Holding, CallersOK
<1>2. "free" \notin Appliers
  BY HubAssumption DEF Appliers
<1>3. \A d \in Appliers : ~Holding(d)
  BY <1>0, <1>1, <1>2 DEF CallerInv
<1>4. \A g \in DOMAIN tasks : g \in 1..generation /\ tasks[g] \in TaskType
  BY <1>0 DEF TasksOK
<1>5. CASE Same(c)
  <2>1. /\ Returns(c) /\ activeKey = caller[c].want
        /\ UNCHANGED <<activeKey, generation, runtime, fallback, publisher, tasks>>
    BY <1>5 DEF Enter, Same, running
  <2>2. /\ CallersOK' /\ LocksOK' /\ CallerInv' /\ ApplyInv'
        /\ lifecycle' = "free" /\ \A d \in Appliers : ~Holding(d)'
        /\ caller'[c].at \in {"idle", "forget"}
        /\ \A d \in Appliers \ {c} : caller'[d] = caller[d]
    BY <1>1, <2>1, ReturnsStep
  <2>3. HubTypeOK'
    <3>1. SettingsOK' /\ CountsOK' /\ SignsOK' /\ TasksOK'
      BY <1>0, <1>1, <2>1 DEF SettingsOK, CountsOK, SignsOK, TasksOK
    <3> QED BY <2>2, <3>1, HubTypePartsNext
  <2>4. SecretsInv'
    BY <1>0, <1>1, <2>1, <2>2 DEF SecretsInv, Applying, CallerAt, OfItsHub
  <2>5. RuntimeInv'
    BY <1>0, <1>1, <1>3, <2>1, <2>2 DEF RuntimeInv, CallerAt, Holding
  <2>6. KeyInv'
    <3>1. \A d \in Appliers :
            ~Holding(d)' /\ caller'[d].at \notin {"reset", "announce"} /\ ~CallerAt(d, "announce")'
      BY <2>2 DEF Holding, CallerAt
    <3>2. RunsActive'
      BY <1>0, <1>1, <2>1 DEF KeyInv, RunsActive
    <3> QED BY <3>1, <3>2, Zenon DEF KeyInv
  <2> QED BY <2>2, <2>3, <2>4, <2>5, <2>6 DEF HubInv
<1>6. CASE ~Same(c)
  <2>1. /\ lifecycle' = c /\ generation' = generation + 1 /\ runtime' = 0
        /\ UNCHANGED <<provisioning, activeKey, fallback, publisher>>
        /\ IF runtime = 0
           THEN tasks' = tasks /\ MoveTo(c, "ends")
           ELSE tasks' = [tasks EXCEPT ![runtime].aborted = TRUE] /\ MoveTo(c, "join")
    BY <1>6 DEF Enter
  <2> DEFINE where == IF runtime = 0 THEN "ends" ELSE "join"
             rec == [caller[c] EXCEPT !.at = where]
  <2>2. /\ rec \in CallerType /\ rec.at = where /\ rec.want = caller[c].want
        /\ rec.token = caller[c].token /\ rec.ask = caller[c].ask
    BY <1>1 DEF CallerType
  <2>3. caller' = [caller EXCEPT ![c] = rec]
    BY <2>1 DEF MoveTo
  <2> HIDE DEF rec
  <2>4. /\ CallersOK' /\ CallerInv' /\ ApplyInv'
        /\ caller'[c] = rec
        /\ \A d \in Appliers \ {c} : caller'[d] = caller[d] /\ ~Holding(d) /\ ~Holding(d)'
        /\ \A d \in Appliers : /\ Applying(d)' <=> Applying(d)
                               /\ caller'[d].token = caller[d].token
                               /\ caller'[d].want = caller[d].want
        /\ c # "free"
    BY <1>1, <2>1, <2>2, <2>3, LockedStep
  <2>5. /\ DOMAIN tasks' = DOMAIN tasks
        /\ \A g \in DOMAIN tasks : /\ tasks'[g] \in TaskType /\ tasks'[g].aborted
                                   /\ tasks'[g].config = tasks[g].config
    <3>1. CASE runtime = 0
      BY <1>0, <1>4, <2>1, <3>1 DEF RuntimeInv, CountsOK
    <3>2. CASE runtime # 0
      <4>1. tasks' = [tasks EXCEPT ![runtime].aborted = TRUE]
        BY <2>1, <3>2
      <4>2. \A g \in DOMAIN tasks : g # runtime => tasks'[g] = tasks[g] /\ tasks[g].aborted
        BY <1>0, <4>1 DEF RuntimeInv
      <4>3. \A g \in DOMAIN tasks :
              /\ [tasks[g] EXCEPT !.aborted = TRUE] \in TaskType
              /\ [tasks[g] EXCEPT !.aborted = TRUE].aborted
              /\ [tasks[g] EXCEPT !.aborted = TRUE].config = tasks[g].config
        BY <1>4 DEF TaskType
      <4>4. \A g \in DOMAIN tasks : g = runtime =>
              tasks'[g] = [tasks[g] EXCEPT !.aborted = TRUE]
        BY <4>1
      <4>5. DOMAIN tasks' = DOMAIN tasks
        BY <4>1
      <4> QED BY <1>4, <4>2, <4>3, <4>4, <4>5
    <3> QED BY <3>1, <3>2
  <2>6. HubTypeOK'
    <3>1. SettingsOK' /\ LocksOK' /\ CountsOK' /\ SignsOK'
      BY <1>0, <1>1, <2>1 DEF SettingsOK, LocksOK, CountsOK, SignsOK
    <3>2. TasksOK'
      BY <1>0, <1>4, <2>1, <2>5 DEF TasksOK, CountsOK
    <3> QED BY <2>4, <3>1, <3>2, HubTypePartsNext
  <2>7. SecretsInv'
    <3>1. OfItsHub(saved)' /\ \A g \in DOMAIN tasks' : OfItsHub(tasks'[g].config)
      BY <1>0, <1>1, <2>5 DEF SecretsInv, OfItsHub
    <3> QED BY <1>0, <2>2, <2>4, <3>1 DEF SecretsInv, Applying, CallerAt, OfItsHub
  <2>8. RuntimeInv'
    <3>1. orphaned \/ \A g \in DOMAIN tasks : g = runtime
      BY <1>0, <1>3 DEF RuntimeInv, CallerAt, Holding
    <3>2. orphaned \/ \A g \in DOMAIN tasks : CallerAt(c, "join")' /\ g = generation' - 1
      <4>1. CASE runtime = 0
        BY <1>0, <1>4, <3>1, <4>1 DEF CountsOK
      <4>2. CASE runtime # 0
        BY <1>0, <2>1, <2>2, <2>4, <3>1, <4>2 DEF RuntimeInv, CountsOK, CallerAt
      <4> QED BY <4>1, <4>2
    <3> QED BY <1>1, <2>1, <2>5, <3>2 DEF RuntimeInv
  <2>9. KeyInv'
    BY <1>0, <2>1, <2>2, <2>4 DEF KeyInv, RunsActive, CallerAt, Holding, CountsOK
  <2> QED BY <2>4, <2>6, <2>7, <2>8, <2>9 DEF HubInv
<1> QED BY <1>5, <1>6
LEMMA JoinedStep ==
  ASSUME HubInv, NEW c \in Appliers, Joined(c)
  PROVE  HubInv'
<1>0. /\ CallersOK /\ SignsOK /\ CallerInv /\ SecretsInv /\ RuntimeInv /\ KeyInv
      /\ SettingsOK /\ LocksOK /\ CountsOK /\ TasksOK
  BY HubParts
<1>1. /\ caller[c].at = "join" /\ Holding(c) /\ Applying(c) /\ generation - 1 \notin DOMAIN tasks
      /\ UNCHANGED <<hub, provisioning, lifecycle, tasks, saved, agentShown, cut, unapplied,
                     orphaned, saves>>
      /\ UNCHANGED <<activeKey, generation, runtime, fallback, publisher>>
      /\ caller[c] \in CallerType
  BY <1>0 DEF Joined, CallerAt, Holding, Applying, CallersOK, running
<1>2. /\ lifecycle = c /\ runtime = 0 /\ generation > 0
      /\ \A g \in DOMAIN tasks : tasks[g].aborted
      /\ orphaned \/ DOMAIN tasks = {}
  BY <1>1, HolderSees
<1> DEFINE rec == [caller[c] EXCEPT !.at = "ends"]
<1>3. /\ rec \in CallerType /\ rec.at = "ends" /\ rec.want = caller[c].want
      /\ rec.token = caller[c].token /\ rec.ask = caller[c].ask
  BY <1>1 DEF CallerType
<1>4. caller' = [caller EXCEPT ![c] = rec]
  BY DEF Joined, MoveTo
<1> HIDE DEF rec
<1>5. /\ CallersOK' /\ CallerInv' /\ ApplyInv' /\ caller'[c] = rec
      /\ \A d \in Appliers \ {c} : caller'[d] = caller[d] /\ ~Holding(d) /\ ~Holding(d)'
      /\ \A d \in Appliers : /\ Applying(d)' <=> Applying(d)
                             /\ caller'[d].token = caller[d].token
                             /\ caller'[d].want = caller[d].want
      /\ c # "free"
  BY <1>1, <1>2, <1>3, <1>4, LockedStep
<1>6. HubTypeOK'
  <2>1. SettingsOK' /\ LocksOK' /\ CountsOK' /\ SignsOK' /\ TasksOK'
    BY <1>0, <1>1 DEF SettingsOK, LocksOK, CountsOK, SignsOK, TasksOK
  <2> QED BY <1>5, <2>1, HubTypePartsNext
<1>7. SecretsInv'
  BY <1>0, <1>1, <1>3, <1>5 DEF SecretsInv, CallerAt, OfItsHub
<1>8. RuntimeInv'
  BY <1>0, <1>1, <1>2 DEF RuntimeInv
<1>9. KeyInv'
  BY <1>0, <1>1, <1>2, <1>3, <1>5 DEF KeyInv, RunsActive, CallerAt, Holding
<1> QED BY <1>5, <1>6, <1>7, <1>8, <1>9 DEF HubInv

(* The fallback task is stopped, then the publisher; nothing runs.          *)
LEMMA StopFallbackStep ==
  ASSUME HubInv, NEW c \in Appliers, StopFallback(c)
  PROVE  HubInv'
<1>0. /\ CallersOK /\ SignsOK /\ CallerInv /\ SecretsInv /\ RuntimeInv /\ KeyInv /\ ApplyInv
      /\ SettingsOK /\ LocksOK /\ CountsOK /\ TasksOK
  BY HubParts
<1>1. /\ caller[c].at = "ends" /\ Holding(c) /\ Applying(c) /\ fallback' = FALSE
      /\ UNCHANGED <<hub, provisioning, lifecycle, tasks, saved, agentShown, cut, unapplied,
                     orphaned, saves, generation, runtime>>
      /\ caller[c] \in CallerType
  BY <1>0 DEF StopFallback, CallerAt, Holding, Applying, CallersOK
<1>2. /\ lifecycle = c /\ c # "free" /\ runtime = 0 /\ generation > 0
      /\ \A g \in DOMAIN tasks : tasks[g].aborted
      /\ orphaned \/ DOMAIN tasks = {}
  <2>1. ~CallerAt(c, "join")
    BY <1>1 DEF CallerAt
  <2> QED BY <1>1, <2>1, HolderSees
<1>3. \A d \in Appliers \ {c} : ~Holding(d)
  BY <1>0, <1>2 DEF CallerInv
<1>4. RuntimeInv'
  <2>1. publisher' => runtime' = 0
    BY <1>1, <1>2
  <2> QED BY <1>0, <1>1, <1>2, <2>1 DEF RuntimeInv
<1>5. CASE fallback
  <2>1. UNCHANGED <<caller, publisher, activeKey>>
    BY <1>5 DEF StopFallback
  <2>2. HubTypeOK'
    <3>1. SettingsOK' /\ LocksOK' /\ CountsOK' /\ SignsOK' /\ TasksOK' /\ CallersOK'
      BY <1>0, <1>1, <2>1 DEF SettingsOK, LocksOK, CountsOK, SignsOK, TasksOK, CallersOK
    <3> QED BY <3>1, HubTypePartsNext
  <2>3. CallerInv'
    BY <1>0, <1>1, <2>1 DEF CallerInv, CallerAt, Applying, Holding
  <2>4. SecretsInv'
    BY <1>0, <1>1, <2>1 DEF SecretsInv, CallerAt, Applying, OfItsHub
  <2>5. KeyInv'
    BY <1>0, <1>1, <1>2, <1>3, <2>1 DEF KeyInv, RunsActive, CallerAt, Holding
  <2>6. ApplyInv'
    BY <1>0, <1>1, <2>1, KeepsApply DEF Applying, Scheduled, CallerAt
  <2> QED BY <1>4, <2>2, <2>3, <2>4, <2>5, <2>6 DEF HubInv
<1>6. CASE ~fallback
  <2> DEFINE rec == [caller[c] EXCEPT !.at = "reset"]
  <2>1. /\ caller' = [caller EXCEPT ![c] = rec]
        /\ publisher' = FALSE /\ activeKey' = caller[c].want
    BY <1>6 DEF StopFallback, MoveTo
  <2>2. /\ rec \in CallerType /\ rec.at = "reset" /\ rec.want = caller[c].want
        /\ rec.token = caller[c].token /\ rec.ask = caller[c].ask
    BY <1>1 DEF CallerType
  <2> HIDE DEF rec
  <2>3. /\ CallersOK' /\ CallerInv' /\ ApplyInv' /\ caller'[c] = rec
        /\ \A d \in Appliers \ {c} : caller'[d] = caller[d] /\ ~Holding(d) /\ ~Holding(d)'
        /\ \A d \in Appliers : /\ Applying(d)' <=> Applying(d)
                               /\ caller'[d].token = caller[d].token
                               /\ caller'[d].want = caller[d].want
    BY <1>1, <1>2, <2>1, <2>2, LockedStep
  <2>4. HubTypeOK'
    <3>1. caller[c].want \in HubSettings
      BY <1>0, <1>1 DEF CallerInv
    <3>2. SettingsOK' /\ LocksOK' /\ CountsOK' /\ SignsOK' /\ TasksOK'
      BY <1>0, <1>1, <2>1, <3>1 DEF SettingsOK, LocksOK, CountsOK, SignsOK, TasksOK
    <3> QED BY <2>3, <3>2, HubTypePartsNext
  <2>5. SecretsInv'
    BY <1>0, <1>1, <2>2, <2>3 DEF SecretsInv, CallerAt, OfItsHub
  <2>6. KeyInv'
    <3>1. lifecycle' # "free"
      BY <1>1, <1>2
    <3> QED BY <1>1, <1>2, <2>1, <2>2, <2>3, <3>1 DEF KeyInv, RunsActive, CallerAt, Holding
  <2> QED BY <1>4, <2>3, <2>4, <2>5, <2>6 DEF HubInv
<1> QED BY <1>5, <1>6

(* The AgentConfig that is loaded or made is of the Hub it is for.          *)
LEMMA ReviseIs ==
  ASSUME NEW k \in Configs \cup {NoConfig}, NEW c \in Appliers, OfItsHub(k),
         caller[c] \in CallerType, caller[c].want \in HubSettings,
         caller[c].want.url # NoHub, caller[c].token \in {caller[c].want.url, NoHub}
  PROVE  /\ Revise(k, c) \in Configs /\ Revise(k, c).url = caller[c].want.url
         /\ OfItsHub(Revise(k, c))
<1> DEFINE u == caller[c].want.url
           t == caller[c].token
<1>1. u \in Hubs /\ t \in Hubs \cup {NoHub} /\ t \in {u, NoHub}
  BY DEF HubSettings, CallerType
<1>2. CASE k.url # u
  <2> DEFINE made == [url |-> u, token |-> u, agent |-> NoHub, enrollment |-> t]
  <2>1. made \in Configs /\ made.url = u /\ OfItsHub(made)
    BY <1>1 DEF Configs, OfItsHub
  <2>2. Revise(k, c) = made
    BY <1>2 DEF Revise
  <2> QED BY <2>1, <2>2
<1>3. CASE k.url = u
  <2>1. k \in Configs /\ k # NoConfig
    BY <1>1, <1>3, NoConfigIs, HubAssumption
  <2>2. {k.token, k.agent, k.enrollment} \subseteq {k.url, NoHub}
    BY <2>1 DEF OfItsHub
  <2> DEFINE new == [k EXCEPT !.enrollment = t, !.agent = NoHub]
  <2>3. /\ new \in Configs /\ new.url = k.url /\ new.token = k.token
        /\ new.agent = NoHub /\ new.enrollment = t
    BY <1>1, <2>1 DEF Configs
  <2>4. OfItsHub(new)
    BY <1>1, <1>3, <2>2, <2>3 DEF OfItsHub
  <2>5. Revise(k, c) \in {k, new}
    BY <1>3 DEF Revise
  <2> HIDE DEF new
  <2> QED BY <1>3, <2>1, <2>3, <2>4, <2>5
<1> QED BY <1>2, <1>3

(* The reset ends without a runtime: nothing is asked for, a publisher is,  *)
(* or the store fails.                                                      *)
LEMMA ResetReturns ==
  ASSUME HubInv, NEW c \in Appliers, Holding(c), CallerAt(c, "reset"), Returns(c),
         agentShown' = NoHub, UNCHANGED <<hub, activeKey, generation, runtime, tasks, unapplied,
                                          orphaned, saved>>,
         fallback' \in BOOLEAN, publisher' \in BOOLEAN, cut' \in BOOLEAN,
         saves' \in 0..MaxSaves,
         cut' \/ LET s == caller[c].want
                 IN  /\ fallback' = (s.enabled /\ s.fallback)
                     /\ publisher' = (s.enabled /\ s.url = NoHub)
                     /\ ~s.enabled \/ s.url = NoHub
  PROVE  HubInv'
<1>0. /\ CallersOK /\ SignsOK /\ CallerInv /\ SecretsInv /\ RuntimeInv /\ KeyInv
      /\ SettingsOK /\ LocksOK /\ CountsOK /\ TasksOK
  BY HubParts
<1>1. Applying(c) /\ activeKey = caller[c].want
  BY <1>0 DEF CallerAt, Applying, KeyInv
<1>2. /\ lifecycle = c /\ c # "free" /\ runtime = 0 /\ generation > 0
      /\ \A g \in DOMAIN tasks : tasks[g].aborted
      /\ orphaned \/ DOMAIN tasks = {}
  <2>1. ~CallerAt(c, "join")
    BY DEF CallerAt
  <2> QED BY <2>1, HolderSees
<1>3. /\ CallersOK' /\ LocksOK' /\ CallerInv' /\ ApplyInv'
      /\ lifecycle' = "free" /\ \A d \in Appliers : ~Holding(d)'
      /\ caller'[c].at \in {"idle", "forget"}
      /\ \A d \in Appliers \ {c} : caller'[d] = caller[d]
  BY <1>1, <1>2, ReturnsStep
<1>4. HubTypeOK'
  <2>1. SettingsOK' /\ CountsOK' /\ SignsOK' /\ TasksOK'
    BY <1>0 DEF SettingsOK, CountsOK, SignsOK, TasksOK
  <2> QED BY <1>3, <2>1, HubTypePartsNext
<1>5. SecretsInv'
  BY <1>0, <1>3 DEF SecretsInv, Applying, CallerAt, OfItsHub
<1>6. RuntimeInv'
  BY <1>2, <1>3 DEF RuntimeInv
<1>7. KeyInv'
  <2>1. RunsActive'
    BY <1>1, <1>2 DEF RunsActive
  <2>2. \A d \in Appliers :
          ~Holding(d)' /\ caller'[d].at \notin {"reset", "announce"} /\ ~CallerAt(d, "announce")'
    BY <1>3 DEF Holding, CallerAt
  <2> QED BY <2>1, <2>2, Zenon DEF KeyInv
<1> QED BY <1>3, <1>4, <1>5, <1>6, <1>7 DEF HubInv

LEMMA ResetStep ==
  ASSUME HubInv, NEW c \in Appliers, Reset(c)
  PROVE  HubInv'
<1>0. /\ CallersOK /\ SignsOK /\ CallerInv /\ SecretsInv /\ RuntimeInv /\ KeyInv
      /\ SettingsOK /\ LocksOK /\ CountsOK /\ TasksOK
  BY HubParts
<1> DEFINE s == caller[c].want
<1>1. /\ CallerAt(c, "reset") /\ Holding(c) /\ Applying(c) /\ agentShown' = NoHub
      /\ fallback' = (s.enabled /\ s.fallback)
      /\ UNCHANGED <<hub, activeKey, generation, runtime, tasks, unapplied, orphaned>>
      /\ caller[c] \in CallerType /\ s \in HubSettings
  BY <1>0 DEF Reset, CallerAt, Holding, Applying, CallersOK, CallerInv
<1>2. activeKey = s /\ publisher = FALSE /\ publisher \in BOOLEAN /\ saves \in 0..MaxSaves
  BY <1>0, <1>1 DEF KeyInv, CallerAt, SignsOK, CountsOK
<1>3. fallback' \in BOOLEAN
  BY <1>1, Zenon
<1>4. CASE ~s.enabled
  <2>1. Returns(c) /\ cut' = FALSE /\ UNCHANGED <<publisher, saved, saves>>
    BY <1>4 DEF Reset
  <2>2. publisher' = (s.enabled /\ s.url = NoHub)
    BY <1>2, <1>4, <2>1
  <2>3. cut' \in BOOLEAN /\ publisher' \in BOOLEAN /\ saves' \in 0..MaxSaves
    BY <1>2, <2>1
  <2> QED BY <1>1, <1>3, <1>4, <2>1, <2>2, <2>3, ResetReturns
<1>5. CASE s.enabled /\ s.url = NoHub
  <2>1. /\ Returns(c) /\ UNCHANGED saved
        /\ \/ publisher' = TRUE /\ cut' = FALSE /\ UNCHANGED saves
           \/ publisher' = FALSE /\ cut' = TRUE /\ Pay
    BY <1>5 DEF Reset
  <2>2. cut' \/ publisher' = (s.enabled /\ s.url = NoHub)
    BY <1>5, <2>1
  <2>3. cut' \in BOOLEAN /\ publisher' \in BOOLEAN /\ saves' \in 0..MaxSaves
    BY <1>0, <2>1, PayStep
  <2> QED BY <1>1, <1>3, <1>5, <2>1, <2>2, <2>3, ResetReturns
<1>6. CASE s.enabled /\ s.url # NoHub
  <2>1. /\ UNCHANGED publisher
        /\ \/ /\ saved' = Revise(saved, c)
              /\ caller' = [caller EXCEPT ![c].at = "announce", ![c].config = saved']
              /\ UNCHANGED <<lifecycle, provisioning, cut, saves>>
           \/ Returns(c) /\ cut' = TRUE /\ Pay /\ UNCHANGED saved
    BY <1>6 DEF Reset
  <2>2. CASE Returns(c) /\ cut' = TRUE /\ Pay /\ UNCHANGED saved
    <3>1. cut' \in BOOLEAN /\ publisher' \in BOOLEAN /\ saves' \in 0..MaxSaves
      BY <1>0, <1>2, <2>1, <2>2, PayStep
    <3> QED BY <1>1, <1>3, <2>2, <3>1, ResetReturns
  <2>3. CASE /\ saved' = Revise(saved, c)
             /\ caller' = [caller EXCEPT ![c].at = "announce", ![c].config = saved']
             /\ UNCHANGED <<lifecycle, provisioning, cut, saves>>
    <3>1. /\ lifecycle = c /\ c # "free" /\ runtime = 0 /\ generation > 0
          /\ \A g \in DOMAIN tasks : tasks[g].aborted
          /\ orphaned \/ DOMAIN tasks = {}
      <4>1. ~CallerAt(c, "join")
        BY <1>1 DEF CallerAt
      <4> QED BY <1>1, <4>1, HolderSees
    <3>2. saved' \in Configs /\ saved'.url = s.url /\ OfItsHub(saved)'
      <4>1. OfItsHub(saved) /\ s.url # NoHub /\ caller[c].token \in {s.url, NoHub}
        BY <1>0, <1>1, <1>6 DEF SecretsInv
      <4>2. /\ Revise(saved, c) \in Configs /\ Revise(saved, c).url = s.url
            /\ OfItsHub(Revise(saved, c))
        BY <1>0, <1>1, <4>1, ReviseIs DEF SettingsOK
      <4> QED BY <2>3, <4>2 DEF OfItsHub
    <3> DEFINE k == saved'
               rec == [caller[c] EXCEPT !.at = "announce", !.config = k]
    <3> HIDE DEF k
    <3>3. caller' = [caller EXCEPT ![c] = rec] /\ k \in Configs
      BY <2>3, <3>2 DEF k
    <3>4. /\ rec \in CallerType /\ rec.at = "announce" /\ rec.want = s /\ rec.config = k
          /\ rec.token = caller[c].token /\ rec.ask = caller[c].ask
      BY <1>1, <3>3 DEF CallerType
    <3> HIDE DEF rec
    <3>5. /\ CallersOK' /\ CallerInv' /\ ApplyInv' /\ caller'[c] = rec
          /\ \A d \in Appliers \ {c} : caller'[d] = caller[d] /\ ~Holding(d) /\ ~Holding(d)'
          /\ \A d \in Appliers : /\ Applying(d)' <=> Applying(d)
                                 /\ caller'[d].token = caller[d].token
                                 /\ caller'[d].want = caller[d].want
      BY <1>1, <2>3, <3>1, <3>3, <3>4, LockedStep
    <3>6. HubTypeOK'
      <4>1. SettingsOK' /\ LocksOK' /\ CountsOK' /\ SignsOK' /\ TasksOK'
        BY <1>0, <1>1, <1>3, <2>1, <2>3, <3>2
           DEF SettingsOK, LocksOK, CountsOK, SignsOK, TasksOK
      <4> QED BY <3>5, <4>1, HubTypePartsNext
    <3>7. SecretsInv'
      <4>1. OfItsHub(k)
        BY <3>2 DEF k, OfItsHub
      <4>2. \A d \in Appliers :
              /\ Applying(d)' => caller'[d].token \in {caller'[d].want.url, NoHub}
              /\ CallerAt(d, "announce")' => OfItsHub(caller'[d].config)
        BY <1>0, <3>4, <3>5, <4>1 DEF SecretsInv, CallerAt, Holding
      <4>3. \A g \in DOMAIN tasks' : OfItsHub(tasks'[g].config)
        BY <1>0, <1>1 DEF SecretsInv
      <4> QED BY <3>2, <4>2, <4>3 DEF SecretsInv, OfItsHub
    <3>8. RuntimeInv'
      BY <1>1, <2>1, <2>3, <3>1 DEF RuntimeInv
    <3>9. KeyInv'
      <4>1. lifecycle' # "free" /\ generation' > 0 /\ activeKey' = s /\ ~publisher'
        BY <1>1, <1>2, <2>1, <2>3, <3>1
      <4>2. k.url = s.url
        BY <3>2 DEF k
      <4>3. fallback' = s.fallback
        BY <1>1, <1>6 DEF HubSettings
      <4> QED BY <1>6, <3>3, <3>4, <3>5, <4>1, <4>2, <4>3
             DEF KeyInv, RunsActive, CallerAt, Holding
    <3> QED BY <3>5, <3>6, <3>7, <3>8, <3>9 DEF HubInv
  <2> QED BY <2>1, <2>2, <2>3
<1> QED BY <1>4, <1>5, <1>6, <1>1 DEF HubSettings
LEMMA AnnounceStep ==
  ASSUME HubInv, NEW c \in Appliers, Announce(c)
  PROVE  HubInv'
<1>0. /\ CallersOK /\ SignsOK /\ CallerInv /\ SecretsInv /\ RuntimeInv /\ KeyInv
      /\ SettingsOK /\ LocksOK /\ CountsOK /\ TasksOK
  BY HubParts
<1> DEFINE k == caller[c].config
           s == caller[c].want
           new == [config |-> k, at |-> "wait", aborted |-> FALSE]
<1>1. /\ CallerAt(c, "announce") /\ Holding(c) /\ Applying(c)
      /\ agentShown' = k.agent /\ runtime' = generation /\ cut' = FALSE /\ Returns(c)
      /\ UNCHANGED <<hub, activeKey, generation, fallback, publisher, saved, unapplied, orphaned,
                     saves>>
  BY DEF Announce, CallerAt, Holding, Applying
<1>2. /\ lifecycle = c /\ c # "free" /\ runtime = 0 /\ generation > 0
      /\ \A g \in DOMAIN tasks : tasks[g].aborted
      /\ orphaned \/ DOMAIN tasks = {}
  <2>1. ~CallerAt(c, "join")
    BY <1>1 DEF CallerAt
  <2> QED BY <1>1, <2>1, HolderSees
<1>3. /\ activeKey = s /\ ~publisher /\ fallback = s.fallback /\ s.enabled /\ s.url # NoHub
      /\ k \in Configs /\ k.url = s.url /\ OfItsHub(k)
  BY <1>0, <1>1 DEF KeyInv, CallerAt, SecretsInv
<1>4. k.agent \in {k.url, NoHub} /\ k.agent \in Hubs \cup {NoHub}
  BY <1>3, NoConfigIs DEF OfItsHub, Configs
<1>5. new \in TaskType /\ new.config = k /\ ~new.aborted
  BY <1>3 DEF TaskType
<1>6. tasks' = [g \in DOMAIN tasks \cup {generation} |-> IF g = generation THEN new ELSE tasks[g]]
  BY DEF Announce
<1> HIDE DEF new
<1>7. /\ DOMAIN tasks' = DOMAIN tasks \cup {generation}
      /\ tasks'[generation] = new
      /\ \A g \in DOMAIN tasks : g # generation => tasks'[g] = tasks[g]
  BY <1>6
<1>8. /\ CallersOK' /\ LocksOK' /\ CallerInv' /\ ApplyInv'
      /\ lifecycle' = "free" /\ \A d \in Appliers : ~Holding(d)'
      /\ caller'[c].at \in {"idle", "forget"}
      /\ \A d \in Appliers \ {c} : caller'[d] = caller[d]
  BY <1>1, <1>2, <1>3, ReturnsStep
<1>9. HubTypeOK'
  <2>1. SettingsOK' /\ CountsOK' /\ SignsOK'
    BY <1>0, <1>1, <1>4 DEF SettingsOK, CountsOK, SignsOK
  <2>2. TasksOK'
    <3>1. DOMAIN tasks' \subseteq 1..generation
      BY <1>0, <1>2, <1>7 DEF TasksOK, CountsOK
    <3> QED BY <1>0, <1>1, <1>5, <1>7, <3>1 DEF TasksOK
  <2> QED BY <1>8, <2>1, <2>2, HubTypePartsNext
<1>10. SecretsInv'
  <2>1. \A g \in DOMAIN tasks' : OfItsHub(tasks'[g].config)
    BY <1>0, <1>3, <1>5, <1>7 DEF SecretsInv
  <2> QED BY <1>0, <1>1, <1>8, <2>1 DEF SecretsInv, Applying, CallerAt, OfItsHub
<1>11. RuntimeInv'
  <2>1. \A g \in DOMAIN tasks' : tasks'[g].aborted \/ g = generation
    BY <1>2, <1>7
  <2>2. orphaned \/ \A g \in DOMAIN tasks' : g = generation
    BY <1>2, <1>7
  <2>3. generation \in DOMAIN tasks' /\ ~tasks'[generation].aborted
    BY <1>5, <1>7
  <2> QED BY <1>1, <1>3, <1>8, <2>1, <2>2, <2>3 DEF RuntimeInv
<1>12. KeyInv'
  <2>1. RunsActive'
    <3>1. /\ fallback' = (activeKey'.enabled /\ activeKey'.fallback)
          /\ publisher' = (activeKey'.enabled /\ activeKey'.url = NoHub)
      <4>1. activeKey' = s /\ fallback' = fallback /\ publisher' = publisher
        BY <1>1, <1>3
      <4>2. fallback \in BOOLEAN /\ publisher \in BOOLEAN
        BY <1>0 DEF SignsOK
      <4>3. (activeKey'.enabled /\ activeKey'.fallback) <=> fallback
        BY <1>3, <4>1
      <4>4. (activeKey'.enabled /\ activeKey'.url = NoHub) <=> FALSE
        BY <1>3, <4>1
      <4>5. publisher' = (activeKey'.enabled /\ activeKey'.url = NoHub)
        BY <1>3, <4>1, <4>2, <4>4
      <4>6. fallback' = (activeKey'.enabled /\ activeKey'.fallback)
        BY <4>1, <4>2, <4>3
      <4> QED BY <4>5, <4>6
    <3>2. runtime' # 0 /\ activeKey'.enabled /\ activeKey'.url # NoHub
      BY <1>1, <1>2, <1>3
    <3>3. tasks'[runtime'].config.url = activeKey'.url
      BY <1>1, <1>3, <1>5, <1>7
    <3>4. agentShown' # NoHub => agentShown' = activeKey'.url
      BY <1>1, <1>3, <1>4
    <3> QED BY <3>1, <3>2, <3>3, <3>4 DEF RunsActive
  <2>2. \A d \in Appliers :
          ~Holding(d)' /\ caller'[d].at \notin {"reset", "announce"} /\ ~CallerAt(d, "announce")'
    BY <1>8 DEF Holding, CallerAt
  <2> QED BY <2>1, <2>2, Zenon DEF KeyInv
<1> QED BY <1>8, <1>9, <1>10, <1>11, <1>12 DEF HubInv

(* A runtime goes on.  What it tells of the identity is its own; when the   *)
(* lock is free and no runtime was left to itself, there is only the one    *)
(* of this generation.                                                      *)
LEMMA RuntimeStep ==
  ASSUME HubInv, NEW g \in DOMAIN tasks, NEW rec \in TaskType,
         tasks' = [tasks EXCEPT ![g] = rec],
         rec.aborted = tasks[g].aborted, rec.config.url = tasks[g].config.url,
         OfItsHub(rec.config), saved' \in {saved, tasks[g].config},
         agentShown' \in {agentShown, tasks[g].config.agent},
         saves' \in 0..MaxSaves,
         UNCHANGED <<hub, caller, provisioning, lifecycle, running, cut, unapplied, orphaned>>
  PROVE  HubInv'
<1>0. /\ CallersOK /\ SignsOK /\ CallerInv /\ SecretsInv /\ RuntimeInv /\ KeyInv /\ ApplyInv
      /\ SettingsOK /\ LocksOK /\ CountsOK /\ TasksOK
  BY HubParts
<1>1. UNCHANGED <<activeKey, generation, runtime, fallback, publisher>>
  BY DEF running
<1>2. /\ DOMAIN tasks' = DOMAIN tasks /\ tasks'[g] = rec
      /\ \A h \in DOMAIN tasks \ {g} : tasks'[h] = tasks[h]
  OBVIOUS
<1>3. /\ tasks[g] \in TaskType /\ tasks[g].config \in Configs
      /\ tasks[g].config.agent \in Hubs \cup {NoHub}
      /\ tasks[g].config.agent \in {tasks[g].config.url, NoHub}
      /\ OfItsHub(tasks[g].config)
  <2>1. tasks[g] \in TaskType
    BY <1>0 DEF TasksOK
  <2>2. tasks[g].config \in Configs /\ OfItsHub(tasks[g].config)
    BY <1>0, <2>1 DEF TaskType, SecretsInv
  <2>3. /\ tasks[g].config.agent \in Hubs \cup {NoHub}
        /\ tasks[g].config.agent \in {tasks[g].config.url, NoHub}
    BY <2>2, NoConfigIs DEF Configs, OfItsHub
  <2> QED BY <2>1, <2>2, <2>3
<1>4. HubTypeOK'
  <2>1. SettingsOK' /\ LocksOK' /\ CountsOK' /\ SignsOK' /\ CallersOK'
    BY <1>0, <1>1, <1>3 DEF SettingsOK, LocksOK, CountsOK, SignsOK, CallersOK
  <2>2. TasksOK'
    BY <1>0, <1>1, <1>2 DEF TasksOK
  <2> QED BY <2>1, <2>2, HubTypePartsNext
<1>5. CallerInv'
  BY <1>0 DEF CallerInv, CallerAt, Applying, Holding
<1>6. SecretsInv'
  <2>1. OfItsHub(saved)'
    BY <1>0, <1>3 DEF SecretsInv, OfItsHub
  <2>2. \A h \in DOMAIN tasks' : OfItsHub(tasks'[h].config)
    BY <1>0, <1>2 DEF SecretsInv
  <2> QED BY <1>0, <2>1, <2>2 DEF SecretsInv, CallerAt, Applying
<1>7. \A h \in DOMAIN tasks : tasks'[h].aborted = tasks[h].aborted
  BY <1>2
<1>8. RuntimeInv'
  BY <1>0, <1>1, <1>2, <1>7 DEF RuntimeInv, CallerAt
<1>9. KeyInv'
  <2>1. RunsActive'
    <3>1. ASSUME lifecycle = "free", ~cut, activeKey # NoKey, runtime # 0
          PROVE  /\ tasks'[runtime].config.url = activeKey.url
                 /\ agentShown' # NoHub /\ ~orphaned => agentShown' = activeKey.url
      <4>1. /\ tasks[runtime].config.url = activeKey.url
            /\ agentShown # NoHub /\ ~orphaned => agentShown = activeKey.url
        BY <1>0, <3>1 DEF KeyInv, RunsActive
      <4>2. runtime \in DOMAIN tasks
        BY <1>0, <3>1 DEF RuntimeInv
      <4>3. \A d \in Appliers : ~CallerAt(d, "join")
        BY <1>0, <3>1, HubAssumption DEF CallerInv, Holding, CallerAt, Appliers
      <4>4. orphaned \/ g = runtime
        BY <1>0, <4>3 DEF RuntimeInv
      <4> QED BY <1>2, <1>3, <4>1, <4>2, <4>4
    <3>2. lifecycle = "free" /\ ~cut /\ activeKey # NoKey =>
            /\ fallback = (activeKey.enabled /\ activeKey.fallback)
            /\ publisher = (activeKey.enabled /\ activeKey.url = NoHub)
            /\ (runtime # 0) = (activeKey.enabled /\ activeKey.url # NoHub)
      BY <1>0 DEF KeyInv, RunsActive
    <3> QED BY <1>1, <3>1, <3>2 DEF RunsActive
  <2> QED BY <1>0, <1>1, <2>1 DEF KeyInv, CallerAt, Holding
<1>10. ApplyInv'
  BY <1>0, <1>1, KeepsApply DEF Applying, Scheduled, CallerAt
<1> QED BY <1>4, <1>5, <1>6, <1>8, <1>9, <1>10 DEF HubInv

(* The steps of a runtime: what each writes in its record.                  *)
LEMMA TaskRecordIs ==
  ASSUME HubInv, NEW g \in DOMAIN tasks
  PROVE  /\ tasks[g] \in TaskType /\ OfItsHub(tasks[g].config) /\ saves \in 0..MaxSaves
         /\ \A w \in {"wait", "tell", "write"} :
              /\ [tasks[g] EXCEPT !.at = w] \in TaskType
              /\ [tasks[g] EXCEPT !.at = w].aborted = tasks[g].aborted
              /\ [tasks[g] EXCEPT !.at = w].config = tasks[g].config
<1>1. tasks[g] \in TaskType /\ OfItsHub(tasks[g].config) /\ saves \in 0..MaxSaves
  BY HubParts DEF TasksOK, SecretsInv, CountsOK
<1> QED BY <1>1 DEF TaskType

LEMMA AnsweredStep ==
  ASSUME HubInv, NEW g \in DOMAIN tasks, Answered(g)
  PROVE  HubInv'
<1> DEFINE k == tasks[g].config
           e == IF k.agent = NoHub THEN NoHub ELSE k.enrollment
           new == [k EXCEPT !.agent = k.url, !.enrollment = e]
           rec == [tasks[g] EXCEPT !.at = "answered", !.config = new]
<1>1. tasks[g] \in TaskType /\ k \in Configs /\ OfItsHub(k) /\ saves \in 0..MaxSaves
  BY TaskRecordIs DEF TaskType
<1>2. {k.token, k.agent, k.enrollment} \subseteq {k.url, NoHub} /\ k.url \in Hubs
  BY <1>1, NoConfigIs DEF OfItsHub, Configs
<1>3. /\ new \in Configs /\ new.url = k.url /\ new.token = k.token
      /\ new.agent = k.url /\ new.enrollment = e
  BY <1>1, <1>2 DEF Configs
<1>4. tasks' = [tasks EXCEPT ![g] = rec]
  BY <1>1 DEF Answered, TaskType, Configs
<1> HIDE DEF new
<1>5. OfItsHub(new)
  BY <1>2, <1>3 DEF OfItsHub
<1>6. rec \in TaskType /\ rec.aborted = tasks[g].aborted /\ rec.config = new
  BY <1>1, <1>3 DEF TaskType
<1> HIDE DEF rec
<1>7. UNCHANGED <<hub, caller, provisioning, lifecycle, running, saved, agentShown, cut,
                  unapplied, orphaned, saves>>
  BY DEF Answered
<1> QED BY <1>1, <1>3, <1>4, <1>5, <1>6, <1>7, RuntimeStep

LEMMA SavesConfigStep ==
  ASSUME HubInv, NEW g \in DOMAIN tasks, SavesConfig(g)
  PROVE  HubInv'
<1>1. CASE saved' = tasks[g].config /\ tasks' = [tasks EXCEPT ![g].at = "tell"] /\ UNCHANGED saves
  <2> DEFINE rec == [tasks[g] EXCEPT !.at = "tell"]
  <2>1. rec \in TaskType /\ rec.aborted = tasks[g].aborted /\ rec.config = tasks[g].config
    BY TaskRecordIs
  <2>2. tasks' = [tasks EXCEPT ![g] = rec]
    BY <1>1
  <2> HIDE DEF rec
  <2> QED BY <1>1, <2>1, <2>2, TaskRecordIs, RuntimeStep DEF SavesConfig
<1>2. CASE Pay /\ tasks' = [tasks EXCEPT ![g].at = "wait"] /\ UNCHANGED saved
  <2> DEFINE rec == [tasks[g] EXCEPT !.at = "wait"]
  <2>1. rec \in TaskType /\ rec.aborted = tasks[g].aborted /\ rec.config = tasks[g].config
    BY TaskRecordIs
  <2>2. tasks' = [tasks EXCEPT ![g] = rec] /\ saves' \in 0..MaxSaves
    BY <1>2, PayStep, HubParts
  <2> HIDE DEF rec
  <2> QED BY <1>2, <2>1, <2>2, TaskRecordIs, RuntimeStep DEF SavesConfig
<1> QED BY <1>1, <1>2 DEF SavesConfig

LEMMA TellsStep ==
  ASSUME HubInv, NEW g \in DOMAIN tasks, Tells(g) \/ Writes(g)
  PROVE  HubInv'
<1> DEFINE w == IF Tells(g) /\ g = generation THEN "write" ELSE "wait"
           rec == [tasks[g] EXCEPT !.at = w]
<1>1. rec \in TaskType /\ rec.aborted = tasks[g].aborted /\ rec.config = tasks[g].config
  BY TaskRecordIs
<1>2. CASE Tells(g)
  <2>1. tasks' = [tasks EXCEPT ![g] = rec]
    BY <1>2 DEF Tells
  <2>2. UNCHANGED <<hub, caller, provisioning, lifecycle, running, saved, agentShown, cut,
                    unapplied, orphaned, saves>>
    BY <1>2 DEF Tells
  <2> HIDE DEF rec
  <2> QED BY <1>1, <2>1, <2>2, TaskRecordIs, RuntimeStep
<1>3. CASE Writes(g)
  <2>0. tasks[g].at = "write"
    BY <1>3 DEF Writes
  <2>1. ~Tells(g)
    BY <2>0 DEF Tells
  <2>2. tasks' = [tasks EXCEPT ![g] = rec]
    BY <1>3, <2>1 DEF Writes
  <2>3. /\ agentShown' = tasks[g].config.agent
        /\ UNCHANGED <<hub, caller, provisioning, lifecycle, running, saved, cut, unapplied,
                       orphaned, saves>>
    BY <1>3 DEF Writes
  <2> HIDE DEF rec
  <2> QED BY <1>1, <2>2, <2>3, TaskRecordIs, RuntimeStep
<1> QED BY <1>2, <1>3

(* An aborted runtime is not the one of this generation.                    *)
LEMMA EndedStep ==
  ASSUME HubInv, NEW g \in DOMAIN tasks, Ended(g)
  PROVE  HubInv'
<1>0. /\ CallersOK /\ SignsOK /\ CallerInv /\ SecretsInv /\ RuntimeInv /\ KeyInv /\ ApplyInv
      /\ SettingsOK /\ LocksOK /\ CountsOK /\ TasksOK
  BY HubParts
<1>1. /\ tasks[g].aborted
      /\ UNCHANGED <<hub, caller, provisioning, lifecycle, saved, agentShown, cut, unapplied,
                     orphaned, saves>>
      /\ UNCHANGED <<activeKey, generation, runtime, fallback, publisher>>
  BY DEF Ended, running
<1>2. /\ DOMAIN tasks' = DOMAIN tasks \ {g}
      /\ \A h \in DOMAIN tasks' : tasks'[h] = tasks[h]
  BY DEF Ended, Restrict
<1>3. runtime # 0 => g # runtime
  BY <1>0, <1>1 DEF RuntimeInv
<1>4. HubTypeOK'
  <2>1. SettingsOK' /\ LocksOK' /\ CountsOK' /\ SignsOK' /\ CallersOK' /\ TasksOK'
    BY <1>0, <1>1, <1>2 DEF SettingsOK, LocksOK, CountsOK, SignsOK, CallersOK, TasksOK
  <2> QED BY <2>1, HubTypePartsNext
<1>5. CallerInv'
  BY <1>0, <1>1 DEF CallerInv, CallerAt, Applying, Holding
<1>6. SecretsInv'
  BY <1>0, <1>1, <1>2 DEF SecretsInv, CallerAt, Applying, OfItsHub
<1>7. RuntimeInv'
  BY <1>0, <1>1, <1>2, <1>3 DEF RuntimeInv, CallerAt
<1>8. KeyInv'
  <2>1. RunsActive'
    <3>1. runtime # 0 => runtime \in DOMAIN tasks'
      BY <1>0, <1>2, <1>3 DEF RuntimeInv
    <3> QED BY <1>0, <1>1, <1>2, <3>1 DEF KeyInv, RunsActive
  <2> QED BY <1>0, <1>1, <2>1 DEF KeyInv, CallerAt, Holding
<1>9. ApplyInv'
  BY <1>0, <1>1, KeepsApply DEF Applying, Scheduled, CallerAt
<1> QED BY <1>4, <1>5, <1>6, <1>7, <1>8, <1>9 DEF HubInv

LEMMA HubRests ==
  ASSUME HubInv, UNCHANGED hubLife
  PROVE  HubInv'
<1>1. /\ UNCHANGED <<hub, caller, provisioning, lifecycle, tasks, saved, agentShown, cut,
                     unapplied, orphaned, saves>>
      /\ UNCHANGED <<activeKey, generation, runtime, fallback, publisher>>
  BY DEF hubLife, running
<1>2. HubTypeOK'
  BY <1>1, HubTypeParts, HubTypePartsNext
     DEF HubInv, SettingsOK, LocksOK, CountsOK, SignsOK, CallersOK, TasksOK
<1>3. CallerInv' /\ SecretsInv'
  BY <1>1 DEF HubInv, CallerInv, SecretsInv, CallerAt, Applying, Holding, OfItsHub
<1>4. RuntimeInv' /\ KeyInv'
  BY <1>1 DEF HubInv, RuntimeInv, KeyInv, RunsActive, CallerAt, Holding
<1>5. ApplyInv'
  BY <1>1 DEF HubInv, ApplyInv, Applying, Scheduled, CallerAt
<1> QED BY <1>2, <1>3, <1>4, <1>5 DEF HubInv

LEMMA HubInvStep ==
  ASSUME HubInv, HubNext \/ UNCHANGED hubLife
  PROVE  HubInv'
<1>0. Callers \subseteq Appliers
  BY DEF Appliers
<1>1. ASSUME NEW c \in Callers, NEW s \in Offered, SaveSettings(c, s)
      PROVE  HubInv'
  BY <1>0, <1>1, SaveSettingsStep
<1>2. ASSUME NEW c \in Callers, NEW h \in Hubs, Asks(c, "provision", h)
      PROVE  HubInv'
  BY <1>0, <1>2, AsksStep
<1>3. ASSUME NEW c \in Callers, Asks(c, "unbind", NoHub)
      PROVE  HubInv'
  BY <1>0, <1>3, AsksStep
<1>4. ASSUME NEW c \in Callers,
             \/ Provision(c) \/ Unbind(c) \/ Forget(c) \/ Dropped(c)
             \/ Commands(c) \/ Obeys(c)
      PROVE  HubInv'
  BY <1>0, <1>4, ProvisionStep, UnbindStep, ForgetStep, DroppedStep, CommandsStep, ObeysStep
<1>5. ASSUME NEW c \in Appliers,
             Enter(c) \/ Joined(c) \/ StopFallback(c) \/ Reset(c) \/ Announce(c)
      PROVE  HubInv'
  BY <1>5, EnterStep, JoinedStep, StopFallbackStep, ResetStep, AnnounceStep
<1>6. ASSUME NEW g \in DOMAIN tasks,
             Answered(g) \/ SavesConfig(g) \/ Tells(g) \/ Writes(g) \/ Ended(g)
      PROVE  HubInv'
  BY <1>6, AnsweredStep, SavesConfigStep, TellsStep, EndedStep
<1> QED BY <1>1, <1>2, <1>3, <1>4, <1>5, <1>6, HubRests DEF HubNext

LEMMA HubInvAlways == RemoteSpec => []HubInv
<1>1. RemoteInit => HubInv
  BY HubInvAtInit DEF RemoteInit
<1>2. HubInv /\ [RemoteNext]_<<area, vars, hubLife, ddns, simCard, callLog, simRecords,
                               routing, cellScan>> => HubInv'
  BY HubInvStep DEF RemoteNext
<1> QED BY <1>1, <1>2, PTL DEF RemoteSpec

(* Whatever settings are saved, offered or cut off, the secrets a device    *)
(* holds or presents were made for the Hub they go to.  (apply_config,      *)
(* register_or_claim)                                                       *)
THEOREM SecretsKeepToTheirHub == RemoteSpec => []SecretsStayHome
<1>1. HubInv => SecretsStayHome
  BY HubParts DEF SecretsInv, SecretsStayHome, OfItsHub
<1> QED BY <1>1, HubInvAlways, PTL

(* What runs for a Hub is what the settings ask for, unless requests met,   *)
(* one was cut off or failed, or a Hub's command to unbind sleeps; and there *)
(* is one runtime at most.                                                  *)
(* (apply_config, save_hub_settings, agent_config_changed, hub_unbind)      *)
THEOREM WhatRunsIsAskedFor == RemoteSpec => []LifecycleAgrees
<1>1. HubInv => LifecycleAgrees
  <2> SUFFICES ASSUME HubInv PROVE LifecycleAgrees
    OBVIOUS
  <2>1. RuntimeInv /\ KeyInv /\ ApplyInv
    BY HubParts
  <2>2. \A g, h \in DOMAIN tasks : tasks[g].aborted \/ tasks[h].aborted \/ g = h
    BY <2>1 DEF RuntimeInv
  <2>3. publisher => runtime = 0
    BY <2>1 DEF RuntimeInv
  <2>4. RunsActive /\ (runtime # 0 => runtime = generation /\ ~tasks[runtime].aborted)
    BY <2>1 DEF RuntimeInv, KeyInv
  <2>5. ~unapplied /\ ~(\E c \in Appliers : Applying(c) \/ Scheduled(c)) => activeKey = hub
    BY <2>1 DEF ApplyInv
  <2> QED BY <2>2, <2>3, <2>4, <2>5 DEF LifecycleAgrees, RunsActive
<1> QED BY <1>1, HubInvAlways, PTL
-----------------------------------------------------------------------------
(* ApduSession.                                                             *)

SessionType ==
  [at : Phases \cup {"idle", "lock"}, use : Uses, line : Lines \cup {NoLine},
   tag : Nat, parts : 0..MaxExchanges, try : 1..Attempts, ok : BOOLEAN,
   out : Seq(Ask), in : Seq(Answer)]

Spots == Lines \cup {NoLine}

(* The kinds come in this order.                                            *)
Order == [client |-> 1, open |-> 2, apdu |-> 3, close |-> 4, release |-> 5]

(* A request or answer of this connection: an earlier kind, or the one that *)
(* is waited for.                                                           *)
Due(e, s) ==
  \/ Order[e.kind] < Order[s.at] /\ e.tag < s.tag
  \/ e.kind = s.at /\ e.tag = s.tag

(* The answers, and after them the requests, are in the order of their      *)
(* numbers, without a gap up to the last one.                               *)
Numbered(in, out, last) ==
  /\ Len(in) + Len(out) <= last
  /\ \A i \in 1..Len(in) : in[i].tag = last - Len(out) - Len(in) + i
  /\ \A i \in 1..Len(out) : out[i].tag = last - Len(out) + i

Single(in, out) == Len(in) + Len(out) = 1

InOrder(s) ==
  /\ Numbered(s.in, s.out, s.tag)
  /\ s.at \in Phases => /\ \A i \in 1..Len(s.in) : Due(s.in[i], s)
                        /\ \A i \in 1..Len(s.out) : Due(s.out[i], s)
  /\ s.at \notin Phases => s.in = << >> /\ s.out = << >>
  /\ s.at \in {"client", "open", "apdu"} => Single(s.in, s.out)
  /\ s.at = "lock" => s.use = "service"

(* The session works with this channel, or is told of it.                   *)
Works(s, l) ==
  \/ s.at = "apdu" /\ s.line = l
  \/ s.at = "open" /\ s.in # << >> /\ s.in[1].kind = "open" /\ s.in[1].ok /\ s.in[1].line = l

(* The modem will be asked to close it.                                     *)
HasClose(q, l) == \E i \in 1..Len(q) : q[i].kind = "close" /\ q[i].line = l

OneClose(q) ==
  \A i, j \in 1..Len(q) :
    q[i].kind = "close" /\ q[j].kind = "close" /\ q[i].line = q[j].line => i = j

Claims(u, l) == \/ Works(session[u], l)
                \/ HasClose(session[u].out, l)
                \/ HasClose(stray[u], l)

(* A channel has one claim at most, of the one it is open for.              *)
ClaimsApart(u) ==
  /\ OneClose(session[u].out) /\ OneClose(stray[u])
  /\ \A l \in Spots : /\ ~(Works(session[u], l) /\ HasClose(session[u].out, l))
                      /\ ~(Works(session[u], l) /\ HasClose(stray[u], l))
                      /\ ~(HasClose(session[u].out, l) /\ HasClose(stray[u], l))

SessionsOK ==
  /\ session \in [Sims -> SessionType] /\ stray \in [Sims -> Seq(Ask)]
  /\ sessions \in 0..MaxSessions

ArbiterOK ==
  /\ arbiter \in Sims \cup {"none"}
  /\ arbiter # "none" => session[arbiter].use = "service" /\ session[arbiter].at \in Phases

LinesOK == DOMAIN open \subseteq Lines /\ Range(open) \subseteq Sims /\ leaked \subseteq Lines

OrderInv == \A u \in Sims : InOrder(session[u])

ApartInv == \A u \in Sims : ClaimsApart(u)

OwnerInv == \A u \in Sims, l \in Spots : Claims(u, l) => l \in DOMAIN open /\ open[l] = u

(* A channel that nobody will close is a leaked one.                        *)
LeakInv == \A l \in DOMAIN open : l \in leaked \/ Claims(open[l], l)

ApduInv == SessionsOK /\ ArbiterOK /\ LinesOK /\ OrderInv /\ ApartInv /\ OwnerInv /\ LeakInv

LEMMA UnusedIs ==
  /\ Unused \in SessionType /\ Unused.at = "idle" /\ Unused.use = "service"
  /\ Unused.line = NoLine /\ Unused.tag = 0 /\ Unused.out = << >> /\ Unused.in = << >>
  /\ InOrder(Unused)
  /\ \A l \in Spots : ~Works(Unused, l) /\ ~HasClose(Unused.out, l)
  /\ OneClose(Unused.out)
<1>1. /\ Unused.at = "idle" /\ Unused.use = "service"
      /\ Unused.line = NoLine /\ Unused.tag = 0 /\ Unused.out = << >> /\ Unused.in = << >>
  BY DEF Unused
<1>2. Unused \in SessionType
  BY ApduAssumption DEF Unused, SessionType, Uses
<1> QED BY <1>1, <1>2 DEF InOrder, Numbered, Works, HasClose, OneClose, Phases

(* Requests to close, as a queue of requests changes.                       *)
LEMMA CloseAppended ==
  ASSUME NEW q \in Seq(Ask), NEW r \in Ask
  PROVE  /\ Append(q, r) \in Seq(Ask)
         /\ \A l \in Spots : HasClose(Append(q, r), l)
                              <=> HasClose(q, l) \/ (r.kind = "close" /\ r.line = l)
         /\ OneClose(q) /\ (r.kind = "close" => ~HasClose(q, r.line)) => OneClose(Append(q, r))
<1>1. /\ Append(q, r) \in Seq(Ask) /\ Len(Append(q, r)) = Len(q) + 1 /\ Len(q) \in Nat
      /\ \A i \in 1..Len(q) : Append(q, r)[i] = q[i]
      /\ Append(q, r)[Len(q) + 1] = r
  OBVIOUS
<1> DEFINE p == Append(q, r)
<1> HIDE DEF p
<1>2. \A l \in Spots : HasClose(p, l) <=> HasClose(q, l) \/ (r.kind = "close" /\ r.line = l)
  BY <1>1 DEF HasClose, p
<1>3. OneClose(q) /\ (r.kind = "close" => ~HasClose(q, r.line)) => OneClose(p)
  BY <1>1 DEF HasClose, OneClose, p
<1> QED BY <1>1, <1>2, <1>3 DEF p

LEMMA CloseTaken ==
  ASSUME NEW q \in Seq(Ask), q # << >>
  PROVE  /\ Tail(q) \in Seq(Ask) /\ Head(q) \in Ask
         /\ \A l \in Spots : /\ HasClose(Tail(q), l) => HasClose(q, l)
                             /\ HasClose(q, l) => \/ HasClose(Tail(q), l)
                                                  \/ Head(q).kind = "close" /\ Head(q).line = l
                             /\ Head(q).kind = "close" /\ Head(q).line = l => HasClose(q, l)
         /\ OneClose(q) => /\ OneClose(Tail(q))
                           /\ Head(q).kind = "close" => ~HasClose(Tail(q), Head(q).line)
<1>1. /\ Tail(q) \in Seq(Ask) /\ Head(q) = q[1] /\ Len(q) \in Nat \ {0} /\ q[1] \in Ask
      /\ Len(Tail(q)) = Len(q) - 1
      /\ \A i \in 1..(Len(q) - 1) : Tail(q)[i] = q[i + 1]
  OBVIOUS
<1> DEFINE p == Tail(q)
<1> HIDE DEF p
<1>2. \A l : HasClose(p, l) => HasClose(q, l)
  <2> SUFFICES ASSUME NEW l, NEW i \in 1..Len(p), p[i].kind = "close", p[i].line = l
               PROVE  HasClose(q, l)
    BY DEF HasClose
  <2>1. i + 1 \in 1..Len(q) /\ q[i + 1] = p[i]
    BY <1>1 DEF p
  <2> QED BY <2>1 DEF HasClose
<1>3. \A l : HasClose(q, l) => HasClose(p, l) \/ (q[1].kind = "close" /\ q[1].line = l)
  <2> SUFFICES ASSUME NEW l, NEW i \in 1..Len(q), q[i].kind = "close", q[i].line = l, i # 1
               PROVE  HasClose(p, l)
    BY DEF HasClose
  <2>1. i - 1 \in 1..Len(p) /\ p[i - 1] = q[i]
    BY <1>1 DEF p
  <2> QED BY <2>1 DEF HasClose
<1>4. \A l : q[1].kind = "close" /\ q[1].line = l => HasClose(q, l)
  BY <1>1 DEF HasClose
<1>5. OneClose(q) => OneClose(p)
  <2> SUFFICES ASSUME OneClose(q), NEW i \in 1..Len(p), NEW j \in 1..Len(p),
                      p[i].kind = "close", p[j].kind = "close", p[i].line = p[j].line
               PROVE  i = j
    BY DEF OneClose
  <2>1. i + 1 \in 1..Len(q) /\ q[i + 1] = p[i] /\ j + 1 \in 1..Len(q) /\ q[j + 1] = p[j]
    BY <1>1 DEF p
  <2>2. i + 1 = j + 1
    BY <2>1 DEF OneClose
  <2> QED BY <2>2
<1>6. OneClose(q) /\ q[1].kind = "close" => ~HasClose(p, q[1].line)
  <2> SUFFICES ASSUME OneClose(q), q[1].kind = "close",
                      NEW i \in 1..Len(p), p[i].kind = "close", p[i].line = q[1].line
               PROVE  FALSE
    BY DEF HasClose
  <2>1. i + 1 \in 1..Len(q) /\ q[i + 1] = p[i] /\ 1 \in 1..Len(q) /\ i + 1 # 1
    BY <1>1 DEF p
  <2> QED BY <2>1 DEF OneClose
<1> QED BY <1>1, <1>2, <1>3, <1>4, <1>5, <1>6 DEF p

LEMMA CloseJoined ==
  ASSUME NEW p \in Seq(Ask), NEW q \in Seq(Ask)
  PROVE  /\ p \o q \in Seq(Ask)
         /\ \A l \in Spots : HasClose(p \o q, l) <=> HasClose(p, l) \/ HasClose(q, l)
         /\ OneClose(p) /\ OneClose(q) /\ (\A l \in Spots : ~(HasClose(p, l) /\ HasClose(q, l)))
              => OneClose(p \o q)
<1>1. /\ p \o q \in Seq(Ask) /\ Len(p \o q) = Len(p) + Len(q)
      /\ Len(p) \in Nat /\ Len(q) \in Nat
      /\ \A i \in 1..Len(p) : (p \o q)[i] = p[i]
      /\ \A i \in 1..Len(q) : (p \o q)[Len(p) + i] = q[i]
      /\ \A i \in 1..(Len(p) + Len(q)) : i \in 1..Len(p) \/ i - Len(p) \in 1..Len(q)
  OBVIOUS
<1> DEFINE r == p \o q
<1> HIDE DEF r
<1>2. /\ Len(r) = Len(p) + Len(q)
      /\ \A i \in 1..Len(r) : \/ i \in 1..Len(p) /\ r[i] = p[i]
                              \/ i - Len(p) \in 1..Len(q) /\ r[i] = q[i - Len(p)]
  <2>1. \A i \in 1..Len(r) : i - Len(p) \in 1..Len(q) => r[i] = q[i - Len(p)]
    <3> SUFFICES ASSUME NEW i \in 1..Len(r), i - Len(p) \in 1..Len(q)
                 PROVE  r[i] = q[i - Len(p)]
      OBVIOUS
    <3>1. r[Len(p) + (i - Len(p))] = q[i - Len(p)]
      BY <1>1 DEF r
    <3> QED BY <1>1, <3>1 DEF r
  <2> QED BY <1>1, <2>1 DEF r
<1>3. \A l \in Spots : HasClose(r, l) => HasClose(p, l) \/ HasClose(q, l)
  BY <1>2 DEF HasClose
<1>4. \A l \in Spots : HasClose(p, l) => HasClose(r, l)
  <2> SUFFICES ASSUME NEW l, NEW i \in 1..Len(p), p[i].kind = "close", p[i].line = l
               PROVE  HasClose(r, l)
    BY DEF HasClose
  <2>1. i \in 1..Len(r) /\ r[i] = p[i]
    BY <1>1 DEF r
  <2> QED BY <2>1 DEF HasClose
<1>5. \A l \in Spots : HasClose(q, l) => HasClose(r, l)
  <2> SUFFICES ASSUME NEW l, NEW i \in 1..Len(q), q[i].kind = "close", q[i].line = l
               PROVE  HasClose(r, l)
    BY DEF HasClose
  <2>1. Len(p) + i \in 1..Len(r) /\ r[Len(p) + i] = q[i]
    BY <1>1 DEF r
  <2> QED BY <2>1 DEF HasClose
<1>6. ASSUME OneClose(p), OneClose(q), \A l \in Spots : ~(HasClose(p, l) /\ HasClose(q, l))
      PROVE  OneClose(r)
  <2> SUFFICES ASSUME NEW i \in 1..Len(r), NEW j \in 1..Len(r),
                      r[i].kind = "close", r[j].kind = "close", r[i].line = r[j].line
               PROVE  i = j
    BY DEF OneClose
  <2>0. r[i].line \in Spots /\ i \in Int /\ j \in Int
    <3>1. r \in Seq(Ask)
      BY <1>1 DEF r
    <3>2. r[i] \in Ask
      BY <3>1
    <3> QED BY <3>2 DEF Ask, Spots
  <2>1. CASE i \in 1..Len(p) /\ r[i] = p[i] /\ j \in 1..Len(p) /\ r[j] = p[j]
    BY <1>6, <2>1 DEF OneClose
  <2>2. CASE /\ i - Len(p) \in 1..Len(q) /\ r[i] = q[i - Len(p)]
             /\ j - Len(p) \in 1..Len(q) /\ r[j] = q[j - Len(p)]
    <3>1. i - Len(p) = j - Len(p)
      BY <1>6, <2>2 DEF OneClose
    <3> QED BY <1>1, <2>0, <3>1
  <2>3. CASE /\ i \in 1..Len(p) /\ r[i] = p[i]
             /\ j - Len(p) \in 1..Len(q) /\ r[j] = q[j - Len(p)]
    BY <1>6, <2>0, <2>3 DEF HasClose
  <2>4. CASE /\ j \in 1..Len(p) /\ r[j] = p[j]
             /\ i - Len(p) \in 1..Len(q) /\ r[i] = q[i - Len(p)]
    BY <1>6, <2>0, <2>4 DEF HasClose
  <2> QED BY <1>2, <2>1, <2>2, <2>3, <2>4
<1> QED BY <1>1, <1>3, <1>4, <1>5, <1>6 DEF r
(* A session asks for the next kind.                                        *)
LEMMA AskingIs ==
  ASSUME NEW t \in SessionType, NEW kind \in Phases
  PROVE  LET rec == Asking(t, kind)
             r == [kind |-> kind, line |-> t.line, tag |-> t.tag + 1]
         IN  /\ rec \in SessionType /\ rec.at = kind /\ rec.tag = t.tag + 1 /\ rec.in = t.in
             /\ r \in Ask /\ rec.out = Append(t.out, r)
             /\ rec.line = t.line /\ rec.use = t.use
<1>1. t.tag + 1 \in Nat /\ t.line \in Lines \cup {NoLine} /\ t.out \in Seq(Ask)
  BY DEF SessionType
<1>2. [kind |-> kind, line |-> t.line, tag |-> t.tag + 1] \in Ask
  BY <1>1 DEF Ask
<1> DEFINE r == [kind |-> kind, line |-> t.line, tag |-> t.tag + 1]
<1> HIDE DEF r
<1>3. Append(t.out, r) \in Seq(Ask)
  BY <1>1, <1>2 DEF r
<1>4. Asking(t, kind) = [t EXCEPT !.at = kind, !.tag = t.tag + 1, !.out = Append(t.out, r)]
  BY DEF Asking, SessionType, r
<1>5. /\ Asking(t, kind) \in SessionType
      /\ Asking(t, kind).at = kind /\ Asking(t, kind).tag = t.tag + 1
      /\ Asking(t, kind).in = t.in /\ Asking(t, kind).out = Append(t.out, r)
      /\ Asking(t, kind).line = t.line /\ Asking(t, kind).use = t.use
  BY <1>1, <1>3, <1>4 DEF SessionType
<1> QED BY <1>2, <1>5 DEF r
(* How the numbers follow each other.                                       *)
LEMMA QueueIs ==
  ASSUME NEW S, NEW q \in Seq(S)
  PROVE  /\ Len(q) \in Nat
         /\ \A i \in 1..Len(q) : q[i] \in S
         /\ Len(q) = 0 <=> q = << >>
         /\ q # << >> => /\ Head(q) = q[1] /\ q[1] \in S /\ Tail(q) \in Seq(S) /\ Len(q) >= 1
                         /\ Len(Tail(q)) = Len(q) - 1
                         /\ \A i \in 1..(Len(q) - 1) : Tail(q)[i] = q[i + 1]
         /\ \A e \in S : /\ Append(q, e) \in Seq(S) /\ Len(Append(q, e)) = Len(q) + 1
                         /\ \A i \in 1..Len(q) : Append(q, e)[i] = q[i]
                         /\ Append(q, e)[Len(q) + 1] = e
OBVIOUS

LEMMA AskNumbered ==
  ASSUME NEW in \in Seq(Answer), NEW out \in Seq(Ask), NEW last \in Nat, NEW r \in Ask,
         Numbered(in, out, last), r.tag = last + 1
  PROVE  Numbered(in, Append(out, r), last + 1)
<1> DEFINE new == Append(out, r)
           m == Len(in)
           n == Len(out)
<1>1. /\ m \in Nat /\ n \in Nat /\ Len(new) = n + 1 /\ new[n + 1] = r
      /\ \A i \in 1..n : new[i] = out[i]
  BY QueueIs
<1>2. /\ m + n <= last
      /\ \A i \in 1..m : in[i].tag = last - n - m + i
      /\ \A i \in 1..n : out[i].tag = last - n + i
  BY DEF Numbered
<1> HIDE DEF new, m, n
<1>3. m + (n + 1) <= last + 1
  BY <1>1, <1>2
<1>4. \A i \in 1..m : in[i].tag = (last + 1) - (n + 1) - m + i
  BY <1>1, <1>2
<1>5. \A i \in 1..(n + 1) : new[i].tag = (last + 1) - (n + 1) + i
  <2> SUFFICES ASSUME NEW i \in 1..(n + 1)
               PROVE  new[i].tag = (last + 1) - (n + 1) + i
    OBVIOUS
  <2>1. CASE i \in 1..n
    <3>1. new[i] = out[i] /\ out[i].tag = last - n + i
      BY <1>1, <1>2, <2>1
    <3> QED BY <1>1, <2>1, <3>1
  <2>2. CASE i = n + 1
    <3>1. new[i].tag = last + 1
      BY <1>1, <2>2
    <3> QED BY <1>1, <2>2, <3>1
  <2> QED BY <1>1, <2>1, <2>2
<1> QED BY <1>1, <1>3, <1>4, <1>5 DEF Numbered, new, m, n

LEMMA TakeNumbered ==
  ASSUME NEW in \in Seq(Answer), NEW out \in Seq(Ask), NEW last \in Nat, in # << >>,
         Numbered(in, out, last)
  PROVE  /\ Numbered(Tail(in), out, last)
         /\ in[1].tag = last => Tail(in) = << >> /\ out = << >>
<1> DEFINE new == Tail(in)
           m == Len(in)
           n == Len(out)
<1>1. /\ m \in Nat /\ m >= 1 /\ n \in Nat /\ Len(new) = m - 1
      /\ \A i \in 1..(m - 1) : new[i] = in[i + 1]
      /\ m - 1 = 0 <=> new = << >>
      /\ n = 0 <=> out = << >>
  BY QueueIs
<1>2. /\ m + n <= last
      /\ \A i \in 1..m : in[i].tag = last - n - m + i
      /\ \A i \in 1..n : out[i].tag = last - n + i
  BY DEF Numbered
<1> HIDE DEF new, m, n
<1>3. (m - 1) + n <= last
  BY <1>1, <1>2
<1>4. \A i \in 1..(m - 1) : new[i].tag = last - n - (m - 1) + i
  <2> SUFFICES ASSUME NEW i \in 1..(m - 1)
               PROVE  new[i].tag = last - n - (m - 1) + i
    OBVIOUS
  <2>1. i + 1 \in 1..m /\ new[i] = in[i + 1]
    BY <1>1
  <2>2. in[i + 1].tag = last - n - m + (i + 1)
    BY <1>2, <2>1
  <2> QED BY <1>1, <2>1, <2>2
<1>5. ASSUME in[1].tag = last
      PROVE  m = 1 /\ n = 0
  <2>1. 1 \in 1..m
    BY <1>1
  <2>2. in[1].tag = last - n - m + 1
    BY <1>2, <2>1
  <2> QED BY <1>1, <1>5, <2>2
<1>6. Numbered(new, out, last)
  BY <1>1, <1>2, <1>3, <1>4 DEF Numbered, n
<1>7. in[1].tag = last => new = << >> /\ out = << >>
  BY <1>1, <1>5
<1> QED BY <1>6, <1>7 DEF new

LEMMA AnswerNumbered ==
  ASSUME NEW in \in Seq(Answer), NEW out \in Seq(Ask), NEW last \in Nat, out # << >>,
         NEW a \in Answer, a.tag = out[1].tag, Numbered(in, out, last)
  PROVE  /\ Numbered(Append(in, a), Tail(out), last)
         /\ Single(in, out) => /\ Single(Append(in, a), Tail(out))
                               /\ in = << >> /\ out[1].tag = last
<1> DEFINE got == Append(in, a)
           rest == Tail(out)
           m == Len(in)
           n == Len(out)
<1>1. /\ m \in Nat /\ n \in Nat /\ n >= 1 /\ Len(got) = m + 1 /\ Len(rest) = n - 1
      /\ \A i \in 1..m : got[i] = in[i]
      /\ got[m + 1] = a
      /\ \A i \in 1..(n - 1) : rest[i] = out[i + 1]
      /\ m = 0 <=> in = << >>
  BY QueueIs
<1>2. /\ m + n <= last
      /\ \A i \in 1..m : in[i].tag = last - n - m + i
      /\ \A i \in 1..n : out[i].tag = last - n + i
  BY DEF Numbered
<1>3. Single(in, out) <=> m + n = 1
  BY DEF Single
<1>4. Single(got, rest) <=> (m + 1) + (n - 1) = 1
  BY <1>1 DEF Single
<1> HIDE DEF got, rest, m, n
<1>5. (m + 1) + (n - 1) <= last
  BY <1>1, <1>2
<1>6. out[1].tag = last - n + 1
  <2>1. 1 \in 1..n
    BY <1>1
  <2> QED BY <1>2, <2>1
<1>7. \A i \in 1..(m + 1) : got[i].tag = last - (n - 1) - (m + 1) + i
  <2> SUFFICES ASSUME NEW i \in 1..(m + 1)
               PROVE  got[i].tag = last - (n - 1) - (m + 1) + i
    OBVIOUS
  <2>1. CASE i \in 1..m
    <3>1. got[i] = in[i] /\ in[i].tag = last - n - m + i
      BY <1>1, <1>2, <2>1
    <3> QED BY <1>1, <2>1, <3>1
  <2>2. CASE i = m + 1
    <3>1. got[i].tag = last - n + 1
      BY <1>1, <1>6, <2>2
    <3> QED BY <1>1, <2>2, <3>1
  <2> QED BY <1>1, <2>1, <2>2
<1>8. \A i \in 1..(n - 1) : rest[i].tag = last - (n - 1) + i
  <2> SUFFICES ASSUME NEW i \in 1..(n - 1)
               PROVE  rest[i].tag = last - (n - 1) + i
    OBVIOUS
  <2>1. i + 1 \in 1..n /\ rest[i] = out[i + 1]
    BY <1>1
  <2>2. out[i + 1].tag = last - n + (i + 1)
    BY <1>2, <2>1
  <2> QED BY <1>1, <2>1, <2>2
<1>9. Numbered(got, rest, last)
  BY <1>1, <1>5, <1>7, <1>8 DEF Numbered
<1>10. Single(in, out) => Single(got, rest) /\ in = << >> /\ out[1].tag = last
  <2>1. m + n = 1 => m = 0 /\ n = 1 /\ (m + 1) + (n - 1) = 1
    BY <1>1
  <2> QED BY <1>1, <1>3, <1>4, <1>6, <2>1
<1> QED BY <1>9, <1>10 DEF got, rest

(* What is left over of this connection is of earlier kinds; before an APDU *)
(* nothing is.                                                              *)
LEMMA AskingInOrder ==
  ASSUME NEW t \in SessionType, NEW kind \in Phases, Numbered(t.in, t.out, t.tag),
         \A i \in 1..Len(t.in) : Order[t.in[i].kind] < Order[kind] /\ t.in[i].tag <= t.tag,
         \A i \in 1..Len(t.out) : Order[t.out[i].kind] < Order[kind] /\ t.out[i].tag <= t.tag,
         kind \in {"client", "open", "apdu"} => t.in = << >> /\ t.out = << >>
  PROVE  InOrder(Asking(t, kind))
<1> DEFINE rec == Asking(t, kind)
           r == [kind |-> kind, line |-> t.line, tag |-> t.tag + 1]
<1>1. /\ rec.at = kind /\ rec.tag = t.tag + 1 /\ rec.in = t.in
      /\ r \in Ask /\ rec.out = Append(t.out, r) /\ r.kind = kind /\ r.tag = t.tag + 1
  BY AskingIs
<1>2. t.out \in Seq(Ask) /\ t.in \in Seq(Answer) /\ t.tag \in Nat
  BY DEF SessionType
<1> HIDE DEF rec, r
<1>3. Numbered(rec.in, rec.out, rec.tag)
  BY <1>1, <1>2, AskNumbered
<1>4. \A i \in 1..Len(t.in) : t.in[i] \in Answer
  BY <1>2, QueueIs
<1>5. \A i \in 1..Len(t.out) : t.out[i] \in Ask
  BY <1>2, QueueIs
<1>6. \A i \in 1..Len(rec.in) : Due(rec.in[i], rec)
  <2> SUFFICES ASSUME NEW i \in 1..Len(t.in)
               PROVE  Due(t.in[i], rec)
    BY <1>1
  <2>1. t.in[i].tag \in Nat /\ Order[t.in[i].kind] < Order[kind] /\ t.in[i].tag <= t.tag
    BY <1>4 DEF Answer
  <2> QED BY <1>1, <1>2, <2>1 DEF Due
<1>7. \A i \in 1..Len(rec.out) : Due(rec.out[i], rec)
  <2>1. Due(r, rec)
    BY <1>1 DEF Due
  <2>2. \A i \in 1..Len(t.out) : Due(t.out[i], rec)
    <3> SUFFICES ASSUME NEW i \in 1..Len(t.out)
                 PROVE  Due(t.out[i], rec)
      OBVIOUS
    <3>1. t.out[i].tag \in Nat /\ Order[t.out[i].kind] < Order[kind] /\ t.out[i].tag <= t.tag
      BY <1>5 DEF Ask
    <3> QED BY <1>1, <1>2, <3>1 DEF Due
  <2>3. \A i \in 1..Len(rec.out) :
          (i \in 1..Len(t.out) /\ rec.out[i] = t.out[i]) \/ rec.out[i] = r
    <3> DEFINE q == t.out
               w == rec.out
    <3>1. /\ Len(w) = Len(q) + 1 /\ w[Len(q) + 1] = r /\ Len(q) \in Nat
          /\ \A i \in 1..Len(q) : w[i] = q[i]
      BY <1>1, <1>2, QueueIs
    <3> HIDE DEF q, w
    <3>2. \A i \in 1..Len(w) : (i \in 1..Len(q) /\ w[i] = q[i]) \/ w[i] = r
      BY <3>1
    <3> QED BY <3>2 DEF q, w
  <2> QED BY <2>1, <2>2, <2>3
<1>8. ASSUME kind \in {"client", "open", "apdu"}
      PROVE  Single(rec.in, rec.out)
  <2>1. rec.in = << >> /\ rec.out = Append(<< >>, r)
    BY <1>1, <1>8
  <2> QED BY <2>1 DEF Single
<1>9. kind # "lock" /\ kind \in Phases
  BY DEF Phases
<1> QED BY <1>1, <1>3, <1>6, <1>7, <1>8, <1>9 DEF InOrder, rec

(* Its first answer is taken.                                               *)
LEMMA TakingIs ==
  ASSUME NEW s \in SessionType, InOrder(s), s.in # << >>
  PROVE  LET t == [s EXCEPT !.in = Tail(s.in)]
         IN  /\ t \in SessionType /\ Numbered(t.in, t.out, t.tag)
             /\ t.out = s.out /\ t.tag = s.tag
             /\ t.at = s.at /\ t.line = s.line /\ t.use = s.use /\ t.try = s.try
             /\ t.parts = s.parts /\ t.ok = s.ok
             /\ t.in = Tail(s.in) /\ Head(s.in) \in Answer /\ Head(s.in) = s.in[1]
             /\ s.at \in Phases /\ Due(Head(s.in), s)
             /\ \A i \in 1..Len(t.in) : Due(t.in[i], s)
             /\ Head(s.in).kind = s.at => t.in = << >> /\ t.out = << >>
<1>1. s.in \in Seq(Answer) /\ s.out \in Seq(Ask) /\ s.tag \in Nat /\ Numbered(s.in, s.out, s.tag)
  BY DEF SessionType, InOrder
<1>2. /\ Tail(s.in) \in Seq(Answer) /\ Head(s.in) = s.in[1] /\ s.in[1] \in Answer
      /\ Numbered(Tail(s.in), s.out, s.tag)
      /\ s.in[1].tag = s.tag => Tail(s.in) = << >> /\ s.out = << >>
  BY <1>1, QueueIs, TakeNumbered
<1> DEFINE t == [s EXCEPT !.in = Tail(s.in)]
<1>3. /\ t \in SessionType /\ t.out = s.out /\ t.tag = s.tag /\ t.at = s.at
      /\ t.line = s.line /\ t.use = s.use /\ t.in = Tail(s.in) /\ t.try = s.try
      /\ t.parts = s.parts /\ t.ok = s.ok
  BY <1>2 DEF SessionType
<1>4. s.at \in Phases /\ \A i \in 1..Len(s.in) : Due(s.in[i], s)
  BY DEF InOrder
<1>5. /\ \A i \in 1..Len(Tail(s.in)) : Due(Tail(s.in)[i], s)
      /\ Due(s.in[1], s)
  <2> DEFINE q == s.in
  <2>1. q \in Seq(Answer) /\ q # << >> /\ \A i \in 1..Len(q) : Due(q[i], s)
    BY <1>1, <1>4
  <2> HIDE DEF q
  <2>2. /\ Len(q) \in Nat /\ Len(q) >= 1 /\ Len(Tail(q)) = Len(q) - 1
        /\ \A i \in 1..(Len(q) - 1) : Tail(q)[i] = q[i + 1]
    BY <2>1, QueueIs
  <2>3. \A i \in 1..Len(Tail(q)) : Tail(q)[i] = q[i + 1] /\ i + 1 \in 1..Len(q)
    BY <2>2
  <2>4. 1 \in 1..Len(q)
    BY <2>2
  <2>5. (\A i \in 1..Len(Tail(q)) : Due(Tail(q)[i], s)) /\ Due(q[1], s)
    BY <2>1, <2>3, <2>4
  <2> QED BY <2>5 DEF q
<1>6. ASSUME s.in[1].kind = s.at
      PROVE  s.in[1].tag = s.tag
  <2>1. Order[s.at] \in Nat
    BY <1>4 DEF Order, Phases
  <2> QED BY <1>5, <1>6, <2>1 DEF Due
<1> HIDE DEF t
<1> QED BY <1>2, <1>3, <1>4, <1>5, <1>6 DEF t

AnswerTo(r, ok, line, more) ==
  [kind |-> r.kind, line |-> line, tag |-> r.tag, ok |-> ok, more |-> more]

TakesAnswer(s, ok, line, more) ==
  [s EXCEPT !.out = Tail(s.out), !.in = Append(s.in, AnswerTo(Head(s.out), ok, line, more))]

(* The modem answers the first request.                                     *)
LEMMA AnsweringIs ==
  ASSUME NEW s \in SessionType, InOrder(s), s.out # << >>,
         NEW ok \in BOOLEAN, NEW more \in BOOLEAN, NEW line \in Lines \cup {NoLine}
  PROVE  LET r == Head(s.out)
             a == AnswerTo(r, ok, line, more)
             rec == TakesAnswer(s, ok, line, more)
         IN  /\ rec \in SessionType /\ InOrder(rec)
             /\ rec.at = s.at /\ rec.line = s.line /\ rec.use = s.use
             /\ rec.out = Tail(s.out) /\ rec.in = Append(s.in, a)
             /\ s.at \in Phases /\ r \in Ask /\ Due(r, s)
             /\ s.at \in {"client", "open", "apdu"} => s.in = << >> /\ r.kind = s.at
<1> DEFINE r == Head(s.out)
           a == [kind |-> r.kind, line |-> line, tag |-> r.tag, ok |-> ok, more |-> more]
           rec == [s EXCEPT !.out = Tail(s.out), !.in = Append(s.in, a)]
<1>1. s.in \in Seq(Answer) /\ s.out \in Seq(Ask) /\ s.tag \in Nat /\ Numbered(s.in, s.out, s.tag)
  BY DEF SessionType, InOrder
<1>2. Tail(s.out) \in Seq(Ask) /\ r = s.out[1] /\ r \in Ask
  BY <1>1, QueueIs
<1> HIDE DEF r
<1>3. a \in Answer /\ a.kind = r.kind /\ a.tag = r.tag
  BY <1>2 DEF Answer, Ask
<1> HIDE DEF a
<1>4. Append(s.in, a) \in Seq(Answer)
  BY <1>1, <1>3, QueueIs
<1>5. /\ Numbered(Append(s.in, a), Tail(s.out), s.tag)
      /\ Single(s.in, s.out) => /\ Single(Append(s.in, a), Tail(s.out))
                                /\ s.in = << >> /\ r.tag = s.tag
  BY <1>1, <1>2, <1>3, AnswerNumbered
<1>6. /\ rec \in SessionType /\ rec.at = s.at /\ rec.line = s.line /\ rec.use = s.use
      /\ rec.tag = s.tag /\ rec.out = Tail(s.out) /\ rec.in = Append(s.in, a)
  BY <1>2, <1>4 DEF SessionType
<1> HIDE DEF rec
<1>7. /\ s.at \in Phases
      /\ \A i \in 1..Len(s.in) : Due(s.in[i], s)
      /\ \A i \in 1..Len(s.out) : Due(s.out[i], s)
      /\ s.at \in {"client", "open", "apdu"} => Single(s.in, s.out)
  BY DEF InOrder
<1>8. \A e : Due(e, s) => Due(e, rec)
  BY <1>6 DEF Due
<1>9. Due(r, s) /\ \A i \in 1..Len(Tail(s.out)) : Due(Tail(s.out)[i], s)
  <2> DEFINE q == s.out
  <2>1. q \in Seq(Ask) /\ q # << >> /\ \A i \in 1..Len(q) : Due(q[i], s)
    BY <1>1, <1>7
  <2> HIDE DEF q
  <2>2. /\ Len(q) \in Nat /\ Len(q) >= 1 /\ Len(Tail(q)) = Len(q) - 1
        /\ \A i \in 1..(Len(q) - 1) : Tail(q)[i] = q[i + 1]
    BY <2>1, QueueIs
  <2>3. \A i \in 1..Len(Tail(q)) : Tail(q)[i] = q[i + 1] /\ i + 1 \in 1..Len(q)
    BY <2>2
  <2>4. 1 \in 1..Len(q)
    BY <2>2
  <2>5. (\A i \in 1..Len(Tail(q)) : Due(Tail(q)[i], s)) /\ Due(q[1], s)
    BY <2>1, <2>3, <2>4
  <2> QED BY <1>2, <2>5 DEF q
<1>10. Due(a, s)
  BY <1>3, <1>9 DEF Due
<1>11. \A i \in 1..Len(Append(s.in, a)) : Due(Append(s.in, a)[i], s)
  <2> DEFINE q == s.in
  <2>1. q \in Seq(Answer) /\ \A i \in 1..Len(q) : Due(q[i], s)
    BY <1>1, <1>7
  <2> HIDE DEF q
  <2>2. /\ Len(q) \in Nat /\ Len(Append(q, a)) = Len(q) + 1 /\ Append(q, a)[Len(q) + 1] = a
        /\ \A i \in 1..Len(q) : Append(q, a)[i] = q[i]
    BY <1>3, <2>1, QueueIs
  <2>3. \A i \in 1..Len(Append(q, a)) :
          (i \in 1..Len(q) /\ Append(q, a)[i] = q[i]) \/ Append(q, a)[i] = a
    BY <2>2
  <2>4. \A i \in 1..Len(Append(q, a)) : Due(Append(q, a)[i], s)
    BY <1>10, <2>1, <2>3
  <2> QED BY <2>4 DEF q
<1>12. InOrder(rec)
  <2>1. rec.at \in Phases /\ rec.at # "lock"
    BY <1>6, <1>7 DEF Phases
  <2> QED BY <1>5, <1>6, <1>7, <1>8, <1>9, <1>11, <2>1 DEF InOrder
<1>13. ASSUME s.at \in {"client", "open", "apdu"}
       PROVE  s.in = << >> /\ r.kind = s.at
  <2>1. s.in = << >> /\ r.tag = s.tag /\ s.tag \in Nat
    BY <1>1, <1>5, <1>7, <1>13
  <2> QED BY <1>9, <2>1 DEF Due
<1> QED BY <1>2, <1>6, <1>7, <1>9, <1>12, <1>13 DEF rec, a, r, AnswerTo, TakesAnswer
(* A step of one user that leaves the channels and the claims on them.      *)
LEMMA OwnStep ==
  ASSUME ApduInv, NEW u \in Sims, NEW rec \in SessionType, NEW q \in Seq(Ask),
         session' = [session EXCEPT ![u] = rec], stray' = [stray EXCEPT ![u] = q],
         InOrder(rec), ArbiterOK', sessions' \in 0..MaxSessions, UNCHANGED <<open, leaked>>,
         OneClose(rec.out), OneClose(q),
         \A l \in Spots : /\ ~(Works(rec, l) /\ HasClose(rec.out, l))
                          /\ ~(Works(rec, l) /\ HasClose(q, l))
                          /\ ~(HasClose(rec.out, l) /\ HasClose(q, l))
                          /\ Works(rec, l) \/ HasClose(rec.out, l) \/ HasClose(q, l)
                               <=> Claims(u, l)
  PROVE  ApduInv'
<1> USE DEF ApduInv
<1>1. /\ session'[u] = rec /\ stray'[u] = q
      /\ \A w \in Sims \ {u} : session'[w] = session[w] /\ stray'[w] = stray[w]
      /\ SessionsOK'
  BY DEF SessionsOK
<1>2. OrderInv'
  BY <1>1 DEF OrderInv
<1>3. ApartInv'
  BY <1>1 DEF ApartInv, ClaimsApart
<1>4. \A w \in Sims, l \in Spots : Claims(w, l)' <=> Claims(w, l)
  BY <1>1 DEF Claims
<1>5. LinesOK' /\ OwnerInv'
  BY <1>4 DEF LinesOK, OwnerInv
<1>6. LeakInv'
  <2>1. \A l \in DOMAIN open : open[l] \in Sims /\ l \in Spots
    BY DEF LinesOK, Range, Spots
  <2>2. open' = open /\ leaked' = leaked
    OBVIOUS
  <2>3. \A l \in DOMAIN open : l \in leaked \/ Claims(open[l], l)'
    BY <1>4, <2>1 DEF LeakInv
  <2> QED BY <2>2, <2>3 DEF LeakInv, Claims
<1> QED BY <1>1, <1>2, <1>3, <1>5, <1>6

(* The session asks for what comes next.  The channel it worked with is the *)
(* one it goes on with, or asks to close.                                   *)
LEMMA GoesOnStep ==
  ASSUME ApduInv, NEW u \in Sims, NEW t \in SessionType, NEW kind \in Phases,
         GoesOn(u, t, kind), session[u].at \in Phases,
         t.out = session[u].out, t.tag = session[u].tag, t.use = session[u].use,
         Numbered(t.in, t.out, t.tag),
         \A i \in 1..Len(t.in) : Due(t.in[i], session[u]),
         \/ t.in = << >> /\ t.out = << >>
         \/ Order[session[u].at] < Order[kind] /\ kind \in {"close", "release"},
         \A l \in Spots : Works(session[u], l) <=> kind \in {"apdu", "close"} /\ t.line = l,
         sessions' \in 0..MaxSessions, UNCHANGED <<open, leaked>>
  PROVE  ApduInv'
<1> USE DEF ApduInv
<1> DEFINE rec == Asking(t, kind)
           r == [kind |-> kind, line |-> t.line, tag |-> t.tag + 1]
           s == session[u]
<1>1. /\ rec \in SessionType /\ rec.at = kind /\ rec.tag = t.tag + 1 /\ rec.in = t.in
      /\ r \in Ask /\ rec.out = Append(t.out, r) /\ r.kind = kind /\ r.line = t.line
      /\ rec.line = t.line /\ rec.use = t.use
  BY AskingIs
<1>2. /\ session' = [session EXCEPT ![u] = rec] /\ UNCHANGED <<stray, arbiter>>
      /\ stray[u] \in Seq(Ask) /\ stray \in [Sims -> Seq(Ask)]
      /\ InOrder(s) /\ ClaimsApart(u) /\ s \in SessionType
  BY DEF GoesOn, SessionsOK, OrderInv, ApartInv
<1> HIDE DEF rec, r
<1>3. /\ t.out \in Seq(Ask) /\ t.in \in Seq(Answer) /\ t.tag \in Nat /\ t.line \in Spots
      /\ \A i \in 1..Len(t.in) : t.in[i] \in Answer
      /\ \A i \in 1..Len(t.out) : t.out[i] \in Ask
  <2>1. t.out \in Seq(Ask) /\ t.in \in Seq(Answer) /\ t.tag \in Nat /\ t.line \in Spots
    BY DEF SessionType, Spots
  <2> QED BY <2>1, QueueIs
<1>4. InOrder(rec)
  <2>1. CASE t.in = << >> /\ t.out = << >>
    BY <2>1, AskingInOrder DEF rec
  <2>2. CASE Order[s.at] < Order[kind] /\ kind \in {"close", "release"}
    <3>0. \A k \in Phases : Order[k] \in Nat
      BY DEF Order, Phases
    <3>1. ASSUME NEW e, Due(e, s), e.kind \in Phases, e.tag \in Nat
          PROVE  Order[e.kind] < Order[kind] /\ e.tag <= t.tag
      <4>1. /\ Order[e.kind] \in Nat /\ Order[s.at] \in Nat /\ Order[kind] \in Nat
            /\ Order[s.at] < Order[kind]
        BY <2>2, <3>0, <3>1
      <4>2. CASE Order[e.kind] < Order[s.at] /\ e.tag < s.tag
        BY <1>3, <3>1, <4>1, <4>2
      <4>3. CASE e.kind = s.at /\ e.tag = s.tag
        BY <1>3, <4>1, <4>3
      <4> QED BY <3>1, <4>2, <4>3 DEF Due
    <3>2. \A i \in 1..Len(t.in) : Order[t.in[i].kind] < Order[kind] /\ t.in[i].tag <= t.tag
      BY <1>3, <3>1 DEF Answer
    <3>3. \A i \in 1..Len(t.out) : Order[t.out[i].kind] < Order[kind] /\ t.out[i].tag <= t.tag
      <4>1. \A i \in 1..Len(t.out) : Due(t.out[i], s)
        BY <1>2 DEF InOrder
      <4> QED BY <1>3, <3>1, <4>1 DEF Ask
    <3>4. kind \notin {"client", "open", "apdu"}
      BY <2>2
    <3> QED BY <3>2, <3>3, <3>4, AskingInOrder DEF rec
  <2> QED BY <2>1, <2>2
<1>5. \A l \in Spots : Works(rec, l) <=> kind = "apdu" /\ t.line = l
  <2>1. kind = "open" => t.in = << >>
    OBVIOUS
  <2> QED BY <1>1, <2>1 DEF Works
<1>6. /\ \A l \in Spots : HasClose(rec.out, l)
                            <=> HasClose(s.out, l) \/ (kind = "close" /\ t.line = l)
      /\ OneClose(s.out) /\ (kind = "close" => ~HasClose(s.out, t.line)) => OneClose(rec.out)
  BY <1>1, <1>3, CloseAppended
<1>7. /\ OneClose(s.out) /\ OneClose(stray[u])
      /\ \A l \in Spots : /\ ~(Works(s, l) /\ HasClose(s.out, l))
                          /\ ~(Works(s, l) /\ HasClose(stray[u], l))
                          /\ ~(HasClose(s.out, l) /\ HasClose(stray[u], l))
  BY <1>2 DEF ClaimsApart
<1>8. kind = "close" => Works(s, t.line)
  BY <1>3
<1>9. OneClose(rec.out)
  BY <1>3, <1>6, <1>7, <1>8
<1>10. \A l \in Spots : /\ ~(Works(rec, l) /\ HasClose(rec.out, l))
                        /\ ~(Works(rec, l) /\ HasClose(stray[u], l))
                        /\ ~(HasClose(rec.out, l) /\ HasClose(stray[u], l))
                        /\ Works(rec, l) \/ HasClose(rec.out, l) \/ HasClose(stray[u], l)
                             <=> Claims(u, l)
  BY <1>3, <1>5, <1>6, <1>7 DEF Claims
<1>11. stray' = [stray EXCEPT ![u] = stray[u]]
  BY <1>2
<1>12. ArbiterOK'
  BY <1>1, <1>2 DEF ArbiterOK, SessionsOK
<1> QED BY <1>1, <1>2, <1>4, <1>7, <1>9, <1>10, <1>11, <1>12, OwnStep

(* The first request on a new connection.                                   *)
LEMMA FirstAsk ==
  ASSUME NEW t \in SessionType, t.in = << >>, t.out = << >>
  PROVE  LET rec == Asking(t, "client")
         IN  /\ rec \in SessionType /\ rec.at = "client" /\ rec.use = t.use
             /\ InOrder(rec) /\ OneClose(rec.out)
             /\ \A l \in Spots : ~Works(rec, l) /\ ~HasClose(rec.out, l)
<1> DEFINE r == [kind |-> "client", line |-> t.line, tag |-> t.tag + 1]
           rec == Asking(t, "client")
<1>1. "client" \in Phases /\ t.tag \in Nat
  BY DEF Phases, SessionType
<1>2. /\ rec \in SessionType /\ rec.at = "client" /\ rec.out = Append(<< >>, r) /\ r \in Ask
      /\ r.kind = "client" /\ rec.use = t.use
  BY <1>1, AskingIs
<1>3. Numbered(t.in, t.out, t.tag)
  BY <1>1 DEF Numbered
<1>4. InOrder(rec)
  BY <1>1, <1>3, AskingInOrder
<1> HIDE DEF rec, r
<1>5. << >> \in Seq(Ask) /\ OneClose(<< >>) /\ \A l \in Spots : ~HasClose(<< >>, l)
  BY DEF OneClose, HasClose
<1>6. /\ \A l \in Spots : HasClose(Append(<< >>, r), l)
                            <=> HasClose(<< >>, l) \/ (r.kind = "close" /\ r.line = l)
      /\ OneClose(<< >>) /\ (r.kind = "close" => ~HasClose(<< >>, r.line))
           => OneClose(Append(<< >>, r))
  BY <1>2, <1>5, CloseAppended
<1>7. OneClose(rec.out) /\ \A l \in Spots : ~HasClose(rec.out, l)
  BY <1>2, <1>5, <1>6
<1>8. \A l \in Spots : ~Works(rec, l)
  BY <1>2 DEF Works
<1> QED BY <1>2, <1>4, <1>7, <1>8 DEF rec

(* The connection is closed; its requests are left to the modem.            *)
LEMMA ClosesStep ==
  ASSUME ApduInv, NEW u \in Sims, NEW t \in SessionType, Closes(u, t),
         t.out = session[u].out, \A l \in Spots : ~Works(session[u], l),
         sessions' \in 0..MaxSessions, UNCHANGED <<open, leaked>>
  PROVE  ApduInv'
<1> USE DEF ApduInv
<1> DEFINE s == session[u]
           q == stray[u] \o s.out
           first == [Unused EXCEPT !.use = t.use, !.try = t.try + 1]
           next == IF session' = [session EXCEPT ![u] = Unused] THEN Unused
                   ELSE Asking(first, "client")
<1>1. /\ s \in SessionType /\ s.out \in Seq(Ask) /\ stray[u] \in Seq(Ask)
      /\ ClaimsApart(u) /\ stray' = [stray EXCEPT ![u] = q]
      /\ arbiter' = IF arbiter = u THEN "none" ELSE arbiter
  BY DEF Closes, SessionsOK, ApartInv, SessionType
<1>2. /\ q \in Seq(Ask) /\ OneClose(q)
      /\ \A l \in Spots : HasClose(q, l) <=> Claims(u, l)
  BY <1>1, CloseJoined DEF ClaimsApart, Claims
<1>3. /\ next \in SessionType /\ InOrder(next) /\ OneClose(next.out)
      /\ \A l \in Spots : ~Works(next, l) /\ ~HasClose(next.out, l)
      /\ session' = [session EXCEPT ![u] = next]
  <2>1. CASE session' = [session EXCEPT ![u] = Unused]
    BY <2>1, UnusedIs
  <2>2. CASE session' # [session EXCEPT ![u] = Unused]
    <3>1. t.try < Attempts /\ session' = [session EXCEPT ![u] = Asking(first, "client")]
      BY <2>2 DEF Closes
    <3>2. /\ first \in SessionType /\ first.in = << >> /\ first.out = << >> /\ first.tag = 0
      <4>1. t.try + 1 \in 1..Attempts /\ t.use \in Uses
        BY <3>1, ApduAssumption DEF SessionType
      <4> QED BY <4>1, UnusedIs DEF SessionType
    <3> HIDE DEF first
    <3>3. next = Asking(first, "client")
      BY <2>2
    <3> QED BY <3>1, <3>2, <3>3, FirstAsk
  <2> QED BY <2>1, <2>2
<1> HIDE DEF next, q
<1>4. ArbiterOK'
  BY <1>1, <1>3, ApduAssumption DEF ArbiterOK, SessionsOK
<1>5. \A l \in Spots : /\ ~(Works(next, l) /\ HasClose(next.out, l))
                       /\ ~(Works(next, l) /\ HasClose(q, l))
                       /\ ~(HasClose(next.out, l) /\ HasClose(q, l))
                       /\ Works(next, l) \/ HasClose(next.out, l) \/ HasClose(q, l)
                            <=> Claims(u, l)
  BY <1>2, <1>3
<1> QED BY <1>1, <1>2, <1>3, <1>4, <1>5, OwnStep
(* A session that has no connection gets one, or waits for the arbiter.     *)
LEMMA BeginsStep ==
  ASSUME ApduInv, NEW u \in Sims, session[u].at \notin Phases, NEW rec \in SessionType,
         session' = [session EXCEPT ![u] = rec], InOrder(rec), OneClose(rec.out),
         \A l \in Spots : ~Works(rec, l) /\ ~HasClose(rec.out, l),
         UNCHANGED <<stray, open, leaked>>, ArbiterOK', sessions' \in 0..MaxSessions
  PROVE  ApduInv'
<1> USE DEF ApduInv
<1>1. /\ stray[u] \in Seq(Ask) /\ stray' = [stray EXCEPT ![u] = stray[u]]
      /\ InOrder(session[u]) /\ OneClose(stray[u])
  BY DEF SessionsOK, OrderInv, ApartInv, ClaimsApart
<1>2. \A l \in Spots : Claims(u, l) <=> HasClose(stray[u], l)
  <2>1. session[u].out = << >>
    BY <1>1 DEF InOrder
  <2>2. \A l : ~HasClose(session[u].out, l)
    BY <2>1 DEF HasClose
  <2>3. \A l : ~Works(session[u], l)
    BY DEF Works, Phases
  <2> QED BY <2>2, <2>3 DEF Claims
<1> QED BY <1>1, <1>2, OwnStep

LEMMA StartSessionStep ==
  ASSUME ApduInv, NEW u \in Sims, NEW use \in Uses, StartSession(u, use)
  PROVE  ApduInv'
<1> DEFINE lock == [Unused EXCEPT !.at = "lock"]
           ask == [Unused EXCEPT !.use = use]
           rec == IF use = "service" THEN lock ELSE Asking(ask, "client")
<1>1. /\ session[u].at = "idle" /\ sessions < MaxSessions /\ sessions' = sessions + 1
      /\ session' = [session EXCEPT ![u] = rec] /\ UNCHANGED <<stray, open, arbiter, leaked>>
  BY DEF StartSession, Budget
<1>2. sessions' \in 0..MaxSessions /\ session[u].at \notin Phases
  BY <1>1, ApduAssumption DEF ApduInv, SessionsOK, Phases
<1>3. /\ rec \in SessionType /\ InOrder(rec) /\ OneClose(rec.out)
      /\ \A l \in Spots : ~Works(rec, l) /\ ~HasClose(rec.out, l)
  <2>1. CASE use = "service"
    <3>1. /\ lock \in SessionType /\ lock.at = "lock" /\ lock.use = "service" /\ lock.tag = 0
          /\ lock.in = << >> /\ lock.out = << >>
      BY UnusedIs DEF SessionType
    <3> HIDE DEF lock
    <3>2. InOrder(lock) /\ OneClose(lock.out)
      BY <3>1 DEF InOrder, Numbered, OneClose, Phases
    <3>3. \A l \in Spots : ~Works(lock, l) /\ ~HasClose(lock.out, l)
      BY <3>1 DEF Works, HasClose
    <3> QED BY <2>1, <3>1, <3>2, <3>3
  <2>2. CASE use # "service"
    <3>1. ask \in SessionType /\ ask.in = << >> /\ ask.out = << >>
      BY UnusedIs DEF SessionType
    <3> HIDE DEF ask
    <3> QED BY <2>2, <3>1, FirstAsk
  <2> QED BY <2>1, <2>2
<1> HIDE DEF rec
<1>4. ArbiterOK'
  BY <1>1, <1>2 DEF ApduInv, ArbiterOK, SessionsOK
<1> QED BY <1>1, <1>2, <1>3, <1>4, BeginsStep

LEMMA TakeArbiterStep ==
  ASSUME ApduInv, NEW u \in Sims, TakeArbiter(u)
  PROVE  ApduInv'
<1> DEFINE rec == Asking(session[u], "client")
<1>1. /\ session[u].at = "lock" /\ arbiter' = u /\ session' = [session EXCEPT ![u] = rec]
      /\ UNCHANGED <<stray, open, leaked, sessions>>
  BY DEF TakeArbiter
<1>2. /\ session[u] \in SessionType /\ session[u].in = << >> /\ session[u].out = << >>
      /\ session[u].use = "service" /\ session[u].at \notin Phases
      /\ sessions' \in 0..MaxSessions /\ session \in [Sims -> SessionType]
  BY <1>1 DEF ApduInv, SessionsOK, OrderInv, InOrder, Phases
<1>3. /\ rec \in SessionType /\ rec.at = "client" /\ rec.use = "service"
      /\ InOrder(rec) /\ OneClose(rec.out)
      /\ \A l \in Spots : ~Works(rec, l) /\ ~HasClose(rec.out, l)
  BY <1>2, FirstAsk
<1> HIDE DEF rec
<1>4. ArbiterOK'
  BY <1>1, <1>2, <1>3 DEF ArbiterOK, Phases
<1> QED BY <1>1, <1>2, <1>3, <1>4, BeginsStep

(* The first error of an exchange.                                          *)
LEMMA FailsStep ==
  ASSUME ApduInv, NEW u \in Sims, NEW t \in SessionType, Fails(u, t),
         t.at = session[u].at, session[u].at \in Phases,
         t.out = session[u].out, t.tag = session[u].tag, t.use = session[u].use,
         t.line = session[u].line, Numbered(t.in, t.out, t.tag),
         \A i \in 1..Len(t.in) : Due(t.in[i], session[u]),
         session[u].at = "open" => \A l \in Spots : ~Works(session[u], l),
         sessions' \in 0..MaxSessions, UNCHANGED <<open, leaked>>
  PROVE  ApduInv'
<1> DEFINE s == session[u]
<1>1. s.at # "apdu" => \A l \in Spots : ~Works(s, l)
  BY DEF Works
<1>2. s.at = "apdu" => \A l \in Spots : Works(s, l) <=> t.line = l
  BY DEF Works
<1>3. /\ Order["client"] = 1 /\ Order["open"] = 2 /\ Order["apdu"] = 3
      /\ Order["close"] = 4 /\ Order["release"] = 5
      /\ "close" \in Phases /\ "release" \in Phases
  BY DEF Order, Phases
<1>4. CASE Closes(u, t) /\ s.at # "apdu"
  BY <1>1, <1>4, ClosesStep
<1>5. CASE GoesOn(u, t, "release") /\ s.at \in {"open", "close"}
  BY <1>1, <1>3, <1>5, GoesOnStep
<1>6. CASE GoesOn(u, t, "close") /\ s.at = "apdu"
  BY <1>2, <1>3, <1>6, GoesOnStep
<1>7. \/ Closes(u, t) /\ s.at # "apdu"
      \/ GoesOn(u, t, "release") /\ s.at \in {"open", "close"}
      \/ GoesOn(u, t, "close") /\ s.at = "apdu"
  BY DEF Fails, Phases
<1> QED BY <1>4, <1>5, <1>6, <1>7

LEMMA FailingIs ==
  ASSUME NEW t \in SessionType
  PROVE  /\ Failing(t) \in SessionType /\ Failing(t).at = t.at /\ Failing(t).use = t.use
         /\ Failing(t).line = t.line /\ Failing(t).tag = t.tag
         /\ Failing(t).in = t.in /\ Failing(t).out = t.out
<1>1. (t.ok /\ t.at \in {"close", "release"}) \in BOOLEAN
  OBVIOUS
<1> DEFINE b == t.ok /\ t.at \in {"close", "release"}
<1>2. Failing(t) = [t EXCEPT !.ok = b]
  BY DEF Failing, SessionType
<1> HIDE DEF b
<1>3. b \in BOOLEAN
  BY <1>1 DEF b
<1> QED BY <1>2, <1>3 DEF SessionType

LEMMA TimesOutStep ==
  ASSUME ApduInv, NEW u \in Sims, TimesOut(u)
  PROVE  ApduInv'
<1> DEFINE s == session[u]
<1>1. /\ s.at \in Phases /\ s.in = << >> /\ Fails(u, Failing(s))
      /\ sessions' \in 0..MaxSessions /\ UNCHANGED <<open, leaked>>
  BY ApduAssumption DEF TimesOut, Budget, ApduInv, SessionsOK
<1>2. s \in SessionType /\ Numbered(s.in, s.out, s.tag)
  BY DEF ApduInv, SessionsOK, OrderInv, InOrder
<1>3. s.at = "open" => \A l \in Spots : ~Works(s, l)
  BY <1>1 DEF Works
<1>4. \A i \in 1..Len(s.in) : Due(s.in[i], s)
  BY <1>1
<1> QED BY <1>1, <1>2, <1>3, <1>4, FailingIs, FailsStep
LEMMA SucceedsStep ==
  ASSUME ApduInv, NEW u \in Sims, NEW t \in SessionType, NEW a \in Answer, Succeeds(u, t, a),
         a = session[u].in[1], session[u].in # << >>, a.kind = session[u].at, a.ok,
         t.at = session[u].at, session[u].at \in Phases,
         t.out = session[u].out, t.tag = session[u].tag, t.use = session[u].use,
         t.line = session[u].line, Numbered(t.in, t.out, t.tag),
         t.in = << >>, t.out = << >>,
         sessions' \in 0..MaxSessions, UNCHANGED <<open, leaked>>
  PROVE  ApduInv'
<1> DEFINE s == session[u]
<1>1. {"open", "apdu", "close", "release"} \subseteq Phases
  BY DEF Phases
<1>2. \A i \in 1..Len(t.in) : Due(t.in[i], s)
  OBVIOUS
<1>3. CASE a.kind = "client"
  <2>1. GoesOn(u, t, "open")
    BY <1>3 DEF Succeeds
  <2>2. \A l \in Spots : ~Works(s, l)
    BY <1>3 DEF Works
  <2> QED BY <1>1, <1>2, <2>1, <2>2, GoesOnStep
<1>4. CASE a.kind = "open"
  <2>1. PICK next \in {"apdu", "close"} :
          GoesOn(u, [t EXCEPT !.line = a.line, !.ok = (next = "apdu" \/ t.use # "retried")], next)
    BY <1>4 DEF Succeeds
  <2> DEFINE t2 == [t EXCEPT !.line = a.line, !.ok = (next = "apdu" \/ t.use # "retried")]
  <2>2. /\ t2 \in SessionType /\ t2.line = a.line /\ t2.out = t.out /\ t2.in = t.in
        /\ t2.tag = t.tag /\ t2.use = t.use
    BY DEF SessionType, Answer
  <2>3. GoesOn(u, t2, next) /\ \A l \in Spots : Works(s, l) <=> a.line = l
    BY <1>4, <2>1 DEF Works
  <2> HIDE DEF t2
  <2>4. /\ next \in Phases /\ t2.in = << >> /\ t2.out = << >>
        /\ \A l \in Spots : Works(s, l) <=> next \in {"apdu", "close"} /\ t2.line = l
    BY <1>1, <2>1, <2>2, <2>3
  <2>5. \A i \in 1..Len(t2.in) : Due(t2.in[i], s)
    BY <2>4
  <2> QED BY <2>2, <2>3, <2>4, <2>5, GoesOnStep
<1>5. CASE a.kind = "apdu"
  <2>1. \A l \in Spots : Works(s, l) <=> t.line = l
    BY <1>5 DEF Works
  <2>2. CASE a.more /\ t.parts + 1 < MaxParts(t.use)
    <3> DEFINE t2 == [t EXCEPT !.parts = t.parts + 1]
    <3>1. GoesOn(u, t2, "apdu")
      BY <1>5, <2>2 DEF Succeeds
    <3>2. t.parts + 1 \in 0..MaxExchanges
      <4>1. t.parts \in Nat /\ MaxExchanges \in Nat /\ MaxExchanges >= 1
        BY ApduAssumption DEF SessionType
      <4>2. MaxParts(t.use) \in {MaxExchanges, 2, 1}
        BY DEF MaxParts
      <4> QED BY <2>2, <4>1, <4>2
    <3>3. /\ t2 \in SessionType /\ t2.line = t.line /\ t2.out = t.out /\ t2.in = t.in
          /\ t2.tag = t.tag /\ t2.use = t.use
      BY <3>2 DEF SessionType
    <3> HIDE DEF t2
    <3> QED BY <1>1, <1>2, <2>1, <3>1, <3>3, GoesOnStep
  <2>3. CASE ~(a.more /\ t.parts + 1 < MaxParts(t.use))
    <3> DEFINE t2 == [t EXCEPT !.ok = ~a.more]
    <3>1. GoesOn(u, t2, "close")
      BY <1>5, <2>3 DEF Succeeds
    <3>2. /\ t2 \in SessionType /\ t2.line = t.line /\ t2.out = t.out /\ t2.in = t.in
          /\ t2.tag = t.tag /\ t2.use = t.use
      BY DEF SessionType
    <3> HIDE DEF t2
    <3> QED BY <1>1, <1>2, <2>1, <3>1, <3>2, GoesOnStep
  <2> QED BY <2>2, <2>3
<1>6. CASE a.kind = "close"
  <2>1. GoesOn(u, t, "release")
    BY <1>6 DEF Succeeds
  <2>2. \A l \in Spots : ~Works(s, l)
    BY <1>6 DEF Works
  <2> QED BY <1>1, <1>2, <2>1, <2>2, GoesOnStep
<1>7. CASE a.kind = "release"
  <2>1. Closes(u, t)
    BY <1>7 DEF Succeeds
  <2>2. \A l \in Spots : ~Works(s, l)
    BY <1>7 DEF Works
  <2> QED BY <2>1, <2>2, ClosesStep
<1> QED BY <1>3, <1>4, <1>5, <1>6, <1>7 DEF Phases

(* A use that ends with its channel open: nobody claims the channel any     *)
(* more, and it is leaked.                                                  *)
LEMMA LeavesOpenStep ==
  ASSUME ApduInv, NEW u \in Sims, NEW t \in SessionType, NEW a \in Answer, LeavesOpen(u, t, a),
         a = session[u].in[1], session[u].in # << >>, a.kind = session[u].at, a.ok,
         t.at = session[u].at, t.use = session[u].use, t.out = << >>, session[u].out = << >>,
         sessions' \in 0..MaxSessions, UNCHANGED open
  PROVE  ApduInv'
<1> USE DEF ApduInv
<1> DEFINE s == session[u]
<1>1. /\ s \in SessionType /\ stray[u] \in Seq(Ask) /\ ClaimsApart(u)
      /\ session \in [Sims -> SessionType] /\ stray \in [Sims -> Seq(Ask)]
  BY DEF SessionsOK, ApartInv
<1>2. /\ s.at = "open" /\ s.use = "single" /\ a.kind = "open"
      /\ session' = [session EXCEPT ![u] = Unused]
      /\ arbiter' = (IF arbiter = u THEN "none" ELSE arbiter)
      /\ leaked' = leaked \cup {a.line}
  <2>1. /\ a.kind = "open" /\ t.use = "single" /\ Closes(u, [t EXCEPT !.ok = FALSE])
        /\ leaked' = leaked \cup {a.line}
    BY DEF LeavesOpen
  <2>2. [t EXCEPT !.ok = FALSE].use = "single"
    BY <2>1 DEF SessionType
  <2> QED BY <2>1, <2>2 DEF Closes
<1>3. stray' = stray
  <2>1. [t EXCEPT !.ok = FALSE].out = << >>
    BY DEF SessionType
  <2>2. stray' = [stray EXCEPT ![u] = stray[u] \o << >>]
    BY <2>1 DEF LeavesOpen, Closes
  <2>3. stray[u] \o << >> = stray[u]
    BY <1>1
  <2> QED BY <1>1, <2>2, <2>3
<1>4. /\ session'[u] = Unused
      /\ \A w \in Sims \ {u} : session'[w] = session[w]
      /\ SessionsOK'
  BY <1>1, <1>2, <1>3, UnusedIs DEF SessionsOK
<1>5. \A l \in Spots : Works(s, l) <=> a.line = l
  BY <1>2 DEF Works
<1>6. /\ \A w \in Sims \ {u}, l \in Spots : Claims(w, l)' <=> Claims(w, l)
      /\ \A l \in Spots : Claims(u, l)' <=> HasClose(stray[u], l)
      /\ \A l \in Spots : Claims(u, l) => HasClose(stray[u], l) \/ l = a.line
  <2>1. \A l : ~HasClose(s.out, l)
    BY DEF HasClose
  <2> QED BY <1>3, <1>4, <1>5, <2>1, UnusedIs DEF Claims
<1>7. a.line \in Lines
  <2>1. a.line \in Spots
    BY DEF Answer, Spots
  <2> QED BY <1>5, <2>1 DEF OwnerInv, Claims, LinesOK
<1>8. LinesOK'
  BY <1>2, <1>7 DEF LinesOK, Range
<1>9. ArbiterOK'
  BY <1>1, <1>2, <1>4, UnusedIs, ApduAssumption DEF ArbiterOK
<1>10. OrderInv'
  BY <1>4, UnusedIs DEF OrderInv
<1>11. ApartInv'
  BY <1>1, <1>3, <1>4, UnusedIs DEF ApartInv, ClaimsApart
<1>12. OwnerInv'
  <2> SUFFICES ASSUME NEW w \in Sims, NEW l \in Spots, Claims(w, l)'
               PROVE  l \in DOMAIN open' /\ open'[l] = w
    BY DEF OwnerInv
  <2>1. Claims(w, l)
    BY <1>6 DEF Claims
  <2> QED BY <2>1 DEF OwnerInv
<1>13. LeakInv'
  <2> SUFFICES ASSUME NEW l \in DOMAIN open', l \notin leaked'
               PROVE  Claims(open[l], l)'
    BY DEF LeakInv
  <2>1. /\ l \in DOMAIN open /\ l # a.line /\ Claims(open[l], l)
        /\ open[l] \in Sims /\ l \in Spots
    BY <1>2 DEF LeakInv, LinesOK, Range, Spots
  <2>2. \A w \in Sims : w = open[l] => Claims(w, l)'
    BY <1>6, <2>1
  <2> QED BY <2>1, <2>2 DEF Claims
<1> QED BY <1>4, <1>8, <1>9, <1>10, <1>11, <1>12, <1>13

LEMMA ReadsStep ==
  ASSUME ApduInv, NEW u \in Sims, Reads(u)
  PROVE  ApduInv'
<1> DEFINE s == session[u]
           a == Head(s.in)
           t == [s EXCEPT !.in = Tail(s.in)]
<1>1. /\ s \in SessionType /\ InOrder(s) /\ s.in # << >>
      /\ sessions' \in 0..MaxSessions /\ UNCHANGED open
  BY DEF Reads, ApduInv, SessionsOK, OrderInv
<1>2. \/ a.kind = s.at /\ a.ok /\ Succeeds(u, t, a) /\ UNCHANGED leaked
      \/ a.kind = s.at /\ a.ok /\ LeavesOpen(u, t, a)
      \/ ~(a.kind = s.at /\ a.ok) /\ Fails(u, Failing(t)) /\ UNCHANGED leaked
  BY DEF Reads
<1>3. /\ t \in SessionType /\ Numbered(t.in, t.out, t.tag)
      /\ t.out = s.out /\ t.tag = s.tag /\ t.at = s.at /\ t.line = s.line /\ t.use = s.use
      /\ a \in Answer /\ a = s.in[1] /\ s.at \in Phases
      /\ \A i \in 1..Len(t.in) : Due(t.in[i], s)
      /\ a.kind = s.at => t.in = << >> /\ t.out = << >>
  BY <1>1, TakingIs
<1> HIDE DEF a, t
<1>4. CASE a.kind = s.at /\ a.ok /\ Succeeds(u, t, a) /\ UNCHANGED leaked
  BY <1>1, <1>3, <1>4, SucceedsStep
<1>5. CASE a.kind = s.at /\ a.ok /\ LeavesOpen(u, t, a)
  BY <1>1, <1>3, <1>5, LeavesOpenStep
<1>6. CASE ~(a.kind = s.at /\ a.ok)
  <2>1. s.at = "open" => \A l \in Spots : ~Works(s, l)
    BY <1>3, <1>6 DEF Works
  <2>2. Fails(u, Failing(t)) /\ UNCHANGED leaked
    BY <1>2, <1>6
  <2> QED BY <1>1, <1>3, <2>1, <2>2, FailingIs, FailsStep
<1> QED BY <1>2, <1>4, <1>5, <1>6
(* What a user claims with this session, and these requests left behind.    *)
Claimed(rec, q, l) == Works(rec, l) \/ HasClose(rec.out, l) \/ HasClose(q, l)

(* A step of one user that may change the channels.                         *)
LEMMA CardStep ==
  ASSUME ApduInv, NEW u \in Sims, NEW rec \in SessionType, NEW q \in Seq(Ask),
         session' = [session EXCEPT ![u] = rec], stray' = [stray EXCEPT ![u] = q],
         InOrder(rec), rec.at = session[u].at, rec.use = session[u].use,
         UNCHANGED arbiter, sessions' \in 0..MaxSessions, LinesOK',
         OneClose(rec.out), OneClose(q),
         \A l \in Spots : /\ ~(Works(rec, l) /\ HasClose(rec.out, l))
                          /\ ~(Works(rec, l) /\ HasClose(q, l))
                          /\ ~(HasClose(rec.out, l) /\ HasClose(q, l)),
         \A w \in Sims \ {u}, l \in Spots :
           Claims(w, l) => l \in DOMAIN open' /\ open'[l] = w,
         \A l \in Spots : Claimed(rec, q, l) => l \in DOMAIN open' /\ open'[l] = u,
         \A l \in DOMAIN open' : \/ l \in leaked'
                                 \/ open'[l] = u /\ Claimed(rec, q, l)
                                 \/ open'[l] # u /\ Claims(open'[l], l)
  PROVE  ApduInv'
<1> USE DEF ApduInv
<1>1. /\ session'[u] = rec /\ stray'[u] = q
      /\ \A w \in Sims \ {u} : session'[w] = session[w] /\ stray'[w] = stray[w]
      /\ SessionsOK'
  BY DEF SessionsOK
<1>2. OrderInv'
  BY <1>1 DEF OrderInv
<1>3. ApartInv'
  BY <1>1 DEF ApartInv, ClaimsApart
<1>4. /\ \A w \in Sims \ {u}, l \in Spots : Claims(w, l)' <=> Claims(w, l)
      /\ \A l \in Spots : Claims(u, l)' <=> Claimed(rec, q, l)
  BY <1>1 DEF Claims, Claimed
<1>5. OwnerInv'
  <2> SUFFICES ASSUME NEW w \in Sims, NEW l \in Spots, Claims(w, l)'
               PROVE  l \in DOMAIN open' /\ open'[l] = w
    BY DEF OwnerInv
  <2> QED BY <1>4
<1>6. LeakInv'
  <2> SUFFICES ASSUME NEW l \in DOMAIN open', l \notin leaked'
               PROVE  Claims(open[l], l)'
    BY DEF LeakInv
  <2>1. open'[l] \in Sims /\ l \in Spots
    BY DEF LinesOK, Range, Spots
  <2>2. CASE open'[l] = u
    <3>1. Claims(u, l)'
      BY <1>4, <2>1, <2>2
    <3> QED BY <2>2, <3>1 DEF Claims
  <2>3. CASE open'[l] # u
    <3>1. \A w \in Sims : w = open'[l] => Claims(w, l)'
      BY <1>4, <2>1, <2>3
    <3> QED BY <2>1, <3>1 DEF Claims
  <2> QED BY <2>2, <2>3
<1>7. ArbiterOK'
  BY <1>1 DEF ArbiterOK, SessionsOK
<1> QED BY <1>1, <1>2, <1>3, <1>5, <1>6, <1>7

(* A channel is opened: the session works with it, or it is leaked.         *)
LEMMA OpensIs ==
  ASSUME ApduInv, NEW u \in Sims, NEW l \in Lines, NEW waited \in BOOLEAN, Opens(u, waited, l)
  PROVE  /\ LinesOK' /\ l \notin DOMAIN open /\ ~Claims(u, l)
         /\ DOMAIN open' = DOMAIN open \cup {l} /\ open'[l] = u
         /\ \A m \in DOMAIN open : open'[m] = open[m]
         /\ leaked' = IF waited THEN leaked ELSE leaked \cup {l}
<1>1. /\ l \notin DOMAIN open
      /\ open' = [m \in DOMAIN open \cup {l} |-> IF m = l THEN u ELSE open[m]]
      /\ leaked' = IF waited THEN leaked ELSE leaked \cup {l}
  BY DEF Opens
<1>2. /\ DOMAIN open' = DOMAIN open \cup {l} /\ open'[l] = u
      /\ \A m \in DOMAIN open : open'[m] = open[m]
  BY <1>1
<1>3. LinesOK'
  BY <1>1, <1>2 DEF ApduInv, LinesOK, Range
<1>4. ~Claims(u, l)
  BY <1>1 DEF ApduInv, OwnerInv, Spots
<1> QED BY <1>1, <1>2, <1>3, <1>4

(* A channel that the user claims is closed, or refused to be.              *)
LEMMA GivenBackIs ==
  ASSUME ApduInv, NEW u \in Sims, NEW l \in Spots, Claims(u, l),
         \/ open' = Restrict(open, DOMAIN open \ {l}) /\ UNCHANGED leaked
         \/ leaked' = leaked \cup {l} /\ UNCHANGED open
  PROVE  /\ LinesOK' /\ l \in Lines
         /\ \A w \in Sims \ {u} : ~Claims(w, l)
         /\ \A m \in DOMAIN open \ {l} : m \in DOMAIN open' /\ open'[m] = open[m]
         /\ \A m \in DOMAIN open' : m \in DOMAIN open /\ open'[m] = open[m]
         /\ leaked \subseteq leaked'
         /\ l \in DOMAIN open' => l \in leaked'
<1>1. l \in DOMAIN open /\ open[l] = u /\ l \in Lines
  BY DEF ApduInv, OwnerInv, LinesOK
<1>2. \A w \in Sims \ {u} : ~Claims(w, l)
  BY <1>1 DEF ApduInv, OwnerInv
<1>3. CASE open' = Restrict(open, DOMAIN open \ {l}) /\ UNCHANGED leaked
  <2>1. DOMAIN open' = DOMAIN open \ {l} /\ \A m \in DOMAIN open \ {l} : open'[m] = open[m]
    BY <1>3 DEF Restrict
  <2> QED BY <1>1, <1>2, <1>3, <2>1 DEF ApduInv, LinesOK, Range
<1>4. CASE leaked' = leaked \cup {l} /\ UNCHANGED open
  BY <1>1, <1>2, <1>4 DEF ApduInv, LinesOK, Range
<1> QED BY <1>3, <1>4

(* What the modem does for a connection that is closed.                     *)
LEMMA ServeStrayStep ==
  ASSUME ApduInv, NEW u \in Sims, ServeStray(u)
  PROVE  ApduInv'
<1> DEFINE s == session[u]
           r == Head(stray[u])
           q == Tail(stray[u])
<1>1. /\ stray[u] # << >> /\ stray[u] \in Seq(Ask) /\ stray' = [stray EXCEPT ![u] = q]
      /\ UNCHANGED <<session, arbiter, sessions>> /\ sessions' \in 0..MaxSessions
      /\ s \in SessionType /\ InOrder(s) /\ session \in [Sims -> SessionType] /\ ClaimsApart(u)
  BY DEF ServeStray, ApduInv, SessionsOK, OrderInv, ApartInv
<1>2. /\ q \in Seq(Ask) /\ r \in Ask
      /\ \A l \in Spots : /\ HasClose(q, l) => HasClose(stray[u], l)
                          /\ HasClose(stray[u], l) => \/ HasClose(q, l)
                                                      \/ r.kind = "close" /\ r.line = l
                          /\ r.kind = "close" /\ r.line = l => HasClose(stray[u], l)
      /\ OneClose(stray[u]) => /\ OneClose(q)
                               /\ r.kind = "close" => ~HasClose(q, r.line)
  BY <1>1, CloseTaken
<1>3. /\ \/ r.kind = "open" /\ \E l \in Lines : Opens(u, FALSE, l)
         \/ r.kind = "close" /\ open' = Restrict(open, DOMAIN open \ {r.line}) /\ UNCHANGED leaked
         \/ r.kind = "close" /\ leaked' = leaked \cup {r.line} /\ UNCHANGED open
         \/ r.kind # "close" /\ UNCHANGED <<open, leaked>>
  BY DEF ServeStray
<1> HIDE DEF q, r
<1>4. /\ OneClose(s.out) /\ OneClose(q) /\ OneClose(stray[u])
      /\ session' = [session EXCEPT ![u] = s]
      /\ \A l \in Spots : /\ ~(Works(s, l) /\ HasClose(s.out, l))
                          /\ ~(Works(s, l) /\ HasClose(stray[u], l))
                          /\ ~(HasClose(s.out, l) /\ HasClose(stray[u], l))
                          /\ ~(Works(s, l) /\ HasClose(q, l))
                          /\ ~(HasClose(s.out, l) /\ HasClose(q, l))
  BY <1>1, <1>2 DEF ClaimsApart
<1>5. \A l \in Spots : Claims(u, l) <=> Claimed(s, q, l) \/ (r.kind = "close" /\ r.line = l)
  BY <1>2 DEF Claims, Claimed
<1>6. r.kind = "close" => r.line \in Spots /\ ~Claimed(s, q, r.line)
  BY <1>2, <1>4 DEF Ask, Spots, Claimed
<1>7. /\ \A w \in Sims, l \in Spots : Claims(w, l) => l \in DOMAIN open /\ open[l] = w
      /\ \A l \in DOMAIN open : /\ l \in leaked \/ Claims(open[l], l)
                                /\ open[l] \in Sims /\ l \in Spots
      /\ LinesOK
  BY DEF ApduInv, OwnerInv, LeakInv, LinesOK, Range, Spots
<1>8. CASE r.kind = "open" /\ \E l \in Lines : Opens(u, FALSE, l)
  <2>1. PICK l \in Lines : Opens(u, FALSE, l)
    BY <1>8
  <2>2. /\ LinesOK' /\ l \notin DOMAIN open
        /\ DOMAIN open' = DOMAIN open \cup {l} /\ open'[l] = u
        /\ \A m \in DOMAIN open : open'[m] = open[m]
        /\ leaked' = leaked \cup {l}
    BY <2>1, OpensIs
  <2>3. \A w \in Sims, m \in Spots : Claims(w, m) => m \in DOMAIN open' /\ open'[m] = w
    BY <1>7, <2>2
  <2>4. \A m \in Spots : Claimed(s, q, m) => m \in DOMAIN open' /\ open'[m] = u
    BY <1>5, <2>3
  <2>5. \A m \in DOMAIN open' : \/ m \in leaked'
                                \/ open'[m] = u /\ Claimed(s, q, m)
                                \/ open'[m] # u /\ Claims(open'[m], m)
    <3> SUFFICES ASSUME NEW m \in DOMAIN open', m \notin leaked'
                 PROVE  \/ open'[m] = u /\ Claimed(s, q, m)
                        \/ open'[m] # u /\ Claims(open'[m], m)
      OBVIOUS
    <3>1. m \in DOMAIN open /\ m \notin leaked /\ open'[m] = open[m]
      BY <2>2
    <3>2. Claims(open[m], m) /\ m \in Spots
      BY <1>7, <3>1
    <3>3. open[m] = u => Claimed(s, q, m)
      BY <1>5, <1>8, <3>2
    <3> QED BY <3>1, <3>2, <3>3
  <2> QED BY <1>1, <1>2, <1>4, <2>2, <2>3, <2>4, <2>5, CardStep
<1>9. CASE /\ r.kind = "close"
           /\ \/ open' = Restrict(open, DOMAIN open \ {r.line}) /\ UNCHANGED leaked
              \/ leaked' = leaked \cup {r.line} /\ UNCHANGED open
  <2>1. r.line \in Spots /\ Claims(u, r.line) /\ ~Claimed(s, q, r.line)
    BY <1>5, <1>6, <1>9
  <2>2. /\ LinesOK' /\ r.line \in Lines
        /\ \A w \in Sims \ {u} : ~Claims(w, r.line)
        /\ \A m \in DOMAIN open \ {r.line} : m \in DOMAIN open' /\ open'[m] = open[m]
        /\ \A m \in DOMAIN open' : m \in DOMAIN open /\ open'[m] = open[m]
        /\ leaked \subseteq leaked'
        /\ r.line \in DOMAIN open' => r.line \in leaked'
    BY <1>9, <2>1, GivenBackIs
  <2>3. \A w \in Sims \ {u}, m \in Spots : Claims(w, m) => m \in DOMAIN open' /\ open'[m] = w
    BY <1>7, <2>2
  <2>4. \A m \in Spots : Claimed(s, q, m) => m \in DOMAIN open' /\ open'[m] = u
    BY <1>5, <1>7, <2>1, <2>2
  <2>5. \A m \in DOMAIN open' : \/ m \in leaked'
                                \/ open'[m] = u /\ Claimed(s, q, m)
                                \/ open'[m] # u /\ Claims(open'[m], m)
    BY <1>5, <1>7, <2>2
  <2> QED BY <1>1, <1>2, <1>4, <2>2, <2>3, <2>4, <2>5, CardStep
<1>10. CASE r.kind # "close" /\ UNCHANGED <<open, leaked>>
  <2>1. \A l \in Spots : Works(s, l) \/ HasClose(s.out, l) \/ HasClose(q, l) <=> Claims(u, l)
    BY <1>5, <1>10 DEF Claimed
  <2>2. ArbiterOK'
    BY <1>1 DEF ApduInv, ArbiterOK
  <2> QED BY <1>1, <1>2, <1>4, <1>10, <2>1, <2>2, OwnStep
<1> QED BY <1>3, <1>8, <1>9, <1>10
(* The modem answers a request; what that makes of the channels.            *)
LEMMA AnswersStep ==
  ASSUME ApduInv, NEW u \in Sims, session[u].out # << >>,
         NEW ok \in BOOLEAN, NEW more \in BOOLEAN, NEW line \in Spots,
         Answers(u, ok, line, more), sessions' \in 0..MaxSessions,
         LET r == Head(session[u].out)
         IN  \/ /\ r.kind = "open" /\ ok /\ line \in Lines
                /\ Opens(u, r.tag = session[u].tag, line)
             \/ /\ r.kind = "close"
                /\ \/ open' = Restrict(open, DOMAIN open \ {r.line}) /\ UNCHANGED leaked
                   \/ leaked' = leaked \cup {r.line} /\ UNCHANGED open
             \/ /\ r.kind # "close" /\ (r.kind = "open" => ~ok)
                /\ UNCHANGED <<open, leaked>>
  PROVE  ApduInv'
<1> DEFINE s == session[u]
           r == Head(s.out)
           a == AnswerTo(r, ok, line, more)
           rec == TakesAnswer(s, ok, line, more)
           q == Tail(s.out)
<1>1. /\ s \in SessionType /\ InOrder(s) /\ session \in [Sims -> SessionType] /\ ClaimsApart(u)
      /\ stray[u] \in Seq(Ask) /\ stray \in [Sims -> Seq(Ask)] /\ s.out \in Seq(Ask)
  BY DEF ApduInv, SessionsOK, OrderInv, ApartInv, SessionType
<1>2. session' = [session EXCEPT ![u] = rec] /\ UNCHANGED <<stray, arbiter>>
  BY <1>1 DEF Answers, TakesAnswer, AnswerTo
<1>3. /\ rec \in SessionType /\ InOrder(rec) /\ rec.at = s.at /\ rec.line = s.line
      /\ rec.use = s.use /\ rec.out = q /\ rec.in = Append(s.in, a)
      /\ s.at \in Phases /\ r \in Ask /\ Due(r, s)
      /\ s.at \in {"client", "open", "apdu"} => s.in = << >> /\ r.kind = s.at
  <2>1. line \in Lines \cup {NoLine}
    BY DEF Spots
  <2> QED BY <1>1, <2>1, AnsweringIs
<1>4. /\ q \in Seq(Ask)
      /\ \A l \in Spots : /\ HasClose(q, l) => HasClose(s.out, l)
                          /\ HasClose(s.out, l) => \/ HasClose(q, l)
                                                   \/ r.kind = "close" /\ r.line = l
                          /\ r.kind = "close" /\ r.line = l => HasClose(s.out, l)
      /\ OneClose(s.out) => /\ OneClose(q)
                            /\ r.kind = "close" => ~HasClose(q, r.line)
  BY <1>1, CloseTaken
<1>5. \A l : Works(rec, l) <=> \/ s.at = "apdu" /\ s.line = l
                               \/ s.at = "open" /\ ok /\ line = l
  <2>1. a.kind = r.kind /\ a.ok = ok /\ a.line = line
    BY DEF AnswerTo
  <2> HIDE DEF a, rec, r
  <2>2. s.at = "open" => s.in = << >> /\ r.kind = "open"
    BY <1>3
  <2>3. ASSUME s.at = "open"
        PROVE  rec.in # << >> /\ rec.in[1] = a
    <3>1. rec.in = Append(<< >>, a)
      BY <1>3, <2>2, <2>3
    <3> QED BY <3>1
  <2> QED BY <1>3, <2>1, <2>2, <2>3 DEF Works
<1>6. \A l : Works(s, l) <=> s.at = "apdu" /\ s.line = l
  BY <1>3 DEF Works
<1>7. r.kind = "open" => (r.tag = s.tag <=> s.at = "open")
  <2>1. s.tag \in Nat /\ r.tag \in Nat
    BY <1>1, <1>3 DEF SessionType, Ask
  <2>2. Order["open"] = 2
    BY DEF Order
  <2> QED BY <1>3, <2>1, <2>2 DEF Due
<1>8. \/ /\ r.kind = "open" /\ ok /\ line \in Lines
         /\ Opens(u, r.tag = s.tag, line)
      \/ /\ r.kind = "close"
         /\ \/ open' = Restrict(open, DOMAIN open \ {r.line}) /\ UNCHANGED leaked
            \/ leaked' = leaked \cup {r.line} /\ UNCHANGED open
      \/ r.kind # "close" /\ (r.kind = "open" => ~ok) /\ UNCHANGED <<open, leaked>>
  OBVIOUS
<1> HIDE DEF rec, q, r
<1>9. /\ OneClose(s.out) /\ OneClose(q) /\ OneClose(stray[u])
      /\ stray' = [stray EXCEPT ![u] = stray[u]]
      /\ \A l \in Spots : /\ ~(Works(s, l) /\ HasClose(s.out, l))
                          /\ ~(Works(s, l) /\ HasClose(stray[u], l))
                          /\ ~(HasClose(s.out, l) /\ HasClose(stray[u], l))
                          /\ ~(HasClose(q, l) /\ HasClose(stray[u], l))
                          /\ Claimed(rec, stray[u], l)
                               <=> Works(rec, l) \/ HasClose(q, l) \/ HasClose(stray[u], l)
  BY <1>1, <1>2, <1>3, <1>4 DEF ClaimsApart, Claimed
<1>10. /\ \A w \in Sims, l \in Spots : Claims(w, l) => l \in DOMAIN open /\ open[l] = w
       /\ \A l \in DOMAIN open : /\ l \in leaked \/ Claims(open[l], l)
                                 /\ open[l] \in Sims /\ l \in Spots
       /\ LinesOK
  BY DEF ApduInv, OwnerInv, LeakInv, LinesOK, Range, Spots
<1>11. CASE r.kind = "open" /\ ok /\ line \in Lines /\ Opens(u, r.tag = s.tag, line)
  <2>1. /\ LinesOK' /\ line \notin DOMAIN open /\ ~Claims(u, line) /\ line \in Spots
        /\ DOMAIN open' = DOMAIN open \cup {line} /\ open'[line] = u
        /\ \A m \in DOMAIN open : open'[m] = open[m]
        /\ leaked' = IF r.tag = s.tag THEN leaked ELSE leaked \cup {line}
    BY <1>11, OpensIs
  <2>2. \A l \in Spots : Claimed(rec, stray[u], l) <=> Claims(u, l) \/ (s.at = "open" /\ l = line)
    BY <1>4, <1>5, <1>6, <1>9, <1>11 DEF Claims
  <2>3. \A l \in Spots : Works(rec, l) => Works(s, l) \/ l = line
    BY <1>5, <1>6
  <2>4. \A l \in Spots : /\ ~(Works(rec, l) /\ HasClose(q, l))
                        /\ ~(Works(rec, l) /\ HasClose(stray[u], l))
    BY <1>4, <1>9, <2>1, <2>3 DEF Claims
  <2>5. \A w \in Sims, m \in Spots : Claims(w, m) => m \in DOMAIN open' /\ open'[m] = w
    BY <1>10, <2>1
  <2>6. \A m \in Spots : Claimed(rec, stray[u], m) => m \in DOMAIN open' /\ open'[m] = u
    BY <2>1, <2>2, <2>5
  <2>7. \A m \in DOMAIN open' : \/ m \in leaked'
                                \/ open'[m] = u /\ Claimed(rec, stray[u], m)
                                \/ open'[m] # u /\ Claims(open'[m], m)
    <3> SUFFICES ASSUME NEW m \in DOMAIN open', m \notin leaked'
                 PROVE  \/ open'[m] = u /\ Claimed(rec, stray[u], m)
                        \/ open'[m] # u /\ Claims(open'[m], m)
      OBVIOUS
    <3>1. CASE m = line
      BY <1>7, <1>11, <2>1, <2>2, <3>1
    <3>2. CASE m # line
      BY <1>10, <2>1, <2>2, <3>2
    <3> QED BY <3>1, <3>2
  <2>8. /\ OneClose(rec.out) /\ OneClose(stray[u]) /\ LinesOK'
        /\ \A l \in Spots : /\ ~(Works(rec, l) /\ HasClose(rec.out, l))
                            /\ ~(Works(rec, l) /\ HasClose(stray[u], l))
                            /\ ~(HasClose(rec.out, l) /\ HasClose(stray[u], l))
    BY <1>3, <1>9, <2>1, <2>4
  <2>9. UNCHANGED arbiter /\ stray' = [stray EXCEPT ![u] = stray[u]]
    BY <1>2, <1>9
  <2> QED BY <1>1, <1>2, <1>3, <2>5, <2>6, <2>7, <2>8, <2>9, CardStep
<1>12. CASE /\ r.kind = "close"
            /\ \/ open' = Restrict(open, DOMAIN open \ {r.line}) /\ UNCHANGED leaked
               \/ leaked' = leaked \cup {r.line} /\ UNCHANGED open
  <2>1. r.line \in Spots /\ Claims(u, r.line)
    BY <1>3, <1>4, <1>12 DEF Ask, Spots, Claims
  <2>2. \A l : Works(rec, l) <=> Works(s, l)
    BY <1>3, <1>5, <1>6, <1>12
  <2>3. ~Claimed(rec, stray[u], r.line)
    BY <1>4, <1>9, <1>12, <2>1, <2>2
  <2>4. \A l \in Spots : Claimed(rec, stray[u], l) => Claims(u, l)
    BY <1>4, <1>9, <2>2 DEF Claims
  <2>5. \A l \in Spots : Claims(u, l) => Claimed(rec, stray[u], l) \/ l = r.line
    BY <1>4, <1>9, <2>2 DEF Claims
  <2>6. \A l \in Spots : /\ ~(Works(rec, l) /\ HasClose(q, l))
                        /\ ~(Works(rec, l) /\ HasClose(stray[u], l))
    BY <1>4, <1>9, <2>2
  <2>7. /\ LinesOK' /\ r.line \in Lines
        /\ \A w \in Sims \ {u} : ~Claims(w, r.line)
        /\ \A m \in DOMAIN open \ {r.line} : m \in DOMAIN open' /\ open'[m] = open[m]
        /\ \A m \in DOMAIN open' : m \in DOMAIN open /\ open'[m] = open[m]
        /\ leaked \subseteq leaked'
        /\ r.line \in DOMAIN open' => r.line \in leaked'
    BY <1>12, <2>1, GivenBackIs
  <2>8. \A w \in Sims \ {u}, m \in Spots : Claims(w, m) => m \in DOMAIN open' /\ open'[m] = w
    BY <1>10, <2>7
  <2>9. \A m \in Spots : Claimed(rec, stray[u], m) => m \in DOMAIN open' /\ open'[m] = u
    BY <1>10, <2>3, <2>4, <2>7
  <2>10. \A m \in DOMAIN open' : \/ m \in leaked'
                                 \/ open'[m] = u /\ Claimed(rec, stray[u], m)
                                 \/ open'[m] # u /\ Claims(open'[m], m)
    BY <1>10, <2>5, <2>7
  <2> QED BY <1>1, <1>2, <1>3, <1>4, <1>9, <2>6, <2>7, <2>8, <2>9, <2>10, CardStep
<1>13. CASE r.kind # "close" /\ (r.kind = "open" => ~ok) /\ UNCHANGED <<open, leaked>>
  <2>1. \A l : Works(rec, l) <=> Works(s, l)
    BY <1>3, <1>5, <1>6, <1>13
  <2>2. \A l \in Spots : Claimed(rec, stray[u], l) <=> Claims(u, l)
    BY <1>4, <1>9, <1>13, <2>1 DEF Claims
  <2>3. \A l \in Spots : /\ ~(Works(rec, l) /\ HasClose(q, l))
                        /\ ~(Works(rec, l) /\ HasClose(stray[u], l))
    BY <1>4, <1>9, <2>1
  <2>4. ArbiterOK'
    BY <1>1, <1>2, <1>3 DEF ApduInv, ArbiterOK
  <2> QED BY <1>1, <1>2, <1>3, <1>4, <1>9, <1>13, <2>2, <2>3, <2>4, OwnStep
<1> QED BY <1>8, <1>11, <1>12, <1>13

LEMMA ServeStep ==
  ASSUME ApduInv, NEW u \in Sims, Serve(u)
  PROVE  ApduInv'
<1> DEFINE r == Head(session[u].out)
<1>1. /\ session[u].out # << >> /\ sessions' \in 0..MaxSessions
      /\ session[u].out \in Seq(Ask)
  BY DEF Serve, ApduInv, SessionsOK, SessionType
<1>2. r \in Ask
  BY <1>1, QueueIs
<1>3. r.line \in Spots /\ NoLine \in Spots /\ Lines \subseteq Spots
  BY <1>2 DEF Ask, Spots
<1>4. CASE r.kind = "open" /\ ~Full
  <2>1. PICK l \in Lines : Opens(u, r.tag = session[u].tag, l) /\ Answers(u, TRUE, l, FALSE)
    BY <1>4 DEF Serve
  <2> QED BY <1>1, <1>3, <1>4, <2>1, AnswersStep
<1>5. CASE r.kind = "open" /\ Full
  <2>1. Answers(u, FALSE, NoLine, FALSE) /\ UNCHANGED <<open, leaked>>
    BY <1>5 DEF Serve
  <2> QED BY <1>1, <1>3, <1>5, <2>1, AnswersStep
<1>6. CASE r.kind = "close"
  <2>1. /\ open' = Restrict(open, DOMAIN open \ {r.line}) /\ UNCHANGED leaked
        /\ Answers(u, TRUE, r.line, FALSE)
    BY <1>6 DEF Serve
  <2> QED BY <1>1, <1>3, <1>6, <2>1, AnswersStep
<1>7. CASE r.kind = "apdu"
  <2>1. PICK more \in BOOLEAN : Answers(u, TRUE, r.line, more) /\ UNCHANGED <<open, leaked>>
    BY <1>7 DEF Serve
  <2> QED BY <1>1, <1>3, <1>7, <2>1, AnswersStep
<1>8. CASE r.kind \notin {"open", "close", "apdu"}
  <2>1. Answers(u, TRUE, NoLine, FALSE) /\ UNCHANGED <<open, leaked>>
    BY <1>8 DEF Serve
  <2> QED BY <1>1, <1>3, <1>8, <2>1, AnswersStep
<1> QED BY <1>4, <1>5, <1>6, <1>7, <1>8

LEMMA RefuseStep ==
  ASSUME ApduInv, NEW u \in Sims, Refuse(u)
  PROVE  ApduInv'
<1> DEFINE r == Head(session[u].out)
<1>1. /\ session[u].out # << >> /\ sessions' \in 0..MaxSessions /\ UNCHANGED open
      /\ Answers(u, FALSE, NoLine, FALSE) /\ NoLine \in Spots
  <2>1. sessions' \in 0..MaxSessions
    BY ApduAssumption DEF Refuse, Budget, ApduInv, SessionsOK
  <2>2. session[u].out # << >> /\ UNCHANGED open /\ Answers(u, FALSE, NoLine, FALSE)
    BY DEF Refuse
  <2> QED BY <2>1, <2>2 DEF Spots
<1>2. CASE r.kind = "close"
  <2>1. leaked' = leaked \cup {r.line}
    BY <1>2 DEF Refuse
  <2> QED BY <1>1, <1>2, <2>1, AnswersStep
<1>3. CASE r.kind # "close"
  <2>1. leaked' = leaked
    BY <1>3 DEF Refuse
  <2> QED BY <1>1, <1>3, <2>1, AnswersStep
<1> QED BY <1>2, <1>3

LEMMA ApduInvAtInit == ApduInit => ApduInv
<1> SUFFICES ASSUME ApduInit PROVE ApduInv
  OBVIOUS
<1>1. /\ session = [u \in Sims |-> Unused] /\ stray = [u \in Sims |-> << >>]
      /\ open = << >> /\ arbiter = "none" /\ leaked = {} /\ sessions = 0
  BY DEF ApduInit
<1>2. /\ \A u \in Sims : session[u] = Unused /\ stray[u] = << >>
      /\ \A l : ~HasClose(<< >>, l)
      /\ OneClose(<< >>)
  BY <1>1 DEF HasClose, OneClose
<1>3. DOMAIN open = {}
  BY <1>1
<1>4. SessionsOK /\ ArbiterOK
  BY <1>1, UnusedIs, ApduAssumption DEF SessionsOK, ArbiterOK
<1>5. LinesOK /\ LeakInv
  BY <1>1, <1>3 DEF LinesOK, LeakInv, Range
<1>6. OrderInv /\ ApartInv /\ OwnerInv
  BY <1>2, UnusedIs DEF OrderInv, ApartInv, ClaimsApart, OwnerInv, Claims
<1> QED BY <1>4, <1>5, <1>6 DEF ApduInv

LEMMA ApduInvStep == ApduInv /\ [ApduNext]_simCard => ApduInv'
<1> SUFFICES ASSUME ApduInv, [ApduNext]_simCard PROVE ApduInv'
  OBVIOUS
<1>1. CASE UNCHANGED simCard
  BY <1>1 DEF simCard, ApduInv, SessionsOK, ArbiterOK, LinesOK, OrderInv, ApartInv, ClaimsApart,
              OwnerInv, LeakInv, Claims
<1>2. CASE ApduNext
  <2>1. PICK u \in Sims :
          \/ \E use \in Uses : StartSession(u, use)
          \/ TakeArbiter(u) \/ Reads(u) \/ TimesOut(u) \/ Serve(u) \/ Refuse(u) \/ ServeStray(u)
    BY <1>2 DEF ApduNext
  <2> QED BY <2>1, StartSessionStep, TakeArbiterStep, ReadsStep, TimesOutStep, ServeStep,
             RefuseStep, ServeStrayStep
<1> QED BY <1>1, <1>2

LEMMA ApduInvAlways == RemoteSpec => []ApduInv
<1>1. RemoteInit => ApduInv
  BY ApduInvAtInit DEF RemoteInit
<1>2. /\ ApduInv
      /\ [RemoteNext]_<<area, vars, hubLife, ddns, simCard, callLog, simRecords,
                        routing, cellScan>>
      => ApduInv'
  BY ApduInvStep DEF RemoteNext
<1> QED BY <1>1, <1>2, PTL DEF RemoteSpec

(* An answer that is accepted is the one to the request the session waits   *)
(* for; an APDU goes out on a channel that is open, and for this session;   *)
(* and with nothing under way, what is open was leaked: by a late answer, a *)
(* refused close, or the use that does not retry, when its APDU cannot be   *)
(* built.                                                                   *)
THEOREM SessionsAreApart == RemoteSpec => []SessionsKeepApart
<1>1. ApduInv => SessionsKeepApart
  <2> SUFFICES ASSUME ApduInv PROVE SessionsKeepApart
    OBVIOUS
  <2>1. ASSUME NEW u \in Sims, session[u].in # << >>, Head(session[u].in).kind = session[u].at
        PROVE  Head(session[u].in).tag = session[u].tag
    <3> DEFINE s == session[u]
    <3>1. s \in SessionType /\ InOrder(s) /\ s.in # << >>
      BY <2>1 DEF ApduInv, SessionsOK, OrderInv
    <3>2. s.at \in Phases /\ Due(Head(s.in), s)
      BY <3>1, TakingIs
    <3>3. Order[s.at] \in Nat
      BY <3>2 DEF Order, Phases
    <3> QED BY <2>1, <3>2, <3>3 DEF Due
  <2>2. ASSUME NEW u \in Sims, session[u].at = "apdu"
        PROVE  session[u].line \in DOMAIN open /\ open[session[u].line] = u
    <3>1. session[u].line \in Spots
      BY DEF ApduInv, SessionsOK, SessionType, Spots
    <3>2. Claims(u, session[u].line)
      BY <2>2 DEF Claims, Works
    <3> QED BY <3>1, <3>2 DEF ApduInv, OwnerInv
  <2>3. ASSUME \A u \in Sims : session[u].at = "idle" /\ stray[u] = << >>
        PROVE  DOMAIN open \subseteq leaked
    <3> SUFFICES ASSUME NEW l \in DOMAIN open, Claims(open[l], l) PROVE FALSE
      BY DEF ApduInv, LeakInv
    <3>1. PICK u \in Sims : u = open[l]
      BY DEF ApduInv, LinesOK, Range
    <3>2. session[u].out = << >> /\ stray[u] = << >> /\ session[u].at = "idle"
      BY <2>3 DEF ApduInv, OrderInv, InOrder, Phases
    <3> QED BY <3>1, <3>2 DEF Claims, Works, HasClose
  <2> QED BY <2>1, <2>2, <2>3 DEF SessionsKeepApart
<1> QED BY <1>1, ApduInvAlways, PTL

-----------------------------------------------------------------------------
(* CallLog.                                                                 *)

ShownType == [path : Paths, no : 0..MaxVoice, dir : {"incoming", "outgoing", "none"},
              state : {"dialing", "ringing", "active", "terminated", "gone"}]

PhoneType ==
  [op : {"none", "dial", "answer", "hangup", "hangupAll", "list"},
   step : {"rest", "look", "act", "row", "track", "log"},
   path : Paths, seen : SUBSET ShownType, no : 0..MaxVoice, id : 0..MaxRows]

CallRowType ==
  [dir : {"incoming", "outgoing", "missed"}, answered : BOOLEAN, ended : BOOLEAN,
   there : BOOLEAN, call : 0..MaxVoice, path : Paths]

VoiceTypes ==
  /\ voice \in [Paths -> Voices] /\ lastCall \in 0..MaxVoice
  /\ voiceLock \in Phones \cup {"free"} /\ voiceAsks \in 0..MaxVoiceAsks
  /\ spoken \subseteq 1..MaxVoice

LogTypes ==
  /\ rows \in Seq(CallRowType) /\ Len(rows) <= MaxRows
  /\ tracked \in [Paths -> [id : 0..MaxRows, answered : BOOLEAN]]
  /\ phone \in [Phones -> PhoneType]

(* The path of a call of ModemManager is its number; said holds the calls   *)
(* that were active.                                                        *)
VoiceOK(q, v, said) ==
  /\ v # NoVoice => v.no # 0 /\ (q # Line => v.no = q)
  /\ v.state = "active" => v.no \in said

ShownOK(c, said) ==
  /\ c.path # Line /\ c.state # "gone" => c.no = c.path
  /\ c.state = "active" => c.no \in said

(* The row that a request is about to track: its own, and still open.       *)
PendingOK(j, rs, tr) ==
  /\ j.id \in 1..Len(rs) /\ ~rs[j.id].ended /\ rs[j.id].path = j.path
  /\ rs[j.id].dir = "incoming" => j.op = "answer"
  /\ \A q \in Paths : tr[q].id # j.id

JobOK(j, rs, tr, said) ==
  /\ \A c \in j.seen : ShownOK(c, said)
  /\ j.op = "answer" /\ j.step = "act" =>
       \A c \in j.seen : c.path = j.path /\ (c.path # Line => c.no = c.path)
  /\ j.step \in {"row", "track"} /\ j.path # Line =>
       j.no = j.path /\ (j.op = "answer" => j.no \in said)
  /\ j.step = "track" => PendingOK(j, rs, tr)

RowOK(r, said) ==
  /\ r.path # Line => r.call = r.path
  /\ r.dir = "incoming" => r.answered
  /\ r.ended /\ r.answered /\ r.path # Line => r.call \in said

EntryOK(q, e, rs, said) ==
  e.id # 0 => /\ e.id \in 1..Len(rs) /\ ~rs[e.id].ended /\ rs[e.id].path = q
              /\ rs[e.id].dir = "incoming" => e.answered
              /\ e.answered /\ q # Line => q \in said

VoicesOK  == \A q \in Paths : VoiceOK(q, voice[q], spoken)
JobsOK    == \A p \in Phones : JobOK(phone[p], rows, tracked, spoken)
RowsOK    == \A i \in 1..Len(rows) : RowOK(rows[i], spoken)
EntriesOK == \A q \in Paths : EntryOK(q, tracked[q], rows, spoken)

TracksApart ==
  \A p, q \in Phones :
    phone[p].step = "track" /\ phone[q].step = "track" /\ phone[p].id = phone[q].id => p = q

CallInv ==
  VoiceTypes /\ LogTypes /\ VoicesOK /\ JobsOK /\ RowsOK /\ EntriesOK /\ TracksApart


LEMMA CallBounds ==
  /\ MaxVoice \in Nat /\ MaxRows \in Nat /\ MaxVoiceAsks \in Nat
  /\ Line \in Paths /\ 0 \in 0..MaxVoice /\ 0 \in 0..MaxRows
  /\ Resting \in PhoneType /\ Resting.seen = {} /\ Resting.step = "rest" /\ Resting.op = "none"
  /\ NoVoice \in Voices /\ NoVoice.no = 0 /\ NoVoice.state = "gone"
  /\ NoRecord \in [id : 0..MaxRows, answered : BOOLEAN] /\ NoRecord.id = 0
<1>1. MaxVoice \in Nat /\ MaxRows \in Nat /\ MaxVoiceAsks \in Nat
  BY CallAssumption
<1>2. Line \in Paths /\ 0 \in 0..MaxVoice /\ 0 \in 0..MaxRows /\ Line = 0
  BY <1>1 DEF Line, Paths
<1>3. Resting \in PhoneType /\ Resting.seen = {} /\ Resting.step = "rest" /\ Resting.op = "none"
  BY <1>2 DEF Resting, PhoneType
<1>4. NoVoice \in Voices /\ NoVoice.no = 0 /\ NoVoice.state = "gone"
  BY <1>2 DEF NoVoice, Voices
<1>5. NoRecord \in [id : 0..MaxRows, answered : BOOLEAN] /\ NoRecord.id = 0
  BY <1>2 DEF NoRecord
<1> QED BY <1>1, <1>2, <1>3, <1>4, <1>5

(* What was said of calls that were active stays said.                      *)
LEMMA SaidStays ==
  ASSUME NEW said, NEW more, said \subseteq more
  PROVE  /\ \A c : ShownOK(c, said) => ShownOK(c, more)
         /\ \A j, rs, tr : JobOK(j, rs, tr, said) => JobOK(j, rs, tr, more)
         /\ \A r : RowOK(r, said) => RowOK(r, more)
         /\ \A q, e, rs : EntryOK(q, e, rs, said) => EntryOK(q, e, rs, more)
         /\ \A q, v : VoiceOK(q, v, said) => VoiceOK(q, v, more)
<1>1. \A c : ShownOK(c, said) => ShownOK(c, more)
  BY DEF ShownOK
<1>2. \A j, rs, tr : JobOK(j, rs, tr, said) => JobOK(j, rs, tr, more)
  BY <1>1 DEF JobOK
<1>3. \A r : RowOK(r, said) => RowOK(r, more)
  BY DEF RowOK
<1>4. \A q, e, rs : EntryOK(q, e, rs, said) => EntryOK(q, e, rs, more)
  BY DEF EntryOK
<1>5. \A q, v : VoiceOK(q, v, said) => VoiceOK(q, v, more)
  BY DEF VoiceOK
<1> QED BY <1>1, <1>2, <1>3, <1>4, <1>5

(* A job at rest, or that keeps only what it has seen, is in order.         *)
LEMMA RestingOK == \A rs, tr, said : JobOK(Resting, rs, tr, said)
BY CallBounds DEF JobOK

(* Steps of the modem and the other side, and of requests that do not touch *)
(* the history.                                                             *)
LEMMA TalkStep ==
  ASSUME CallInv, NEW p \in Phones, NEW new \in PhoneType,
         phone' = [phone EXCEPT ![p] = new], UNCHANGED <<rows, tracked>>,
         VoiceTypes', VoicesOK', spoken \subseteq spoken',
         JobOK(new, rows, tracked, spoken'), new.step = "track" => new = phone[p]
  PROVE  CallInv'
<1> USE DEF CallInv
<1>1. /\ phone'[p] = new /\ \A q \in Phones \ {p} : phone'[q] = phone[q]
      /\ LogTypes'
  BY DEF LogTypes
<1>2. JobsOK'
  <2> SUFFICES ASSUME NEW q \in Phones PROVE JobOK(phone'[q], rows', tracked', spoken')
    BY DEF JobsOK
  <2>1. CASE q = p
    BY <1>1, <2>1
  <2>2. CASE q # p
    BY <1>1, <2>2, SaidStays DEF JobsOK
  <2> QED BY <2>1, <2>2
<1>3. RowsOK' /\ EntriesOK'
  BY SaidStays DEF RowsOK, EntriesOK
<1>4. TracksApart'
  BY <1>1 DEF TracksApart
<1> QED BY <1>1, <1>2, <1>3, <1>4

(* The other side.                                                          *)
LEMMA NewVoiceIs ==
  ASSUME CallInv, NEW at \in Paths, NEW dir \in {"incoming", "outgoing"}, NewVoice(at, dir)
  PROVE  /\ voice' \in [Paths -> Voices] /\ lastCall' \in 0..MaxVoice
         /\ \A q \in Paths : VoiceOK(q, voice'[q], spoken)
         /\ lastCall' = lastCall + 1 /\ at \in {Line, lastCall'}
<1> DEFINE new == [no |-> lastCall + 1, dir |-> dir,
                   state |-> IF dir = "outgoing" THEN "dialing" ELSE "ringing"]
<1>1. /\ lastCall < MaxVoice /\ lastCall' = lastCall + 1 /\ at \in {Line, lastCall + 1}
      /\ voice' = [voice EXCEPT ![at] = new]
      /\ voice \in [Paths -> Voices] /\ lastCall \in 0..MaxVoice
      /\ \A q \in Paths : VoiceOK(q, voice[q], spoken)
  BY DEF NewVoice, CallInv, VoiceTypes, VoicesOK
<1>2. lastCall + 1 \in 0..MaxVoice
  BY <1>1, CallBounds
<1>3. new \in Voices /\ new.no = lastCall + 1 /\ new.state # "active"
  BY <1>2 DEF Voices
<1> HIDE DEF new
<1>4. VoiceOK(at, new, spoken)
  BY <1>1, <1>3 DEF VoiceOK, VoiceTypes
<1> QED BY <1>1, <1>2, <1>3, <1>4

LEMMA VoiceStepStep ==
  ASSUME CallInv, VoiceStep
  PROVE  CallInv'
<1> USE DEF CallInv
<1>1. UNCHANGED <<rows, tracked, voiceLock, phone, voiceAsks>>
  BY DEF VoiceStep, Otherwise
<1>2. VoiceTypes' /\ VoicesOK' /\ spoken \subseteq spoken'
  <2>1. CASE Ring
    <3>1. PICK at \in Paths : NewVoice(at, "incoming") /\ UNCHANGED spoken
      BY <2>1 DEF Ring
    <3>2. /\ voice' \in [Paths -> Voices] /\ lastCall' \in 0..MaxVoice
          /\ \A q \in Paths : VoiceOK(q, voice'[q], spoken)
      BY <3>1, NewVoiceIs
    <3> QED BY <1>1, <3>1, <3>2 DEF VoiceTypes, VoicesOK
  <2>2. ASSUME NEW q \in Paths, PickUp(q)
        PROVE  VoiceTypes' /\ VoicesOK' /\ spoken \subseteq spoken'
    <3> DEFINE new == [voice[q] EXCEPT !.state = "active"]
    <3>1. /\ voice[q].state = "dialing" /\ voice' = [voice EXCEPT ![q] = new]
          /\ spoken' = spoken \cup {voice[q].no} /\ UNCHANGED lastCall
      BY <2>2 DEF PickUp
    <3>2. /\ voice[q] \in Voices /\ new \in Voices /\ new.no = voice[q].no /\ voice[q] # NoVoice
          /\ VoiceOK(q, voice[q], spoken)
      BY <3>1, CallBounds DEF VoiceTypes, Voices, VoicesOK
    <3> HIDE DEF new
    <3>3. VoiceOK(q, new, spoken')
      BY <3>1, <3>2 DEF VoiceOK
    <3>4. VoicesOK'
      BY <3>1, <3>3, SaidStays DEF VoicesOK, VoiceTypes
    <3>5. voice[q].no \in 1..MaxVoice
      BY <3>2, CallBounds DEF VoiceOK, Voices
    <3> QED BY <1>1, <3>1, <3>2, <3>4, <3>5 DEF VoiceTypes
  <2>3. ASSUME NEW q \in Paths, OtherHangsUp(q)
        PROVE  VoiceTypes' /\ VoicesOK' /\ spoken \subseteq spoken'
    <3> DEFINE new == OverCall(q)
    <3>1. voice' = [voice EXCEPT ![q] = new] /\ UNCHANGED <<lastCall, spoken>> /\ Live(q)
      BY <2>3 DEF OtherHangsUp
    <3>2. voice[q] \in Voices /\ VoiceOK(q, voice[q], spoken) /\ voice[q] # NoVoice
      BY <3>1, CallBounds DEF VoiceTypes, VoicesOK, Live
    <3>3. new \in Voices /\ VoiceOK(q, new, spoken)
      BY <3>2, CallBounds DEF OverCall, Voices, VoiceOK
    <3> HIDE DEF new
    <3> QED BY <1>1, <3>1, <3>3 DEF VoiceTypes, VoicesOK
  <2> QED BY <2>1, <2>2, <2>3 DEF VoiceStep
<1>3. LogTypes' /\ TracksApart'
  BY <1>1 DEF LogTypes, TracksApart
<1>4. JobsOK' /\ RowsOK' /\ EntriesOK'
  BY <1>1, <1>2, SaidStays DEF JobsOK, RowsOK, EntriesOK
<1> QED BY <1>2, <1>3, <1>4


LEMMA PhoneIs ==
  ASSUME CallInv, NEW p \in Phones
  PROVE  /\ phone[p] \in PhoneType /\ JobOK(phone[p], rows, tracked, spoken)
         /\ phone \in [Phones -> PhoneType]
         /\ \A c \in phone[p].seen : c \in ShownType /\ ShownOK(c, spoken)
BY DEF CallInv, LogTypes, JobsOK, JobOK, PhoneType

(* A request that ends, and changes nothing else but the lock.              *)
LEMMA PhoneEndsStep ==
  ASSUME CallInv, NEW p \in Phones, Finishes(p), UNCHANGED <<rows, tracked>>,
         VoiceTypes', VoicesOK', spoken \subseteq spoken'
  PROVE  CallInv'
<1>1. phone' = [phone EXCEPT ![p] = Resting] /\ Resting \in PhoneType /\ Resting.step # "track"
  BY CallBounds DEF Finishes
<1> QED BY <1>1, RestingOK, TalkStep

LEMMA AskPhoneStep ==
  ASSUME CallInv, NEW p \in Phones, AskPhone(p)
  PROVE  CallInv'
<1>1. PICK op \in {"dial", "answer", "hangup", "hangupAll", "list"}, at \in Paths :
        phone' = [phone EXCEPT ![p] =
          [Resting EXCEPT !.op = op, !.path = at,
                          !.step = IF op = "dial" THEN "act" ELSE "look"]]
  BY DEF AskPhone
<1> DEFINE new == [Resting EXCEPT !.op = op, !.path = at,
                                  !.step = IF op = "dial" THEN "act" ELSE "look"]
<1>2. new \in PhoneType /\ new.seen = {} /\ new.step \in {"act", "look"}
  BY CallBounds DEF PhoneType
<1>3. phone' = [phone EXCEPT ![p] = new]
  BY <1>1
<1> HIDE DEF new
<1>4. JobOK(new, rows, tracked, spoken)
  BY <1>2 DEF JobOK
<1>5. VoiceTypes' /\ VoicesOK' /\ UNCHANGED <<rows, tracked, spoken>>
  BY CallBounds DEF AskPhone, CallInv, VoiceTypes, VoicesOK
<1> QED BY <1>2, <1>3, <1>4, <1>5, TalkStep

LEMMA ShownIs ==
  ASSUME CallInv, NEW P \in SUBSET Paths
  PROVE  \A c \in Shown(P) :
           /\ c \in ShownType /\ (ShownOK(c, spoken) \/ voice[c.path] = NoVoice)
           /\ c.path \in P /\ c.no = voice[c.path].no /\ c.state = voice[c.path].state
<1> SUFFICES ASSUME NEW q \in P
             PROVE  LET c == [path |-> q, no |-> voice[q].no, dir |-> voice[q].dir,
                              state |-> voice[q].state]
                    IN  /\ c \in ShownType /\ (ShownOK(c, spoken) \/ voice[q] = NoVoice)
                        /\ c.path \in P /\ c.no = voice[c.path].no
                        /\ c.state = voice[c.path].state /\ c.path = q
  BY DEF Shown
<1>1. voice[q] \in Voices /\ VoiceOK(q, voice[q], spoken)
  BY DEF CallInv, VoiceTypes, VoicesOK
<1> DEFINE c == [path |-> q, no |-> voice[q].no, dir |-> voice[q].dir, state |-> voice[q].state]
<1>2. /\ c \in ShownType /\ c.path = q /\ c.no = voice[q].no /\ c.state = voice[q].state
  BY <1>1 DEF ShownType, Voices
<1> HIDE DEF c
<1>3. voice[q] # NoVoice => ShownOK(c, spoken)
  BY <1>1, <1>2 DEF ShownOK, VoiceOK
<1> QED BY <1>2, <1>3 DEF c

LEMMA LookStep ==
  ASSUME CallInv, NEW p \in Phones, Look(p)
  PROVE  CallInv'
<1> DEFINE single == phone[p].op \in {"answer", "hangup"}
           there  == {q \in Paths : voice[q] # NoVoice}
           found  == IF single THEN Shown({phone[p].path} \cap there) ELSE Shown(ListedCalls)
           step   == IF phone[p].op = "list" THEN "log" ELSE "act"
<1>1. /\ phone[p].step = "look"
      /\ UNCHANGED <<lastCall, rows, tracked, voiceLock, voiceAsks, spoken>>
      /\ voice' = IF single THEN voice
                  ELSE [q \in Paths |-> IF voice[q].state = "terminated" THEN NoVoice
                                                                       ELSE voice[q]]
      /\ \E seen \in {found, {}} : phone' = [phone EXCEPT ![p].seen = seen, ![p].step = step]
  BY DEF Look
<1>2. PICK seen \in {found, {}} : phone' = [phone EXCEPT ![p].seen = seen, ![p].step = step]
  BY <1>1
<1> DEFINE new == [phone[p] EXCEPT !.seen = seen, !.step = step]
<1>3. /\ phone[p] \in PhoneType /\ JobOK(phone[p], rows, tracked, spoken)
      /\ phone \in [Phones -> PhoneType]
  BY PhoneIs
<1>4. \A c \in seen : /\ c \in ShownType /\ ShownOK(c, spoken)
                      /\ single => c.path = phone[p].path /\ (c.path # Line => c.no = c.path)
  <2>1. CASE seen = {}
    BY <2>1
  <2>2. CASE seen = found /\ single
    <3>1. /\ {phone[p].path} \cap there \in SUBSET Paths
          /\ seen = Shown({phone[p].path} \cap there)
      BY <2>2
    <3>2. \A c \in seen : /\ c \in ShownType /\ (ShownOK(c, spoken) \/ voice[c.path] = NoVoice)
                          /\ c.path \in {phone[p].path} \cap there /\ c.no = voice[c.path].no
      BY <3>1, ShownIs
    <3>3. \A q \in there : VoiceOK(q, voice[q], spoken)
      BY DEF CallInv, VoicesOK
    <3>4. \A c \in seen : ShownOK(c, spoken) /\ c.path = phone[p].path
      BY <3>2
    <3>5. \A c \in seen : c.path # Line => c.no = c.path
      BY <3>2, <3>3 DEF VoiceOK
    <3> QED BY <3>2, <3>4, <3>5
  <2>3. CASE seen = found /\ ~single
    <3>1. ListedCalls \in SUBSET Paths /\ \A q \in ListedCalls : voice[q] # NoVoice
      BY CallBounds DEF ListedCalls, Objects, Live
    <3>2. seen = Shown(ListedCalls)
      BY <2>3
    <3>3. \A c \in seen : /\ c \in ShownType /\ (ShownOK(c, spoken) \/ voice[c.path] = NoVoice)
                          /\ c.path \in ListedCalls
      BY <3>1, <3>2, ShownIs
    <3> QED BY <2>3, <3>1, <3>3
  <2> QED BY <2>1, <2>2, <2>3
<1>5. /\ new \in PhoneType /\ new.seen = seen /\ new.step \in {"log", "act"}
      /\ new.path = phone[p].path /\ new.op = phone[p].op
  BY <1>3, <1>4 DEF PhoneType
<1>6. phone' = [phone EXCEPT ![p] = new]
  BY <1>2, <1>3
<1> HIDE DEF new, found
<1>7. JobOK(new, rows, tracked, spoken)
  BY <1>4, <1>5 DEF JobOK
<1>8. VoiceTypes' /\ VoicesOK'
  <2>1. \A q \in Paths : voice'[q] \in {voice[q], NoVoice}
    BY <1>1
  <2>2. \A q \in Paths : VoiceOK(q, NoVoice, spoken)
    BY CallBounds DEF VoiceOK
  <2>3. voice' \in [Paths -> Voices]
    BY <1>1, CallBounds DEF CallInv, VoiceTypes
  <2>4. VoicesOK'
    BY <1>1, <2>1, <2>2 DEF CallInv, VoicesOK
  <2> QED BY <1>1, <2>3, <2>4 DEF CallInv, VoiceTypes
<1> QED BY <1>1, <1>5, <1>6, <1>7, <1>8, TalkStep

LEMMA GivesUpStep ==
  ASSUME CallInv, NEW p \in Phones, GivesUp(p)
  PROVE  CallInv'
<1>1. /\ Finishes(p) /\ UNCHANGED <<voice, lastCall, rows, tracked, voiceAsks, spoken>>
      /\ voiceLock' \in {"free", voiceLock}
  BY DEF GivesUp
<1>2. VoiceTypes' /\ VoicesOK'
  BY <1>1 DEF CallInv, VoiceTypes, VoicesOK
<1> QED BY <1>1, <1>2, PhoneEndsStep

LEMMA TakeLockStep ==
  ASSUME CallInv, NEW p \in Phones, TakeLock(p)
  PROVE  CallInv'
<1>1. UNCHANGED <<voice, lastCall, rows, tracked, phone, voiceAsks, spoken>> /\ voiceLock' = p
  BY DEF TakeLock
<1>2. VoiceTypes' /\ VoicesOK'
  BY <1>1 DEF CallInv, VoiceTypes, VoicesOK
<1> QED BY <1>1, <1>2 DEF CallInv, LogTypes, JobsOK, RowsOK, EntriesOK, TracksApart


LEMMA DialStep ==
  ASSUME CallInv, NEW p \in Phones, Dial(p)
  PROVE  CallInv'
<1> DEFINE j == phone[p]
<1>1. /\ At(p, "dial", "act") /\ voiceLock = p /\ UNCHANGED <<rows, tracked, voiceAsks, spoken>>
      /\ j \in PhoneType /\ phone \in [Phones -> PhoneType] /\ JobOK(j, rows, tracked, spoken)
  BY PhoneIs DEF Dial
<1>2. ASSUME NEW at \in Paths, NEW no \in 0..MaxVoice, at # Line => no = at,
             phone' = [phone EXCEPT ![p].step = "row", ![p].path = at, ![p].no = no],
             VoiceTypes', VoicesOK'
      PROVE  CallInv'
  <2> DEFINE new == [j EXCEPT !.step = "row", !.path = at, !.no = no]
  <2>1. /\ new \in PhoneType /\ new.op = "dial" /\ new.step = "row" /\ new.path = at
        /\ new.no = no /\ new.seen = j.seen
    BY <1>1 DEF PhoneType, At
  <2>2. phone' = [phone EXCEPT ![p] = new]
    BY <1>1, <1>2
  <2> HIDE DEF new
  <2>3. JobOK(new, rows, tracked, spoken)
    BY <1>1, <1>2, <2>1 DEF JobOK
  <2> QED BY <1>1, <1>2, <2>1, <2>2, <2>3, TalkStep
<1>3. ASSUME NEW q \in ListedCalls,
             phone' = [phone EXCEPT ![p].step = "row", ![p].path = q, ![p].no = voice[q].no],
             voiceLock' = "free", UNCHANGED <<voice, lastCall>>
      PROVE  CallInv'
  <2>1. VoiceTypes' /\ VoicesOK'
    BY <1>1, <1>3 DEF CallInv, VoiceTypes, VoicesOK
  <2>2. q \in Paths /\ voice[q] # NoVoice
    BY CallBounds DEF ListedCalls, Objects, Live
  <2>3. voice[q] \in Voices /\ VoiceOK(q, voice[q], spoken)
    BY <2>2 DEF CallInv, VoiceTypes, VoicesOK
  <2>4. voice[q].no \in 0..MaxVoice /\ (q # Line => voice[q].no = q)
    BY <2>2, <2>3 DEF Voices, VoiceOK
  <2> QED BY <1>2, <1>3, <2>1, <2>2, <2>4
<1>4. ASSUME NEW at \in Paths, NewVoice(at, "outgoing"),
             \/ /\ phone' = [phone EXCEPT ![p].step = "row", ![p].path = at, ![p].no = lastCall']
                /\ voiceLock' = "free"
             \/ at = Line /\ UNCHANGED <<phone, voiceLock>>
      PROVE  CallInv'
  <2>1. /\ voice' \in [Paths -> Voices] /\ lastCall' \in 0..MaxVoice
        /\ \A q \in Paths : VoiceOK(q, voice'[q], spoken)
        /\ at \in {Line, lastCall'}
    BY <1>4, NewVoiceIs
  <2>2. VoiceTypes' /\ VoicesOK'
    BY <1>1, <1>4, <2>1 DEF CallInv, VoiceTypes, VoicesOK
  <2>3. CASE phone' = [phone EXCEPT ![p].step = "row", ![p].path = at, ![p].no = lastCall']
    <3>1. at # Line => lastCall' = at
      BY <2>1
    <3> QED BY <1>2, <2>1, <2>2, <2>3, <3>1
  <2>4. CASE UNCHANGED phone
    <3>1. phone' = [phone EXCEPT ![p] = j]
      BY <1>1, <2>4
    <3> QED BY <1>1, <2>2, <3>1, TalkStep
  <2> QED BY <1>4, <2>3, <2>4
<1> QED BY <1>3, <1>4 DEF Dial

LEMMA AnswerCallStep ==
  ASSUME CallInv, NEW p \in Phones, AnswerCall(p)
  PROVE  CallInv'
<1> DEFINE j == phone[p]
           at == j.path
<1>1. /\ j.op = "answer" /\ j.step = "act" /\ voiceLock' = "free"
      /\ UNCHANGED <<lastCall, rows, tracked, voiceAsks>>
      /\ j \in PhoneType /\ phone \in [Phones -> PhoneType] /\ JobOK(j, rows, tracked, spoken)
      /\ at \in Paths
  BY PhoneIs DEF AnswerCall, At, PhoneType
<1>2. /\ voice[at] \in Voices /\ VoiceOK(at, voice[at], spoken) /\ voice \in [Paths -> Voices]
      /\ spoken \subseteq 1..MaxVoice
  BY <1>1 DEF CallInv, VoiceTypes, VoicesOK
<1>3. \/ /\ voice[at].state = "ringing"
         /\ voice' = [voice EXCEPT ![at].state = "active"]
         /\ spoken' = spoken \cup {voice[at].no}
      \/ at = Line /\ UNCHANGED <<voice, spoken>>
  BY DEF AnswerCall, AnsweredAnyway
<1>4. /\ VoiceTypes' /\ VoicesOK' /\ spoken \subseteq spoken'
      /\ at # Line => at \in spoken'
  <2>1. CASE /\ voice[at].state = "ringing"
             /\ voice' = [voice EXCEPT ![at].state = "active"]
             /\ spoken' = spoken \cup {voice[at].no}
    <3> DEFINE new == [voice[at] EXCEPT !.state = "active"]
    <3>1. voice[at] # NoVoice
      BY <2>1, CallBounds
    <3>2. voice[at].no \in 1..MaxVoice /\ (at # Line => voice[at].no = at)
      BY <1>2, <3>1, CallBounds DEF VoiceOK, Voices
    <3>3. new \in Voices /\ new.no = voice[at].no /\ voice' = [voice EXCEPT ![at] = new]
      BY <1>2, <2>1 DEF Voices
    <3> HIDE DEF new
    <3>4. VoiceOK(at, new, spoken')
      BY <1>2, <2>1, <3>1, <3>2, <3>3 DEF VoiceOK
    <3>5. VoicesOK'
      BY <1>2, <2>1, <3>3, <3>4, SaidStays DEF CallInv, VoicesOK
    <3>6. VoiceTypes'
      BY <1>1, <1>2, <2>1, <3>2, <3>3 DEF CallInv, VoiceTypes
    <3> QED BY <2>1, <3>2, <3>5, <3>6
  <2>2. CASE at = Line /\ UNCHANGED <<voice, spoken>>
    BY <1>1, <2>2 DEF CallInv, VoiceTypes, VoicesOK
  <2> QED BY <1>3, <2>1, <2>2
<1>5. CASE j.seen = {}
  <2>1. Finishes(p)
    BY <1>5 DEF AnswerCall
  <2> QED BY <1>1, <1>4, <2>1, PhoneEndsStep
<1>6. CASE j.seen # {}
  <2>1. PICK c \in j.seen : phone' = [phone EXCEPT ![p].step = "row", ![p].no = c.no]
    BY <1>6 DEF AnswerCall
  <2> DEFINE new == [j EXCEPT !.step = "row", !.no = c.no]
  <2>2. /\ c \in ShownType /\ c.path = at /\ (c.path # Line => c.no = c.path)
        /\ \A d \in j.seen : ShownOK(d, spoken)
    BY <1>1 DEF PhoneType, JobOK
  <2>3. /\ new \in PhoneType /\ new.op = "answer" /\ new.step = "row" /\ new.path = at
        /\ new.no = c.no /\ new.seen = j.seen
    BY <1>1, <2>2 DEF PhoneType, ShownType
  <2>4. phone' = [phone EXCEPT ![p] = new]
    BY <1>1, <2>1
  <2> HIDE DEF new
  <2>5. JobOK(new, rows, tracked, spoken')
    BY <1>4, <2>2, <2>3, SaidStays DEF JobOK
  <2> QED BY <1>1, <1>4, <2>3, <2>4, <2>5, TalkStep
<1> QED BY <1>5, <1>6

LEMMA HangUpStep ==
  ASSUME CallInv, NEW p \in Phones, HangUp(p)
  PROVE  CallInv'
<1> DEFINE j == phone[p]
           seen == IF j.seen = {} THEN {Unseen(j.path)} ELSE j.seen
           new == [j EXCEPT !.step = "log", !.seen = seen]
<1>1. /\ j \in PhoneType /\ phone \in [Phones -> PhoneType] /\ j.path \in Paths
      /\ \A c \in j.seen : c \in ShownType /\ ShownOK(c, spoken)
  BY PhoneIs DEF PhoneType
<1>2. /\ voice' = [voice EXCEPT ![j.path] = NoVoice]
      /\ UNCHANGED <<lastCall, rows, tracked, voiceLock, voiceAsks, spoken>>
      /\ phone' = [phone EXCEPT ![p] = new]
  BY <1>1 DEF HangUp
<1>3. \A c \in seen : c \in ShownType /\ ShownOK(c, spoken)
  BY <1>1, CallBounds DEF Unseen, ShownType, ShownOK
<1>4. new \in PhoneType /\ new.step = "log" /\ new.seen = seen
  BY <1>1, <1>3 DEF PhoneType
<1> HIDE DEF new, seen
<1>5. JobOK(new, rows, tracked, spoken)
  BY <1>3, <1>4 DEF JobOK
<1>6. VoiceOK(j.path, NoVoice, spoken)
  BY CallBounds DEF VoiceOK
<1>7. VoiceTypes' /\ VoicesOK'
  BY <1>1, <1>2, <1>6, CallBounds DEF CallInv, VoiceTypes, VoicesOK
<1> QED BY <1>2, <1>4, <1>5, <1>7, TalkStep

LEMMA HangUpAllStep ==
  ASSUME CallInv, NEW p \in Phones, HangUpAll(p)
  PROVE  CallInv'
<1> DEFINE j == phone[p]
           new == [j EXCEPT !.step = "log"]
<1>1. /\ j \in PhoneType /\ phone \in [Phones -> PhoneType]
      /\ \A c \in j.seen : c \in ShownType /\ ShownOK(c, spoken)
  BY PhoneIs
<1>2. /\ voice' = IF Live(Line) THEN [voice EXCEPT ![Line] = NoVoice]
                                ELSE [q \in Paths |-> NoVoice]
      /\ voiceLock' = "free" /\ UNCHANGED <<lastCall, rows, tracked, voiceAsks, spoken>>
      /\ IF j.seen = {} THEN Finishes(p) ELSE Goes(p, "log")
  BY DEF HangUpAll
<1>3. \A q \in Paths : VoiceOK(q, NoVoice, spoken)
  BY CallBounds DEF VoiceOK
<1>4. VoiceTypes' /\ VoicesOK'
  <2>1. \A q \in Paths : voice'[q] \in {voice[q], NoVoice}
    BY <1>2, CallBounds DEF CallInv, VoiceTypes
  <2>2. voice' \in [Paths -> Voices]
    BY <1>2, CallBounds DEF CallInv, VoiceTypes
  <2>3. VoicesOK'
    BY <1>2, <1>3, <2>1 DEF CallInv, VoicesOK
  <2> QED BY <1>2, <2>2, <2>3 DEF CallInv, VoiceTypes
<1>5. CASE j.seen = {}
  BY <1>2, <1>4, <1>5, PhoneEndsStep
<1>6. CASE j.seen # {}
  <2>1. phone' = [phone EXCEPT ![p] = new]
    BY <1>1, <1>2, <1>6 DEF Goes
  <2>2. new \in PhoneType /\ new.step = "log" /\ new.seen = j.seen
    BY <1>1 DEF PhoneType
  <2> HIDE DEF new
  <2>3. JobOK(new, rows, tracked, spoken)
    BY <1>1, <2>2 DEF JobOK
  <2> QED BY <1>2, <1>4, <2>1, <2>2, <2>3, TalkStep
<1> QED BY <1>5, <1>6


(* A request writes to the history.                                         *)
LEMMA HistoryStep ==
  ASSUME CallInv, NEW p \in Phones, NEW new \in PhoneType,
         phone' = [phone EXCEPT ![p] = new],
         UNCHANGED <<voice, lastCall, voiceLock, voiceAsks, spoken>>,
         rows' \in Seq(CallRowType), Len(rows') <= MaxRows,
         tracked' \in [Paths -> [id : 0..MaxRows, answered : BOOLEAN]],
         JobOK(new, rows', tracked', spoken), RowsOK', EntriesOK',
         \A q \in Phones \ {p} : phone[q].step = "track" =>
           /\ PendingOK(phone[q], rows', tracked')
           /\ new.step = "track" => phone[q].id # new.id
  PROVE  CallInv'
<1> USE DEF CallInv
<1>1. /\ phone'[p] = new /\ \A q \in Phones \ {p} : phone'[q] = phone[q]
      /\ LogTypes'
  BY DEF LogTypes
<1>2. JobsOK'
  <2> SUFFICES ASSUME NEW q \in Phones PROVE JobOK(phone'[q], rows', tracked', spoken)
    BY DEF JobsOK
  <2>1. CASE q = p
    BY <1>1, <2>1
  <2>2. CASE q # p
    <3>1. JobOK(phone[q], rows, tracked, spoken)
      BY DEF JobsOK
    <3> QED BY <1>1, <2>2, <3>1 DEF JobOK
  <2> QED BY <2>1, <2>2
<1>3. TracksApart'
  BY <1>1 DEF TracksApart
<1>4. VoiceTypes' /\ VoicesOK'
  BY DEF VoiceTypes, VoicesOK
<1> QED BY <1>1, <1>2, <1>3, <1>4

LEMMA LogIs ==
  ASSUME CallInv
  PROVE  /\ rows \in Seq(CallRowType) /\ Len(rows) \in Nat /\ Len(rows) <= MaxRows
         /\ MaxRows \in Nat
         /\ \A i \in 1..Len(rows) : rows[i] \in CallRowType /\ RowOK(rows[i], spoken)
         /\ tracked \in [Paths -> [id : 0..MaxRows, answered : BOOLEAN]]
         /\ \A q \in Paths : tracked[q].id \in 0..MaxRows /\ EntryOK(q, tracked[q], rows, spoken)
         /\ \A p \in Phones : phone[p].step = "track" => PendingOK(phone[p], rows, tracked)
<1>1. rows \in Seq(CallRowType) /\ Len(rows) <= MaxRows /\ MaxRows \in Nat
  BY CallBounds DEF CallInv, LogTypes
<1>2. Len(rows) \in Nat /\ \A i \in 1..Len(rows) : rows[i] \in CallRowType
  BY <1>1, QueueIs
<1> QED BY <1>1, <1>2 DEF CallInv, LogTypes, RowsOK, EntriesOK, JobsOK, JobOK

LEMMA WriteRowStep ==
  ASSUME CallInv, NEW p \in Phones, WriteRow(p)
  PROVE  CallInv'
<1> DEFINE j == phone[p]
           dir == IF j.op = "answer" THEN "incoming" ELSE "outgoing"
           added == CallRow(dir, j.op = "answer", FALSE, j.no, j.path)
           n == Len(rows)
<1>1. /\ j.step = "row" /\ UNCHANGED <<voice, lastCall, tracked, voiceLock, voiceAsks, spoken>>
      /\ j \in PhoneType /\ phone \in [Phones -> PhoneType] /\ JobOK(j, rows, tracked, spoken)
  BY PhoneIs DEF WriteRow
<1>2. CASE Finishes(p) /\ UNCHANGED rows
  <2>1. VoiceTypes' /\ VoicesOK'
    BY <1>1 DEF CallInv, VoiceTypes, VoicesOK
  <2> QED BY <1>1, <1>2, <2>1, PhoneEndsStep
<1>3. CASE /\ n < MaxRows /\ rows' = Append(rows, added)
           /\ phone' = [phone EXCEPT ![p].step = "track", ![p].id = Len(rows')]
  <2>1. added \in CallRowType
    <3>1. (j.op = "answer") \in BOOLEAN /\ j.no \in 0..MaxVoice /\ j.path \in Paths
      BY <1>1 DEF PhoneType
    <3> QED BY <3>1 DEF CallRow, CallRowType
  <2>2. /\ added.path = j.path /\ added.call = j.no /\ ~added.ended /\ added.dir = dir
        /\ added.answered <=> j.op = "answer"
    BY DEF CallRow
  <2> HIDE DEF added
  <2>3. /\ rows' \in Seq(CallRowType) /\ Len(rows') = n + 1 /\ rows'[n + 1] = added
        /\ \A i \in 1..n : rows'[i] = rows[i]
    BY <1>3, <2>1, LogIs, QueueIs
  <2> DEFINE new == [j EXCEPT !.step = "track", !.id = Len(rows')]
  <2>4. n \in Nat /\ n + 1 \in 0..MaxRows /\ n + 1 <= MaxRows
    BY <1>3, LogIs
  <2>5. /\ new \in PhoneType /\ new.id = n + 1 /\ new.step = "track" /\ new.seen = j.seen
        /\ new.op = j.op /\ new.path = j.path /\ new.no = j.no
    BY <1>1, <2>3, <2>4 DEF PhoneType
  <2>6. phone' = [phone EXCEPT ![p] = new]
    BY <1>1, <1>3
  <2> HIDE DEF new, n
  <2>7. \A q \in Paths : tracked[q].id # n + 1
    <3> SUFFICES ASSUME NEW q \in Paths, tracked[q].id = n + 1 PROVE FALSE
      OBVIOUS
    <3>1. EntryOK(q, tracked[q], rows, spoken) /\ n = Len(rows)
      BY LogIs DEF n
    <3> QED BY <2>4, <3>1 DEF EntryOK
  <2>8. \A q \in Phones : phone[q].step = "track" =>
          PendingOK(phone[q], rows', tracked') /\ phone[q].id # n + 1
    <3> SUFFICES ASSUME NEW q \in Phones, phone[q].step = "track"
                 PROVE  PendingOK(phone[q], rows', tracked') /\ phone[q].id # n + 1
      OBVIOUS
    <3>1. PendingOK(phone[q], rows, tracked) /\ n = Len(rows)
      BY <3>1, LogIs DEF n
    <3> QED BY <1>1, <2>3, <2>4, <3>1 DEF PendingOK
  <2>9. PendingOK(new, rows', tracked')
    BY <1>1, <2>2, <2>3, <2>4, <2>5, <2>7 DEF PendingOK
  <2>10. JobOK(new, rows', tracked', spoken)
    BY <1>1, <2>5, <2>9 DEF JobOK
  <2>11. RowOK(added, spoken)
    BY <1>1, <2>2 DEF RowOK, JobOK
  <2>12. RowsOK'
    <3> SUFFICES ASSUME NEW i \in 1..(n + 1) PROVE RowOK(rows'[i], spoken)
      BY <1>1, <2>3 DEF RowsOK
    <3>1. CASE i \in 1..n
      <4>1. RowOK(rows[i], spoken)
        BY <3>1, LogIs DEF n
      <4> QED BY <2>3, <3>1, <4>1
    <3>2. CASE i = n + 1
      BY <2>3, <2>11, <3>2
    <3> QED BY <2>4, <3>1, <3>2
  <2>13. EntriesOK'
    <3> SUFFICES ASSUME NEW q \in Paths PROVE EntryOK(q, tracked[q], rows', spoken)
      BY <1>1 DEF EntriesOK
    <3>1. EntryOK(q, tracked[q], rows, spoken) /\ n = Len(rows)
      BY LogIs DEF n
    <3> QED BY <2>3, <2>4, <3>1 DEF EntryOK
  <2>14. /\ tracked' \in [Paths -> [id : 0..MaxRows, answered : BOOLEAN]]
         /\ Len(rows') <= MaxRows
    BY <1>1, <2>3, <2>4, LogIs
  <2>15. /\ UNCHANGED <<voice, lastCall, voiceLock, voiceAsks, spoken>>
         /\ \A q \in Phones \ {p} : phone[q].step = "track" =>
              /\ PendingOK(phone[q], rows', tracked')
              /\ new.step = "track" => phone[q].id # new.id
    BY <1>1, <2>5, <2>8
  <2> HIDE DEF j, dir
  <2> QED BY <2>3, <2>5, <2>6, <2>10, <2>12, <2>13, <2>14, <2>15, HistoryStep
<1> QED BY <1>2, <1>3 DEF WriteRow


LEMMA TrackStep ==
  ASSUME CallInv, NEW p \in Phones, Track(p)
  PROVE  CallInv'
<1> DEFINE j == phone[p]
           entry == [id |-> j.id, answered |-> j.op = "answer"]
<1>1. /\ j.step = "track" /\ UNCHANGED <<voice, lastCall, rows, voiceLock, voiceAsks, spoken>>
      /\ tracked' = [tracked EXCEPT ![j.path] = entry]
      /\ phone' = [phone EXCEPT ![p] = Resting]
      /\ j \in PhoneType /\ JobOK(j, rows, tracked, spoken) /\ j.path \in Paths
  BY PhoneIs DEF Track, Finishes, PhoneType
<1>2. PendingOK(j, rows, tracked)
  BY <1>1 DEF JobOK
<1>3. /\ entry \in [id : 0..MaxRows, answered : BOOLEAN] /\ entry.id = j.id
      /\ entry.answered <=> j.op = "answer"
  <2>1. (j.op = "answer") \in BOOLEAN /\ j.id \in 0..MaxRows
    BY <1>1 DEF PhoneType
  <2> QED BY <2>1
<1> HIDE DEF entry
<1>4. EntryOK(j.path, entry, rows, spoken)
  BY <1>1, <1>2, <1>3 DEF EntryOK, PendingOK, JobOK
<1>5. /\ tracked' \in [Paths -> [id : 0..MaxRows, answered : BOOLEAN]]
      /\ tracked'[j.path] = entry /\ \A q \in Paths \ {j.path} : tracked'[q] = tracked[q]
  BY <1>1, <1>3, LogIs
<1>6. EntriesOK'
  <2> SUFFICES ASSUME NEW q \in Paths PROVE EntryOK(q, tracked'[q], rows, spoken)
    BY <1>1 DEF EntriesOK
  <2>1. EntryOK(q, tracked[q], rows, spoken)
    BY LogIs
  <2> QED BY <1>4, <1>5, <2>1
<1>7. RowsOK'
  BY <1>1 DEF CallInv, RowsOK
<1>8. \A q \in Phones \ {p} : phone[q].step = "track" => PendingOK(phone[q], rows', tracked')
  <2> SUFFICES ASSUME NEW q \in Phones \ {p}, phone[q].step = "track"
               PROVE  PendingOK(phone[q], rows, tracked')
    BY <1>1
  <2>1. PendingOK(phone[q], rows, tracked) /\ phone[q].id # j.id
    BY <1>1, LogIs DEF CallInv, TracksApart
  <2> QED BY <1>3, <1>5, <2>1 DEF PendingOK
<1>9. /\ Resting \in PhoneType /\ JobOK(Resting, rows', tracked', spoken)
      /\ Resting.step # "track"
  BY CallBounds, RestingOK
<1>10. rows' \in Seq(CallRowType) /\ Len(rows') <= MaxRows
  BY <1>1, LogIs
<1> HIDE DEF j
<1> QED BY <1>1, <1>5, <1>6, <1>7, <1>8, <1>9, <1>10, HistoryStep

LEMMA MarkStep ==
  ASSUME CallInv, NEW p \in Phones, Mark(p)
  PROVE  CallInv'
<1> DEFINE seen == phone[p].seen
           Shows(q) == tracked[q].id # 0 /\ \E c \in seen : c.path = q /\ c.state = "active"
<1>1. /\ UNCHANGED <<voice, lastCall, rows, voiceLock, voiceAsks, spoken>>
      /\ tracked' = [q \in Paths |-> IF Shows(q) THEN [tracked[q] EXCEPT !.answered = TRUE]
                                                 ELSE tracked[q]]
      /\ phone' = [phone EXCEPT ![p] = Resting]
  BY DEF Mark, Finishes
<1>2. \A c \in seen : ShownOK(c, spoken)
  BY PhoneIs
<1>3. \A q \in Paths : /\ tracked'[q] \in [id : 0..MaxRows, answered : BOOLEAN]
                       /\ tracked'[q].id = tracked[q].id
                       /\ tracked[q].answered => tracked'[q].answered
                       /\ tracked'[q].answered =>
                            \/ tracked[q].answered
                            \/ \E c \in seen : c.path = q /\ c.state = "active"
  BY <1>1, LogIs
<1>4. tracked' \in [Paths -> [id : 0..MaxRows, answered : BOOLEAN]]
  BY <1>1, <1>3
<1>5. EntriesOK'
  <2> SUFFICES ASSUME NEW q \in Paths PROVE EntryOK(q, tracked'[q], rows, spoken)
    BY <1>1 DEF EntriesOK
  <2>1. EntryOK(q, tracked[q], rows, spoken)
    BY LogIs
  <2>2. ASSUME NEW c \in seen, c.path = q, c.state = "active", q # Line
        PROVE  q \in spoken
    BY <1>2, <2>2 DEF ShownOK
  <2> QED BY <1>3, <2>1, <2>2 DEF EntryOK
<1>6. \A q \in Phones \ {p} : phone[q].step = "track" => PendingOK(phone[q], rows', tracked')
  <2> SUFFICES ASSUME NEW q \in Phones \ {p}, phone[q].step = "track"
               PROVE  PendingOK(phone[q], rows, tracked')
    BY <1>1
  <2>1. PendingOK(phone[q], rows, tracked)
    BY LogIs
  <2> QED BY <1>3, <2>1 DEF PendingOK
<1>7. RowsOK'
  BY <1>1 DEF CallInv, RowsOK
<1>8. /\ Resting \in PhoneType /\ JobOK(Resting, rows', tracked', spoken)
      /\ Resting.step # "track"
  BY CallBounds, RestingOK
<1>9. rows' \in Seq(CallRowType) /\ Len(rows') <= MaxRows
  BY <1>1, LogIs
<1> QED BY <1>1, <1>4, <1>5, <1>6, <1>7, <1>8, <1>9, HistoryStep

(* One element of a sequence is replaced, or each by another of the kind.   *)
LEMMA ElementSet ==
  ASSUME NEW S, NEW q \in Seq(S), NEW i \in 1..Len(q), NEW e \in S
  PROVE  /\ [q EXCEPT ![i] = e] \in Seq(S) /\ Len([q EXCEPT ![i] = e]) = Len(q)
         /\ [q EXCEPT ![i] = e][i] = e
         /\ \A k \in 1..Len(q) : k # i => [q EXCEPT ![i] = e][k] = q[k]
OBVIOUS

(* finish_tracked_call: the row of the entry is ended, and no other changes *)
LEMMA FinishIs ==
  ASSUME CallInv, NEW c \in ShownType, ShownOK(c, spoken)
  PROVE  LET e == tracked[c.path]
             rs == Finish(c).rows
         IN  /\ rs \in Seq(CallRowType) /\ Len(rs) = Len(rows)
             /\ \A i \in 1..Len(rows) : RowOK(rs[i], spoken) /\ (i # e.id => rs[i] = rows[i])
             /\ Finish(c).tracked = [tracked EXCEPT ![c.path] = NoRecord]
<1> DEFINE e == tracked[c.path]
           answered == e.answered \/ c.state = "active"
           new == [rows[e.id] EXCEPT !.ended = TRUE, !.answered = answered]
           rs == Finish(c).rows
<1>1. c.path \in Paths /\ EntryOK(c.path, e, rows, spoken)
  BY LogIs DEF ShownType
<1>2. /\ Finish(c).tracked = [tracked EXCEPT ![c.path] = NoRecord]
      /\ rs = IF e.id = 0 THEN rows ELSE EndRow(e.id, answered)
  BY DEF Finish
<1>3. CASE rs = rows
  BY <1>2, <1>3, LogIs
<1>4. CASE rs # rows
  <2>1. e.id # 0 /\ e.id \in 1..Len(rows) /\ rows[e.id].path = c.path
    BY <1>1, <1>2, <1>4 DEF EntryOK
  <2>2. answered \in BOOLEAN
    <3>1. e.answered \in BOOLEAN
      BY <1>1, LogIs
    <3> QED BY <3>1
  <2>3. rs = [rows EXCEPT ![e.id] = new]
    BY <1>2, <1>4, <2>1 DEF EndRow
  <2> HIDE DEF answered
  <2>4. /\ new \in CallRowType /\ new.ended /\ new.answered = answered
        /\ new.path = rows[e.id].path /\ new.call = rows[e.id].call /\ new.dir = rows[e.id].dir
    BY <2>1, <2>2, LogIs DEF CallRowType
  <2> HIDE DEF new
  <2>5. RowOK(new, spoken)
    <3>1. RowOK(rows[e.id], spoken)
      BY <2>1, LogIs
    <3>2. new.dir = "incoming" => new.answered
      BY <1>1, <2>1, <2>4 DEF EntryOK, answered
    <3>3. new.answered /\ new.path # Line => new.call \in spoken
      <4>1. new.path # Line => new.call = c.path
        BY <2>1, <2>4, <3>1 DEF RowOK
      <4>2. e.answered /\ c.path # Line => c.path \in spoken
        BY <1>1, <2>1 DEF EntryOK
      <4>3. c.state = "active" /\ c.path # Line => c.path \in spoken
        BY DEF ShownOK
      <4> QED BY <2>1, <2>4, <4>1, <4>2, <4>3 DEF answered
    <3> QED BY <2>4, <3>1, <3>2, <3>3 DEF RowOK
  <2>6. /\ rs \in Seq(CallRowType) /\ Len(rs) = Len(rows) /\ rs[e.id] = new
        /\ \A k \in 1..Len(rows) : k # e.id => rs[k] = rows[k]
    BY <2>1, <2>3, <2>4, LogIs, ElementSet
  <2>7. \A i \in 1..Len(rows) : RowOK(rs[i], spoken)
    BY <2>5, <2>6, LogIs
  <2> QED BY <1>2, <2>6, <2>7
<1> QED BY <1>3, <1>4


(* A call is finished: what other entries and requests hold is not touched. *)
LEMMA CloseStep ==
  ASSUME CallInv, NEW p \in Phones, Close(p)
  PROVE  CallInv'
<1> DEFINE j == phone[p]
           n == Len(rows)
<1>1. /\ j \in PhoneType /\ phone \in [Phones -> PhoneType] /\ JobOK(j, rows, tracked, spoken)
      /\ \A c \in j.seen : c \in ShownType /\ ShownOK(c, spoken)
      /\ j.step = "log" /\ UNCHANGED <<voice, lastCall, voiceLock, voiceAsks, spoken>>
  BY PhoneIs DEF Close
<1>2. PICK c \in j.seen :
        /\ tracked' = Finish(c).tracked
        /\ \/ c.state = "ringing" /\ Len(rows) < MaxRows
              /\ rows' = Append(Finish(c).rows, CallRow("missed", FALSE, FALSE, c.no, c.path))
           \/ rows' = Finish(c).rows
        /\ IF j.seen = {c} THEN Finishes(p)
           ELSE phone' = [phone EXCEPT ![p].seen = @ \ {c}]
  BY DEF Close
<1>3. c \in ShownType /\ ShownOK(c, spoken) /\ c.path \in Paths
  BY <1>1 DEF ShownType
<1> DEFINE rs == Finish(c).rows
           id == tracked[c.path].id
           added == CallRow("missed", FALSE, FALSE, c.no, c.path)
<1>4. /\ rs \in Seq(CallRowType) /\ Len(rs) = n
      /\ \A i \in 1..n : RowOK(rs[i], spoken) /\ (i # id => rs[i] = rows[i])
      /\ tracked' = [tracked EXCEPT ![c.path] = NoRecord]
  BY <1>2, <1>3, FinishIs
<1>5. n \in Nat /\ n <= MaxRows /\ MaxRows \in Nat
  BY LogIs
<1>6. c.state = "ringing" => added \in CallRowType /\ RowOK(added, spoken)
  BY <1>3 DEF CallRow, CallRowType, ShownType, RowOK, ShownOK
<1>7. \/ c.state = "ringing" /\ n < MaxRows /\ rows' = Append(rs, added)
      \/ rows' = rs
  BY <1>2
<1> HIDE DEF rs, added, n
<1>8. /\ rows' \in Seq(CallRowType) /\ Len(rows') \in {n, n + 1} /\ Len(rows') <= MaxRows
      /\ \A i \in 1..Len(rows') : RowOK(rows'[i], spoken)
      /\ \A i \in 1..n : i # id => rows'[i] = rows[i]
  <2>1. CASE rows' = rs
    BY <1>4, <1>5, <2>1
  <2>2. CASE c.state = "ringing" /\ n < MaxRows /\ rows' = Append(rs, added)
    <3>1. /\ rows' \in Seq(CallRowType) /\ Len(rows') = n + 1 /\ rows'[n + 1] = added
          /\ \A i \in 1..n : rows'[i] = rs[i]
      BY <1>4, <1>6, <2>2, QueueIs
    <3>2. \A i \in 1..(n + 1) : i \in 1..n \/ i = n + 1
      BY <1>5
    <3> QED BY <1>4, <1>5, <1>6, <2>2, <3>1, <3>2
  <2> QED BY <1>7, <2>1, <2>2
<1>9. \A i \in 1..n : i \in 1..Len(rows')
  BY <1>5, <1>8
<1>10. EntryOK(c.path, tracked[c.path], rows, spoken)
  BY <1>3, LogIs
<1>11. \A q \in Paths : /\ q # c.path => tracked'[q] = tracked[q]
                        /\ q = c.path => tracked'[q] = NoRecord
  BY <1>3, <1>4, LogIs
<1>12. tracked' \in [Paths -> [id : 0..MaxRows, answered : BOOLEAN]]
  BY <1>4, LogIs, CallBounds
<1>13. EntriesOK'
  <2> SUFFICES ASSUME NEW q \in Paths PROVE EntryOK(q, tracked'[q], rows', spoken)
    BY <1>1 DEF EntriesOK
  <2>1. CASE q = c.path
    BY <1>11, <2>1, CallBounds DEF EntryOK
  <2>2. CASE q # c.path /\ tracked[q].id # 0
    <3>1. /\ EntryOK(q, tracked[q], rows, spoken) /\ tracked[q].id \in 1..n
          /\ rows[tracked[q].id].path = q
      BY <2>2, LogIs DEF EntryOK, n
    <3>2. tracked[q].id # id
      BY <1>10, <2>2, <3>1 DEF EntryOK
    <3>3. rows'[tracked[q].id] = rows[tracked[q].id]
      BY <1>8, <3>1, <3>2
    <3> QED BY <1>9, <1>11, <2>2, <3>1, <3>3 DEF EntryOK
  <2>3. CASE q # c.path /\ tracked[q].id = 0
    BY <1>11, <2>3 DEF EntryOK
  <2> QED BY <2>1, <2>2, <2>3
<1>14. \A q \in Phones \ {p} : phone[q].step = "track" => PendingOK(phone[q], rows', tracked')
  <2> SUFFICES ASSUME NEW q \in Phones \ {p}, phone[q].step = "track"
               PROVE  PendingOK(phone[q], rows', tracked')
    OBVIOUS
  <2>1. PendingOK(phone[q], rows, tracked) /\ phone[q].id \in 1..n
    BY LogIs DEF PendingOK, n
  <2>2. phone[q].id # id
    BY <1>3, <2>1 DEF PendingOK
  <2>3. rows'[phone[q].id] = rows[phone[q].id]
    BY <1>8, <2>1, <2>2
  <2>4. phone[q].id # 0
    BY <1>5, <2>1
  <2>5. \A r \in Paths : tracked'[r].id # phone[q].id
    BY <1>11, <2>1, <2>4, CallBounds DEF PendingOK
  <2> QED BY <1>9, <2>1, <2>3, <2>5 DEF PendingOK
<1>15. RowsOK'
  BY <1>1, <1>8 DEF RowsOK
<1>16. ASSUME NEW new \in PhoneType, phone' = [phone EXCEPT ![p] = new],
              JobOK(new, rows', tracked', spoken), new.step # "track"
       PROVE  CallInv'
  <2>1. /\ rows' \in Seq(CallRowType) /\ Len(rows') <= MaxRows
        /\ UNCHANGED <<voice, lastCall, voiceLock, voiceAsks, spoken>>
    BY <1>1, <1>8
  <2> HIDE DEF j
  <2> QED BY <1>12, <1>13, <1>14, <1>15, <1>16, <2>1, HistoryStep
<1>17. CASE j.seen = {c}
  BY <1>2, <1>16, <1>17, CallBounds, RestingOK DEF Finishes
<1>18. CASE j.seen # {c}
  <2> DEFINE new == [j EXCEPT !.seen = j.seen \ {c}]
  <2>1. phone' = [phone EXCEPT ![p] = new]
    BY <1>1, <1>2, <1>18
  <2>2. new \in PhoneType /\ new.seen = j.seen \ {c} /\ new.step = "log"
    BY <1>1 DEF PhoneType
  <2> HIDE DEF new
  <2>3. JobOK(new, rows', tracked', spoken)
    BY <1>1, <2>2 DEF JobOK
  <2> QED BY <1>16, <2>1, <2>2, <2>3
<1> QED BY <1>17, <1>18

LEMMA DeleteRowsStep ==
  ASSUME CallInv, DeleteRows
  PROVE  CallInv'
<1>1. /\ UNCHANGED <<voice, lastCall, tracked, voiceLock, phone, spoken>>
      /\ voiceAsks < MaxVoiceAsks /\ voiceAsks' = voiceAsks + 1
  BY DEF DeleteRows
<1>2. PICK I : rows' = [i \in 1..Len(rows) |-> IF i \in I THEN [rows[i] EXCEPT !.there = FALSE]
                                                          ELSE rows[i]]
  BY DEF DeleteRows
<1> DEFINE n == Len(rows)
<1>3. \A i \in 1..n : rows[i] \in CallRowType /\ RowOK(rows[i], spoken)
  BY LogIs
<1>4. \A i \in 1..n : /\ rows'[i] \in CallRowType /\ rows'[i].path = rows[i].path
                      /\ rows'[i].ended = rows[i].ended /\ rows'[i].dir = rows[i].dir
                      /\ rows'[i].answered = rows[i].answered /\ rows'[i].call = rows[i].call
  BY <1>2, <1>3 DEF CallRowType
<1>5. n \in Nat /\ n <= MaxRows
  BY LogIs
<1> HIDE DEF n
<1>6. rows' \in Seq(CallRowType) /\ Len(rows') = n
  BY <1>2, <1>4, <1>5 DEF n
<1>7. RowsOK'
  <2>1. \A i \in 1..n : RowOK(rows'[i], spoken)
    BY <1>3, <1>4 DEF RowOK
  <2> QED BY <1>1, <1>6, <2>1 DEF RowsOK
<1>8. EntriesOK'
  <2> SUFFICES ASSUME NEW q \in Paths PROVE EntryOK(q, tracked[q], rows', spoken)
    BY <1>1 DEF EntriesOK
  <2>1. EntryOK(q, tracked[q], rows, spoken)
    BY LogIs
  <2> QED BY <1>4, <1>6, <2>1 DEF EntryOK, n
<1>9. JobsOK'
  <2> SUFFICES ASSUME NEW p \in Phones PROVE JobOK(phone[p], rows', tracked, spoken)
    BY <1>1 DEF JobsOK
  <2>1. JobOK(phone[p], rows, tracked, spoken)
    BY PhoneIs
  <2>2. PendingOK(phone[p], rows, tracked) => PendingOK(phone[p], rows', tracked)
    BY <1>4, <1>6 DEF PendingOK, n
  <2> QED BY <2>1, <2>2 DEF JobOK
<1>10. VoiceTypes' /\ VoicesOK'
  BY <1>1, CallBounds DEF CallInv, VoiceTypes, VoicesOK
<1>11. LogTypes' /\ TracksApart'
  BY <1>1, <1>5, <1>6 DEF CallInv, LogTypes, TracksApart
<1> QED BY <1>7, <1>8, <1>9, <1>10, <1>11 DEF CallInv

LEMMA CallInvAtInit == ASSUME CallInit PROVE CallInv
<1>1. VoiceTypes /\ LogTypes
  <2>1. <<>> \in Seq(CallRowType) /\ Len(<<>>) = 0
    OBVIOUS
  <2> QED BY <2>1, CallBounds DEF CallInit, VoiceTypes, LogTypes
<1>2. VoicesOK /\ EntriesOK
  BY CallBounds DEF CallInit, VoicesOK, VoiceOK, EntriesOK, EntryOK
<1>3. RowsOK
  <2>1. 1..Len(rows) = {}
    BY DEF CallInit
  <2> QED BY <2>1 DEF RowsOK
<1>4. JobsOK
  BY RestingOK DEF CallInit, JobsOK
<1>5. TracksApart
  BY CallBounds DEF CallInit, TracksApart
<1> QED BY <1>1, <1>2, <1>3, <1>4, <1>5 DEF CallInv

LEMMA CallInvStep ==
  ASSUME CallInv, [CallNext]_callLog
  PROVE  CallInv'
<1>1. CASE UNCHANGED callLog
  BY <1>1 DEF callLog, CallInv, VoiceTypes, LogTypes, VoicesOK, JobsOK, RowsOK, EntriesOK,
              TracksApart
<1>2. CASE VoiceStep
  BY <1>2, VoiceStepStep
<1>3. CASE DeleteRows
  BY <1>3, DeleteRowsStep
<1>4. ASSUME NEW p \in Phones, Request(p) PROVE CallInv'
  BY <1>4, AskPhoneStep, LookStep, TakeLockStep, GivesUpStep, DialStep, AnswerCallStep,
     HangUpStep, HangUpAllStep, WriteRowStep, TrackStep, MarkStep, CloseStep DEF Request
<1> QED BY <1>1, <1>2, <1>3, <1>4 DEF CallNext

LEMMA CallInvAlways == RemoteSpec => []CallInv
<1>1. RemoteInit => CallInv
  BY CallInvAtInit DEF RemoteInit
<1>2. CallInv /\ [RemoteNext]_<<area, vars, hubLife, ddns, simCard, callLog, simRecords,
                                routing, cellScan>> => CallInv'
  BY CallInvStep DEF RemoteNext, callLog
<1> QED BY <1>1, <1>2, PTL DEF RemoteSpec

(* CallsTrue: however the requests that dial, answer, list and hang up      *)
(* overlap (track_call_start, finish_tracked_call), an entry of             *)
(* active_calls stands for an open row of its own, so that no row is ended  *)
(* twice; a row of an incoming call is of one that was answered here; and a *)
(* row of a call of ModemManager that ended as answered is of a call that   *)
(* was active, which is not said of the lines of AT+CLCC.  A call may have  *)
(* several rows, or none.                                                   *)
THEOREM HistoryTellsTheCalls == RemoteSpec => []CallsTrue
<1>1. CallInv => CallsTrue
  <2> SUFFICES ASSUME CallInv PROVE CallsTrue
    OBVIOUS
  <2>1. \A q \in Open : tracked[q].id # 0 /\ EntryOK(q, tracked[q], rows, spoken)
    BY LogIs DEF Open
  <2>2. \A q \in Open : ~rows[tracked[q].id].ended /\ rows[tracked[q].id].path = q
    BY <2>1 DEF EntryOK
  <2>3. \A i \in 1..Len(rows) : RowOK(rows[i], spoken)
    BY LogIs
  <2> QED BY <2>2, <2>3 DEF CallsTrue, RowOK
<1> QED BY <1>1, CallInvAlways, PTL

-----------------------------------------------------------------------------
(* CellScan.  From the first AT command on, one record of the serving cell  *)
(* is put together, and others are listed beside it.                        *)
Mixing == stage \in {"cced", "muestats", "sband", "qnwinfo", "fill"}

(* A neighbour of AT has a cell's identity and channel; its band is that of *)
(* the channel, or was the serving cell's on the same one.                  *)
HeardOK(r, t, moved) ==
  /\ r.pci = Pci[t] /\ r.id = None /\ r.arfcn \in {None, ArfcnOf[t]}
  /\ r.arfcn \in Tabled => r.band = TowerBand(t)
  /\ r.arfcn # None /\ ~moved => r.band \in {None, TowerBand(t)}

(* The list beside the serving record, which the modem's cell left if moved.*)
ListedOK(r, moved) ==
  /\ r \in CellRecord /\ ~r.serves
  /\ \/ r.by = "mm" /\ \E t \in near : IsOf(r, t)
     \/ r.by = "at" /\ \E t \in near : HeardOK(r, t, moved)

(* A neighbour of AT is not the serving cell again.                         *)
BesideOK(r, s, bare) ==
  r.by = "at" /\ ~bare =>
    s.pci # None /\ s.arfcn # None /\ ~(r.pci = s.pci /\ r.arfcn = s.arfcn)

ServingOK(s, t, moved) ==
  /\ s \in CellRecord /\ s.serves /\ s.by \in {"mm", "mmcli"}
  /\ ~moved => IsOf(s, t)

MixInv ==
  Mixing =>
    /\ ServingOK(serving, camped, "moved" \in unsure)
    /\ \A r \in listed : /\ ListedOK(r, "moved" \in unsure)
                         /\ BesideOK(r, serving, "bare" \in unsure)
                         /\ stage \in {"cced", "muestats"} => r.by = "mm"

CellInv ==
  /\ CellTypeOK
  /\ stage \in {"rest", "qmi", "mm", "mmcli"} => listed = {}
  /\ stage # "done" => "unlabelled" \notin unsure
  /\ MixInv
  /\ CellsTold

(* The constants and helpers of CellScan.                                   *)
LEMMA CellConstants ==
  /\ None \notin Towers /\ None \notin Arfcns /\ None \notin Bands /\ None \notin Tabled
  /\ \A t \in Towers : /\ Pci[t] \in Pcis /\ ArfcnOf[t] \in Arfcns /\ TowerBand(t) \in Bands
                       /\ BandAt(ArfcnOf[t]) \in {None, TowerBand(t)}
                       /\ ArfcnOf[t] \in Tabled => BandAt(ArfcnOf[t]) = TowerBand(t)
  /\ \A a : BandAt(a) \in Bands \cup {None}
  /\ BandAt(None) = None
  /\ \A t, u \in Towers : ArfcnOf[t] = ArfcnOf[u] => TowerBand(t) = TowerBand(u)
  /\ MaxMoves \in Nat
BY CellAssumption DEF Arfcns, Bands, Pcis, TowerBand, BandAt

LEMMA Fills ==
  ASSUME NEW S, NEW x \in S \cup {None}, NEW y \in S \cup {None}
  PROVE  /\ Filled(x, y) \in {x, y} /\ (x # None => Filled(x, y) = x)
         /\ (x = None => Filled(x, y) = y)
BY DEF Filled

(* The serving record, filled in with what is of the serving cell.          *)
With(s, pci, arfcn, band, id) ==
  [s EXCEPT !.pci = Filled(@, pci), !.arfcn = Filled(@, arfcn), !.band = Filled(@, band), !.id = id]

LEMMA FilledIn ==
  ASSUME CellTypeOK, NEW s, NEW t \in Towers, NEW moved, ServingOK(s, t, moved),
         NEW pci \in {None, Pci[t]}, NEW arfcn \in {None, ArfcnOf[t]},
         NEW band \in Bands \cup {None}, ~moved => band \in {None, TowerBand(t)},
         NEW id \in {s.id, t}
  PROVE  /\ ServingOK(With(s, pci, arfcn, band, id), t, moved)
         /\ s.pci # None => With(s, pci, arfcn, band, id).pci = s.pci
         /\ s.arfcn # None => With(s, pci, arfcn, band, id).arfcn = s.arfcn
<1> DEFINE new == With(s, pci, arfcn, band, id)
<1>1. /\ s \in CellRecord /\ pci \in Pcis \cup {None} /\ arfcn \in Arfcns \cup {None}
      /\ id \in Towers \cup {None}
  BY CellConstants DEF ServingOK, CellRecord
<1>2. /\ s.pci \in Pcis \cup {None} /\ s.arfcn \in Arfcns \cup {None}
      /\ s.band \in Bands \cup {None} /\ s.serves = TRUE
  BY <1>1 DEF ServingOK, CellRecord
<1>3. /\ new.pci = Filled(s.pci, pci) /\ new.arfcn = Filled(s.arfcn, arfcn)
      /\ new.band = Filled(s.band, band) /\ new.id = id /\ new.serves = s.serves
      /\ new.by = s.by
  BY <1>1 DEF CellRecord, With
<1>4. new \in CellRecord
  <2>0. new = [s EXCEPT !.pci = Filled(s.pci, pci), !.arfcn = Filled(s.arfcn, arfcn),
                        !.band = Filled(s.band, band), !.id = id]
    BY DEF With
  <2>1. /\ Filled(s.pci, pci) \in Pcis \cup {None} /\ Filled(s.arfcn, arfcn) \in Arfcns \cup {None}
        /\ Filled(s.band, band) \in Bands \cup {None}
    BY <1>1, <1>2 DEF Filled
  <2> QED BY <1>1, <2>0, <2>1 DEF CellRecord
<1> HIDE DEF new
<1>5. ~moved => IsOf(new, t)
  BY <1>3 DEF ServingOK, IsOf, Filled
<1>6. /\ s.pci # None => new.pci = s.pci
      /\ s.arfcn # None => new.arfcn = s.arfcn
  BY <1>3 DEF Filled
<1>7. ServingOK(new, t, moved)
  BY <1>2, <1>3, <1>4, <1>5 DEF ServingOK
<1> QED BY <1>6, <1>7 DEF new

(* A step of the AT commands that lists nothing.                            *)
LEMMA MixStep ==
  ASSUME CellInv, Mixing, stage \notin {"done", "fill"},
         NEW next \in {"muestats", "sband", "qnwinfo", "fill"}, stage' = next,
         stage = "muestats" => next = "sband",
         stage = "cced" \/ next # "muestats",
         ServingOK(serving', camped, "moved" \in unsure),
         serving.pci # None => serving'.pci = serving.pci,
         serving.arfcn # None => serving'.arfcn = serving.arfcn,
         UNCHANGED <<near, camped, oneBand, listed, moves, unsure>>
  PROVE  CellInv'
<1>1. CellTypeOK'
  BY DEF CellInv, CellTypeOK, ServingOK
<1>2. MixInv'
  <2> SUFFICES ASSUME NEW r \in listed
               PROVE  /\ ListedOK(r, "moved" \in unsure)'
                      /\ BesideOK(r, serving', "bare" \in unsure)
                      /\ next \in {"cced", "muestats"} => r.by = "mm"
    BY DEF MixInv
  <2>1. /\ ListedOK(r, "moved" \in unsure) /\ BesideOK(r, serving, "bare" \in unsure)
        /\ stage \in {"cced", "muestats"} => r.by = "mm"
    BY DEF CellInv, MixInv
  <2>2. ListedOK(r, "moved" \in unsure)'
    BY <2>1 DEF ListedOK
  <2>3. BesideOK(r, serving', "bare" \in unsure)
    BY <2>1 DEF BesideOK
  <2> QED BY <2>1, <2>2, <2>3
<1>3. CellsTold'
  BY DEF CellsTold
<1> QED BY <1>1, <1>2, <1>3 DEF CellInv
LEMMA MixParts ==
  ASSUME CellInv, Mixing
  PROVE  /\ camped \in near /\ near \subseteq Towers /\ camped \in Towers
         /\ ServingOK(serving, camped, "moved" \in unsure) /\ serving \in CellRecord
         /\ \A r \in listed : /\ ListedOK(r, "moved" \in unsure)
                              /\ BesideOK(r, serving, "bare" \in unsure)
                              /\ stage \in {"cced", "muestats"} => r.by = "mm"
BY DEF CellInv, CellTypeOK, MixInv

LEMMA AskCcedStep ==
  ASSUME CellInv, AskCced
  PROVE  CellInv'
<1>1. /\ stage = "cced" /\ stage' = "muestats" /\ Mixing
      /\ UNCHANGED <<near, camped, oneBand, listed, moves, unsure>>
  BY DEF AskCced, Mixing
<1>2. /\ camped \in Towers /\ CellTypeOK /\ serving \in CellRecord
      /\ ServingOK(serving, camped, "moved" \in unsure)
  BY <1>1, MixParts DEF CellInv
<1>3. CASE UNCHANGED serving
  <2>1. ServingOK(serving', camped, "moved" \in unsure)
    BY <1>2, <1>3
  <2> QED BY <1>1, <1>3, <2>1, MixStep
<1>4. ASSUME NEW band \in {TowerBand(camped), None},
             serving' = [serving EXCEPT !.band = Filled(Filled(@, band), BandAt(ArfcnOf[camped])),
                           !.arfcn = Filled(@, ArfcnOf[camped]), !.pci = Filled(@, Pci[camped]),
                           !.id = camped]
      PROVE  CellInv'
  <2> DEFINE filling == Filled(band, BandAt(ArfcnOf[camped]))
  <2>1. filling \in {None, TowerBand(camped)} /\ filling \in Bands \cup {None}
    BY <1>2, CellConstants DEF Filled
  <2>2. serving' = With(serving, Pci[camped], ArfcnOf[camped], filling, camped)
    BY <1>2, <1>4 DEF Filled, CellRecord, With
  <2> HIDE DEF filling
  <2>3. /\ ServingOK(serving', camped, "moved" \in unsure)
        /\ serving.pci # None => serving'.pci = serving.pci
        /\ serving.arfcn # None => serving'.arfcn = serving.arfcn
    BY <1>2, <2>1, <2>2, FilledIn
  <2> QED BY <1>1, <2>3, MixStep
<1> QED BY <1>3, <1>4 DEF AskCced

LEMMA AskSbandStep ==
  ASSUME CellInv, AskSband
  PROVE  CellInv'
<1>1. /\ stage = "sband" /\ stage' = "qnwinfo" /\ Mixing
      /\ UNCHANGED <<near, camped, oneBand, listed, moves, unsure>>
  BY DEF AskSband, Mixing
<1>2. /\ camped \in Towers /\ CellTypeOK /\ serving \in CellRecord
      /\ ServingOK(serving, camped, "moved" \in unsure)
  BY <1>1, MixParts DEF CellInv
<1>3. PICK band \in {TowerBand(camped), None} : serving' = [serving EXCEPT !.band = Filled(@, band)]
  BY DEF AskSband
<1>4. serving' = With(serving, None, None, band, serving.id)
  BY <1>2, <1>3 DEF Filled, CellRecord, With
<1>5. band \in Bands \cup {None} /\ band \in {None, TowerBand(camped)}
  BY <1>2, CellConstants
<1>6. /\ ServingOK(serving', camped, "moved" \in unsure)
      /\ serving.pci # None => serving'.pci = serving.pci
      /\ serving.arfcn # None => serving'.arfcn = serving.arfcn
  BY <1>2, <1>4, <1>5, FilledIn
<1> QED BY <1>1, <1>6, MixStep

LEMMA AskQnwinfoStep ==
  ASSUME CellInv, AskQnwinfo
  PROVE  CellInv'
<1>1. /\ stage = "qnwinfo" /\ stage' = "fill" /\ Mixing
      /\ UNCHANGED <<near, camped, oneBand, listed, moves, unsure>>
  BY DEF AskQnwinfo, Mixing
<1>2. /\ camped \in Towers /\ CellTypeOK /\ serving \in CellRecord
      /\ ServingOK(serving, camped, "moved" \in unsure)
  BY <1>1, MixParts DEF CellInv
<1>3. CASE UNCHANGED serving
  <2>1. ServingOK(serving', camped, "moved" \in unsure)
    BY <1>2, <1>3
  <2> QED BY <1>1, <1>3, <2>1, MixStep
<1>4. CASE serving' = [serving EXCEPT !.band = Filled(@, TowerBand(camped)),
                                      !.arfcn = Filled(@, ArfcnOf[camped])]
  <2>1. serving' = With(serving, None, ArfcnOf[camped], TowerBand(camped), serving.id)
    BY <1>2, <1>4 DEF Filled, CellRecord, With
  <2>2. TowerBand(camped) \in Bands \cup {None}
    BY <1>2, CellConstants
  <2>3. /\ ServingOK(serving', camped, "moved" \in unsure)
        /\ serving.pci # None => serving'.pci = serving.pci
        /\ serving.arfcn # None => serving'.arfcn = serving.arfcn
    BY <1>2, <2>1, <2>2, FilledIn
  <2> QED BY <1>1, <2>3, MixStep
<1> QED BY <1>3, <1>4 DEF AskQnwinfo

(* What AT+MUESTATS lists: cells near, and not the serving one if its       *)
(* identity and channel are known.                                          *)
LEMMA NeighboursAre ==
  ASSUME CellTypeOK, camped \in Towers, NEW moved, NEW s, ServingOK(s, camped, moved),
         NEW R \in SUBSET near, NEW lacks \in SUBSET near,
         NEW bare, None \in {s.pci, s.arfcn} => bare
  PROVE  \A r \in Neighbours(s, R, lacks) :
           ListedOK(r, moved) /\ BesideOK(r, s, bare)
<1> SUFFICES ASSUME NEW t \in R, s.pci = None \/ s.arfcn = None \/ t \in lacks
                                 \/ Pci[t] # s.pci \/ ArfcnOf[t] # s.arfcn,
                    NEW r,
                    r = [pci |-> Pci[t], arfcn |-> Told(ArfcnOf[t], t \notin lacks),
                         band |-> Filled(BandAt(Told(ArfcnOf[t], t \notin lacks)),
                                     Told(s.band, t \in lacks \/ ArfcnOf[t] = s.arfcn)),
                         id |-> None, serves |-> FALSE, by |-> "at"]
             PROVE  ListedOK(r, moved) /\ BesideOK(r, s, bare)
  BY DEF Neighbours
<1>1. t \in near /\ t \in Towers
  BY DEF CellTypeOK
<1> DEFINE arfcn == Told(ArfcnOf[t], t \notin lacks)
           band == Filled(BandAt(arfcn), Told(s.band, t \in lacks \/ ArfcnOf[t] = s.arfcn))
<1>2. /\ r.pci = Pci[t] /\ r.arfcn = arfcn /\ r.band = band /\ r.id = None
      /\ r.serves = FALSE /\ r.by = "at"
  OBVIOUS
<1>3. /\ arfcn \in {None, ArfcnOf[t]} /\ (t \in lacks => arfcn = None)
      /\ (t \notin lacks => arfcn = ArfcnOf[t])
  BY DEF Told
<1>4. s.band \in Bands \cup {None} /\ s.arfcn \in Arfcns \cup {None}
  BY DEF ServingOK, CellRecord
<1>5. band \in Bands \cup {None}
  BY <1>4, CellConstants DEF Told, Filled
<1>6. r \in CellRecord
  <2>1. arfcn \in Arfcns \cup {None} /\ Pci[t] \in Pcis
    BY <1>1, <1>3, CellConstants
  <2> QED BY <1>5, <2>1 DEF CellRecord
<1>7. arfcn \in Tabled => band = TowerBand(t)
  BY <1>1, <1>3, CellConstants DEF Filled
<1>8. arfcn # None /\ ~moved => band \in {None, TowerBand(t)}
  <2> SUFFICES ASSUME arfcn # None, ~moved PROVE band \in {None, TowerBand(t)}
    OBVIOUS
  <2>1. t \notin lacks /\ arfcn = ArfcnOf[t] /\ BandAt(arfcn) \in {None, TowerBand(t)}
    BY <1>1, <1>3, CellConstants
  <2>2. ArfcnOf[t] = s.arfcn => s.band \in {None, TowerBand(t)}
    <3> SUFFICES ASSUME ArfcnOf[t] = s.arfcn PROVE s.band \in {None, TowerBand(t)}
      OBVIOUS
    <3>1. IsOf(s, camped)
      BY DEF ServingOK
    <3>2. s.arfcn = ArfcnOf[camped] /\ s.band \in {None, TowerBand(camped)}
      BY <1>1, <3>1, CellConstants DEF IsOf
    <3> QED BY <1>1, <3>2, CellConstants
  <2> QED BY <2>1, <2>2 DEF Filled, Told
<1>9. HeardOK(r, t, moved)
  BY <1>2, <1>3, <1>7, <1>8 DEF HeardOK
<1>10. BesideOK(r, s, bare)
  BY <1>1, <1>2, <1>3, CellConstants DEF BesideOK
<1> QED BY <1>1, <1>2, <1>6, <1>9, <1>10 DEF ListedOK

LEMMA AskMuestatsStep ==
  ASSUME CellInv, AskMuestats
  PROVE  CellInv'
<1> DEFINE moved == "moved" \in unsure
<1>1. /\ stage = "muestats" /\ stage' = "sband" /\ Mixing
      /\ UNCHANGED <<near, camped, oneBand, moves>>
  BY DEF AskMuestats, Mixing
<1>2. /\ camped \in Towers /\ CellTypeOK /\ serving \in CellRecord /\ near \subseteq Towers
      /\ ServingOK(serving, camped, moved)
      /\ \A r \in listed : ListedOK(r, moved) /\ r.by = "mm"
  BY <1>1, MixParts DEF CellInv
<1>3. CASE UNCHANGED <<serving, listed, unsure>>
  BY <1>1, <1>2, <1>3, MixStep
<1>4. ASSUME NEW s \in {serving, Scell}, NEW R \in SUBSET near,
             NEW lacks \in SUBSET (near \ {camped}), serving' = s,
             listed' = listed \cup Neighbours(s, R, lacks),
             unsure' = IF None \in {s.pci, s.arfcn} THEN unsure \cup {"bare"} ELSE unsure
      PROVE  CellInv'
  <2>1. ServingOK(s, camped, moved)
    <3>1. CASE s = serving
      BY <1>2, <3>1
    <3>2. CASE s = Scell
      <4>1. s = With(serving, Pci[camped], ArfcnOf[camped], BandAt(ArfcnOf[camped]), serving.id)
        BY <1>2, <3>2 DEF Scell, CellRecord, With
      <4>2. /\ BandAt(ArfcnOf[camped]) \in Bands \cup {None}
            /\ BandAt(ArfcnOf[camped]) \in {None, TowerBand(camped)}
        BY <1>2, CellConstants
      <4> QED BY <1>2, <4>1, <4>2, FilledIn
    <3> QED BY <3>1, <3>2
  <2>2. /\ "moved" \in unsure' <=> moved
        /\ None \in {s.pci, s.arfcn} => "bare" \in unsure'
    BY <1>4
  <2>3. \A r \in Neighbours(s, R, lacks) : ListedOK(r, moved) /\ BesideOK(r, s, "bare" \in unsure')
    BY <1>2, <2>1, <2>2, NeighboursAre
  <2>4. \A r \in listed : BesideOK(r, s, "bare" \in unsure')
    BY <1>2 DEF BesideOK
  <2>5. \A r \in listed' : ListedOK(r, moved) /\ BesideOK(r, s, "bare" \in unsure')
    BY <1>2, <1>4, <2>3, <2>4
  <2>6. /\ unsure' \subseteq {"moved", "twin", "unserved", "unlabelled", "bare"}
        /\ "unlabelled" \notin unsure'
    BY <1>1, <1>2, <1>4 DEF CellInv, CellTypeOK
  <2>7. s \in CellRecord /\ listed' \subseteq CellRecord
    BY <2>1, <2>5 DEF ServingOK, ListedOK
  <2>8. CellTypeOK'
    BY <1>1, <1>2, <1>4, <2>6, <2>7 DEF CellTypeOK
  <2>9. MixInv'
    <3>1. ServingOK(serving', camped', "moved" \in unsure')
      BY <1>1, <1>4, <2>1, <2>2
    <3>2. \A r \in listed' : ListedOK(r, "moved" \in unsure)'
      <4> SUFFICES ASSUME NEW r \in listed' PROVE ListedOK(r, "moved" \in unsure)'
        OBVIOUS
      <4>1. ListedOK(r, moved)
        BY <2>5
      <4> QED BY <1>1, <2>2, <4>1 DEF ListedOK, HeardOK
    <3> QED BY <1>1, <1>4, <2>5, <3>1, <3>2 DEF MixInv
  <2>10. CellsTold'
    BY <1>1 DEF CellsTold
  <2> QED BY <1>1, <2>6, <2>8, <2>9, <2>10 DEF CellInv
<1> QED
  <2>1. \/ UNCHANGED <<serving, listed, unsure>>
        \/ \E s \in {serving, Scell}, R \in SUBSET near, lacks \in SUBSET (near \ {camped}) :
             /\ serving' = s
             /\ listed' = listed \cup Neighbours(s, R, lacks)
             /\ unsure' = IF None \in {s.pci, s.arfcn} THEN unsure \cup {"bare"} ELSE unsure
    BY DEF AskMuestats
  <2> QED BY <1>3, <1>4, <2>1
LEMMA ReselectStep ==
  ASSUME CellInv, Reselect
  PROVE  CellInv'
<1>1. /\ stage \notin {"rest", "done"} /\ moves < MaxMoves /\ moves' = moves + 1
      /\ camped' \in near /\ unsure' = unsure \cup {"moved"}
      /\ UNCHANGED <<near, oneBand, stage, serving, listed>>
  BY DEF Reselect
<1>2. CellTypeOK'
  BY <1>1, CellConstants DEF CellInv, CellTypeOK
<1>3. MixInv'
  <2> SUFFICES ASSUME Mixing
               PROVE  /\ ServingOK(serving, camped', TRUE)
                      /\ \A r \in listed : /\ ListedOK(r, TRUE)'
                                           /\ BesideOK(r, serving, "bare" \in unsure)
                                           /\ stage \in {"cced", "muestats"} => r.by = "mm"
    BY <1>1 DEF MixInv, Mixing, ListedOK, ServingOK, HeardOK
  <2>1. ServingOK(serving, camped', TRUE)
    BY MixParts DEF ServingOK
  <2>2. \A r \in listed : ListedOK(r, TRUE)'
    <3> SUFFICES ASSUME NEW r \in listed PROVE ListedOK(r, TRUE)'
      OBVIOUS
    <3>1. ListedOK(r, "moved" \in unsure)
      BY MixParts
    <3> QED BY <1>1, <3>1 DEF ListedOK, HeardOK
  <2> QED BY <2>1, <2>2, MixParts
<1>4. CellsTold'
  BY <1>1 DEF CellsTold
<1> QED BY <1>1, <1>2, <1>3, <1>4 DEF CellInv

LEMMA AskCellsStep ==
  ASSUME CellInv, AskCells
  PROVE  CellInv'
BY DEF AskCells, CellInv, CellTypeOK, MixInv, Mixing, CellsTold

(* What the list of qmicli says once it is read.                            *)
QmiDone(L, doubts) ==
  /\ L \subseteq CellRecord
  /\ \A r \in L :
       /\ r.by = "qmi"
       /\ ~r.serves => \E t \in near : /\ IsOf([r EXCEPT !.band = None], t)
                                       /\ "unlabelled" \notin doubts => IsOf(r, t)
       /\ r.serves /\ doubts \subseteq {"bare", "unlabelled"} =>
            IsOf(r, camped) /\ \A q \in L : q.serves => q = r

(* The list of qmicli: each record has the identity and channel of its own  *)
(* cell, and the band that the line of a channel tells or lends.            *)
LEMMA QmiRecordIs ==
  ASSUME CellTypeOK, NEW t \in near, NEW match \in BOOLEAN, NEW blank
  PROVE  LET r == QmiRecord(t, match, blank)
         IN  /\ r \in CellRecord /\ r.by = "qmi" /\ r.serves = match
             /\ r.band = QmiBand(t, blank)
             /\ ~match => IsOf([r EXCEPT !.band = None], t)
             /\ ~match /\ QmiBand(t, blank) \in {TowerBand(t), None} => IsOf(r, t)
<1> DEFINE r == QmiRecord(t, match, blank)
<1>1. /\ t \in Towers /\ camped \in Towers
      /\ Pci[t] \in Pcis /\ ArfcnOf[t] \in Arfcns /\ TowerBand(t) \in Bands
      /\ TowerBand(camped) \in Bands
      /\ Told(camped, match) \in Towers \cup {None} /\ (~match => Told(camped, match) = None)
  BY CellConstants DEF CellTypeOK, Told
<1>2. QmiBand(t, blank) \in Bands \cup {None}
  BY <1>1 DEF QmiBand, Told
<1>3. /\ r \in CellRecord /\ r.by = "qmi" /\ r.serves = match /\ r.band = QmiBand(t, blank)
      /\ r.pci = Pci[t] /\ r.arfcn = ArfcnOf[t] /\ r.id = Told(camped, match)
  BY <1>1, <1>2 DEF QmiRecord, CellRecord
<1> HIDE DEF r
<1>4. ~match => IsOf([r EXCEPT !.band = None], t)
  <2> DEFINE q == [r EXCEPT !.band = None]
  <2>1. q.band = None /\ q.pci = r.pci /\ q.arfcn = r.arfcn /\ q.id = r.id
    BY <1>3 DEF CellRecord
  <2> HIDE DEF q
  <2>2. ~match => IsOf(q, t)
    BY <1>1, <1>3, <2>1 DEF IsOf
  <2> QED BY <2>2 DEF q
<1>5. ~match /\ QmiBand(t, blank) \in {TowerBand(t), None} => IsOf(r, t)
  BY <1>1, <1>3 DEF IsOf
<1> QED BY <1>3, <1>4, <1>5 DEF r

LEMMA QmiUnmarkedIs ==
  ASSUME CellTypeOK, NEW R \in SUBSET near, NEW blank, NEW r \in QmiUnmarked(R, blank)
  PROVE  /\ r \in CellRecord /\ r.by = "qmi" /\ ~r.serves
         /\ \E t \in near : IsOf(r, t) /\ IsOf([r EXCEPT !.band = None], t)
<1>1. PICK t \in R : r = [QmiRecord(t, FALSE, blank) EXCEPT
                           !.band = Told(TowerBand(t), ArfcnOf[t] \notin blank)]
  BY DEF QmiUnmarked
<1> DEFINE q == QmiRecord(t, FALSE, blank)
<1>2. /\ q \in CellRecord /\ q.by = "qmi" /\ q.serves = FALSE
      /\ q.pci = Pci[t] /\ q.arfcn = ArfcnOf[t] /\ q.id = None
  BY QmiRecordIs DEF QmiRecord, Told
<1>3. /\ Told(TowerBand(t), ArfcnOf[t] \notin blank) \in {TowerBand(t), None}
      /\ Told(TowerBand(t), ArfcnOf[t] \notin blank) \in Bands \cup {None}
  BY CellConstants DEF CellTypeOK, Told
<1>4. r = [q EXCEPT !.band = Told(TowerBand(t), ArfcnOf[t] \notin blank)]
  BY <1>1
<1> HIDE DEF q
<1>5. /\ r \in CellRecord /\ r.by = "qmi" /\ r.serves = FALSE /\ r.pci = Pci[t]
      /\ r.arfcn = ArfcnOf[t] /\ r.id = None /\ r.band \in {TowerBand(t), None}
  BY <1>2, <1>3, <1>4 DEF CellRecord
<1>6. IsOf(r, t)
  BY <1>5 DEF IsOf
<1>7. IsOf([r EXCEPT !.band = None], t)
  <2> DEFINE p == [r EXCEPT !.band = None]
  <2>1. p.band = None /\ p.pci = r.pci /\ p.arfcn = r.arfcn /\ p.id = r.id
    BY <1>5 DEF CellRecord
  <2> HIDE DEF p
  <2>2. IsOf(p, t)
    BY <1>5, <2>1 DEF IsOf
  <2> QED BY <2>2 DEF p
<1> QED BY <1>5, <1>6, <1>7

LEMMA AskQmiStep ==
  ASSUME CellInv, AskQmi
  PROVE  CellInv'
<1>1. stage = "qmi" /\ UNCHANGED <<near, camped, oneBand, serving, moves>> /\ CellTypeOK
      /\ listed = {} /\ "unlabelled" \notin unsure
  BY DEF AskQmi, CellInv
<1>2. CASE stage' = "mm" /\ UNCHANGED <<listed, unsure>>
  BY <1>1, <1>2 DEF CellInv, CellTypeOK, MixInv, Mixing, CellsTold
<1>3. ASSUME NEW R \in SUBSET near \ {{}}, NEW blank \in SUBSET Arfcns,
             listed' \in QmiLists(R, blank) \cup {QmiUnmarked(R, blank)}, stage' = "done",
             unsure' = unsure \cup (IF QmiTwins(R) \subseteq {camped} THEN {} ELSE {"twin"})
                              \cup (IF camped \in R THEN {} ELSE {"unserved"})
                              \cup (IF \A t \in R : QmiBand(t, blank) \in {TowerBand(t), None}
                                    THEN {} ELSE {"unlabelled"})
      PROVE  CellInv'
  <2>1. camped \in near /\ near \subseteq Towers /\ R \subseteq near
    BY <1>1 DEF CellTypeOK
  <2>2. "unlabelled" \notin unsure' => \A t \in R : QmiBand(t, blank) \in {TowerBand(t), None}
    BY <1>3
  <2>3. ASSUME listed' = QmiUnmarked(R, blank)
        PROVE  QmiDone(listed', unsure')
    BY <1>1, <2>3, QmiUnmarkedIs DEF QmiDone
  <2>4. ASSUME listed' \in QmiLists(R, blank)
        PROVE  QmiDone(listed', unsure')
    <3> DEFINE first == IF {t \in R : ArfcnOf[t] = ArfcnOf[camped]} # {}
                        THEN {t \in R : ArfcnOf[t] = ArfcnOf[camped]} ELSE R
    <3>1. PICK s \in IF QmiTwins(R) # {} THEN {QmiTwins(R)} ELSE {{t} : t \in first} :
            listed' = {QmiRecord(t, t \in s, blank) : t \in R}
      BY <2>4 DEF QmiLists
    <3>2. ASSUME NEW t \in R
          PROVE  LET r == QmiRecord(t, t \in s, blank)
                 IN  /\ r \in CellRecord /\ r.by = "qmi" /\ (r.serves <=> t \in s)
                     /\ t \notin s => IsOf([r EXCEPT !.band = None], t)
                     /\ t \notin s /\ "unlabelled" \notin unsure' => IsOf(r, t)
      <4>1. CASE t \in s
        <5>1. (t \in s) = TRUE
          BY <4>1
        <5> QED BY <1>1, <2>1, <5>1, QmiRecordIs
      <4>2. CASE t \notin s
        <5>1. (t \in s) = FALSE
          BY <4>2
        <5> QED BY <1>1, <2>1, <2>2, <5>1, QmiRecordIs
      <4> QED BY <4>1, <4>2
    <3>3. \A r \in listed' :
            /\ r \in CellRecord /\ r.by = "qmi"
            /\ ~r.serves => \E t \in near : /\ IsOf([r EXCEPT !.band = None], t)
                                            /\ "unlabelled" \notin unsure' => IsOf(r, t)
      BY <2>1, <3>1, <3>2
    <3>4. ASSUME unsure' \subseteq {"bare", "unlabelled"}, NEW r \in listed', r.serves
          PROVE  IsOf(r, camped) /\ r = QmiRecord(camped, TRUE, blank)
      <4>1. QmiTwins(R) \subseteq {camped} /\ camped \in R
        BY <1>3, <3>4
      <4>2. QmiTwins(R) = {camped}
        BY <4>1 DEF QmiTwins
      <4>3. s = {camped}
        BY <3>1, <4>2
      <4>4. r = QmiRecord(camped, TRUE, blank)
        BY <3>1, <3>2, <3>4, <4>3
      <4>5. QmiBand(camped, blank) \in {None, TowerBand(camped)}
        BY DEF QmiBand, Told
      <4> QED BY <4>4, <4>5 DEF QmiRecord, IsOf, Told
    <3> QED BY <3>3, <3>4 DEF QmiDone
  <2>5. QmiDone(listed', unsure')
    BY <1>3, <2>3, <2>4
  <2>6. CellTypeOK'
    <3>1. unsure' \subseteq {"moved", "twin", "unserved", "unlabelled", "bare"}
      BY <1>1, <1>3 DEF CellTypeOK
    <3> QED BY <1>1, <1>3, <2>5, <3>1 DEF CellTypeOK, QmiDone
  <2>7. CellsTold'
    <3>1. UNCHANGED <<near, camped>>
      BY <1>1
    <3>2. \A r \in listed' :
            IF r.serves
            THEN unsure' \subseteq {"bare", "unlabelled"} =>
                   IsOf(r, camped) /\ \A q \in listed' : q.serves => q = r
            ELSE \E t \in near :
                   IsOf(IF "unlabelled" \in unsure' THEN [r EXCEPT !.band = None] ELSE r, t)
      BY <2>5 DEF QmiDone
    <3>3. \A q \in listed' : q.by # "at"
      BY <2>5 DEF QmiDone
    <3> QED BY <3>1, <3>2, <3>3 DEF CellsTold, IsOf
  <2> QED BY <1>3, <2>6, <2>7 DEF CellInv, MixInv, Mixing
<1> QED BY <1>2, <1>3 DEF AskQmi

LEMMA MmRecordIs ==
  ASSUME CellTypeOK, NEW t \in near, NEW tells
  PROVE  /\ MmRecord(t, tells) \in CellRecord /\ IsOf(MmRecord(t, tells), t)
         /\ MmRecord(t, tells).by = "mm" /\ (MmRecord(t, tells).serves <=> t = camped)
<1>1. t \in Towers /\ (t = camped) \in BOOLEAN
  BY DEF CellTypeOK
<1>2. /\ Told(Pci[t], "pci" \in tells) \in (Pcis \cup {None}) \cap {None, Pci[t]}
      /\ Told(ArfcnOf[t], "arfcn" \in tells) \in (Arfcns \cup {None}) \cap {None, ArfcnOf[t]}
      /\ Told(TowerBand(t), oneBand) \in (Bands \cup {None}) \cap {None, TowerBand(t)}
      /\ Told(t, "id" \in tells) \in (Towers \cup {None}) \cap {None, t}
  BY <1>1, CellConstants DEF Told
<1>3. MmRecord(t, tells) \in CellRecord
  BY <1>1, <1>2 DEF MmRecord, CellRecord
<1> QED BY <1>2, <1>3 DEF MmRecord, IsOf

LEMMA AskModemManagerStep ==
  ASSUME CellInv, AskModemManager
  PROVE  CellInv'
<1>1. /\ stage = "mm" /\ UNCHANGED <<near, camped, oneBand, moves, unsure>> /\ CellTypeOK
      /\ listed = {} /\ camped \in near /\ "unlabelled" \notin unsure
  BY DEF AskModemManager, CellInv, CellTypeOK
<1>2. CASE stage' \in {"mmcli", "rest"} /\ UNCHANGED <<serving, listed>>
  BY <1>1, <1>2 DEF CellInv, CellTypeOK, MixInv, Mixing, CellsTold
<1>3. ASSUME NEW R \in SUBSET near \ {{}}, NEW tells \in SUBSET {"pci", "arfcn", "id"},
             camped \in R, serving' = MmRecord(camped, tells), stage' = "cced",
             listed' = {MmRecord(t, tells) : t \in R \ {camped}}
      PROVE  CellInv'
  <2>1. ServingOK(serving', camped, "moved" \in unsure)
    BY <1>1, <1>3, MmRecordIs DEF ServingOK
  <2>2. \A r \in listed' : /\ r \in CellRecord /\ r.by = "mm" /\ ~r.serves
                           /\ \E t \in near : IsOf(r, t)
    BY <1>1, <1>3, MmRecordIs
  <2>3. \A r \in listed' : ListedOK(r, "moved" \in unsure)
    BY <2>2 DEF ListedOK
  <2>4. \A r \in listed' : ListedOK(r, "moved" \in unsure)'
    BY <1>1, <2>3 DEF ListedOK
  <2>5. CellTypeOK'
    BY <1>1, <1>3, <2>1, <2>2 DEF CellTypeOK, ServingOK
  <2>6. MixInv'
    BY <1>1, <2>1, <2>2, <2>4 DEF MixInv, BesideOK
  <2> QED BY <1>1, <1>3, <2>5, <2>6 DEF CellInv, CellsTold
<1>4. ASSUME NEW R \in SUBSET near \ {{}}, NEW tells \in SUBSET {"pci", "arfcn", "id"},
             listed' = {MmRecord(t, tells) : t \in R}, stage' = "done", UNCHANGED serving
      PROVE  CellInv'
  <2>1. \A r \in listed' : /\ r \in CellRecord /\ r.by = "mm"
                           /\ r.serves => r = MmRecord(camped, tells) /\ IsOf(r, camped)
                           /\ \E t \in near : IsOf(r, t)
    BY <1>1, <1>4, MmRecordIs
  <2>2. CellTypeOK'
    BY <1>1, <1>4, <2>1 DEF CellTypeOK
  <2>3. CellsTold'
    <3>1. UNCHANGED <<near, camped>>
      BY <1>1
    <3>2. \A r \in listed' : r.by # "at"
      BY <2>1
    <3> QED BY <2>1, <3>1, <3>2 DEF CellsTold, IsOf
  <2> QED BY <1>4, <2>2, <2>3 DEF CellInv, MixInv, Mixing
<1> QED BY <1>2, <1>3, <1>4 DEF AskModemManager

LEMMA BlankIs ==
  /\ Blank \in CellRecord /\ Blank.serves = TRUE /\ Blank.by = "mmcli"
  /\ Blank.pci = None /\ Blank.arfcn = None /\ Blank.id = None
BY DEF Blank, CellRecord

LEMMA AskMmcliStep ==
  ASSUME CellInv, AskMmcli
  PROVE  CellInv'
<1>1. /\ stage = "mmcli" /\ UNCHANGED <<near, camped, oneBand, listed, moves, unsure>>
      /\ CellTypeOK /\ listed = {} /\ camped \in Towers
  BY DEF AskMmcli, CellInv, CellTypeOK
<1>2. CASE stage' = "rest" /\ UNCHANGED serving
  BY <1>1, <1>2 DEF CellInv, CellTypeOK, MixInv, Mixing, CellsTold
<1>3. ASSUME NEW id \in {camped, None}, serving' = MmcliRecord(id), stage' = "cced"
      PROVE  CellInv'
  <2>1. /\ Told(TowerBand(camped), oneBand) \in (Bands \cup {None}) \cap {None, TowerBand(camped)}
        /\ id \in Towers \cup {None}
    BY <1>1, CellConstants DEF Told
  <2>2. ServingOK(serving', camped, "moved" \in unsure)
    BY <1>3, <2>1, BlankIs DEF ServingOK, MmcliRecord, CellRecord, IsOf
  <2>3. CellTypeOK'
    BY <1>1, <1>3, <2>2 DEF CellTypeOK, ServingOK
  <2> QED BY <1>1, <1>3, <2>2, <2>3 DEF CellInv, MixInv, CellsTold
<1> QED BY <1>2, <1>3 DEF AskMmcli

(* The last fill keeps what the neighbours' bands say, and adds the serving *)
(* record to the list.                                                      *)
LEMMA FillStep ==
  ASSUME CellInv, Fill
  PROVE  CellInv'
<1> DEFINE moved == "moved" \in unsure
           s == [serving EXCEPT !.band = Filled(@, BandAt(serving.arfcn))]
           On(r) == r.by = "at" /\ (r.arfcn = None \/ r.arfcn = s.arfcn)
           Also(r) == IF On(r) THEN [r EXCEPT !.band = Filled(@, s.band)] ELSE r
           all == {Also(r) : r \in listed}
<1>1. /\ stage = "fill" /\ stage' = "done" /\ Mixing /\ "unlabelled" \notin unsure
      /\ UNCHANGED <<near, camped, oneBand, moves, unsure>>
      /\ serving' = s /\ listed' \in {{}, all \cup {s}}
  BY DEF Fill, Mixing, CellInv
<1>2. /\ camped \in Towers /\ near \subseteq Towers /\ CellTypeOK /\ serving \in CellRecord
      /\ ServingOK(serving, camped, moved)
      /\ \A r \in listed : ListedOK(r, moved) /\ BesideOK(r, serving, "bare" \in unsure)
  BY <1>1, MixParts DEF CellInv
<1>3. /\ s \in CellRecord /\ s.serves = TRUE /\ s.by # "at" /\ (~moved => IsOf(s, camped))
      /\ s.pci = serving.pci /\ s.arfcn = serving.arfcn /\ s.band \in Bands \cup {None}
  <2>1. /\ serving.band \in Bands \cup {None} /\ BandAt(serving.arfcn) \in Bands \cup {None}
        /\ serving.serves = TRUE /\ serving.by # "at"
    BY <1>2, CellConstants DEF CellRecord, ServingOK
  <2>2. Filled(serving.band, BandAt(serving.arfcn)) \in Bands \cup {None}
    BY <2>1 DEF Filled
  <2>3. /\ s.band = Filled(serving.band, BandAt(serving.arfcn)) /\ s.pci = serving.pci
        /\ s.arfcn = serving.arfcn /\ s.id = serving.id /\ s.serves = serving.serves
        /\ s.by = serving.by /\ s \in CellRecord
    BY <1>2, <2>2 DEF CellRecord
  <2>4. ~moved => serving.band \in {None, TowerBand(camped)}
                  /\ BandAt(serving.arfcn) \in {None, TowerBand(camped)}
    BY <1>2, CellConstants DEF ServingOK, IsOf
  <2>5. ~moved => IsOf(s, camped)
    BY <1>2, <2>3, <2>4 DEF ServingOK, IsOf, Filled
  <2> QED BY <2>1, <2>2, <2>3, <2>5
<1> HIDE DEF s
<1>4. \A r \in listed :
        /\ Also(r) \in CellRecord /\ ~Also(r).serves
        /\ Also(r).arfcn \in Tabled \/ (Also(r).arfcn # None /\ ~moved) =>
             \E t \in near : IsOf(Also(r), t)
        /\ BesideOK(Also(r), s, "bare" \in unsure)
  <2> SUFFICES ASSUME NEW r \in listed
               PROVE  /\ Also(r) \in CellRecord /\ ~Also(r).serves
                      /\ Also(r).arfcn \in Tabled \/ (Also(r).arfcn # None /\ ~moved) =>
                           \E t \in near : IsOf(Also(r), t)
                      /\ BesideOK(Also(r), s, "bare" \in unsure)
    OBVIOUS
  <2>1. /\ ListedOK(r, moved) /\ BesideOK(r, serving, "bare" \in unsure) /\ r \in CellRecord
        /\ ~r.serves
    BY <1>2 DEF ListedOK
  <2>2. BesideOK(r, s, "bare" \in unsure)
    BY <1>3, <2>1 DEF BesideOK
  <2>3. CASE ~On(r)
    <3>1. Also(r) = r
      BY <2>3
    <3>2. r.arfcn \in Tabled \/ (r.arfcn # None /\ ~moved) => \E t \in near : IsOf(r, t)
      BY <1>2, <2>1, CellConstants DEF ListedOK, HeardOK, IsOf
    <3> QED BY <2>1, <2>2, <3>1, <3>2
  <2>4. CASE On(r)
    <3> DEFINE new == [r EXCEPT !.band = Filled(@, s.band)]
    <3>1. Also(r) = new
      BY <2>4
    <3>2. r.band \in Bands \cup {None} /\ Filled(r.band, s.band) \in Bands \cup {None}
      BY <1>3, <2>1 DEF CellRecord, Filled
    <3>3. /\ new \in CellRecord /\ new.serves = r.serves /\ new.by = r.by /\ new.pci = r.pci
          /\ new.arfcn = r.arfcn /\ new.id = r.id /\ new.band = Filled(r.band, s.band)
      BY <2>1, <3>2 DEF CellRecord
    <3> HIDE DEF new
    <3>4. BesideOK(new, s, "bare" \in unsure)
      BY <2>2, <3>3 DEF BesideOK
    <3>5. PICK t \in near : HeardOK(r, t, moved)
      BY <2>1, <2>4 DEF ListedOK
    <3>6. t \in Towers
      BY <1>2
    <3>7. new.arfcn \in Tabled => IsOf(new, t)
      BY <3>3, <3>5, <3>6, CellConstants DEF HeardOK, IsOf, Filled
    <3>8. new.arfcn # None /\ ~moved => IsOf(new, t)
      <4> SUFFICES ASSUME new.arfcn # None, ~moved PROVE IsOf(new, t)
        OBVIOUS
      <4>1. /\ r.arfcn = s.arfcn /\ r.arfcn = ArfcnOf[t] /\ r.band \in {None, TowerBand(t)}
            /\ r.pci = Pci[t] /\ r.id = None
        BY <2>4, <3>3, <3>5 DEF HeardOK
      <4>2. s.arfcn = ArfcnOf[camped] /\ s.band \in {None, TowerBand(camped)}
        BY <1>3, <3>3, <4>1 DEF IsOf
      <4>3. TowerBand(t) = TowerBand(camped)
        BY <1>2, <3>6, <4>1, <4>2, CellConstants
      <4> QED BY <3>3, <4>1, <4>2, <4>3 DEF IsOf, Filled
    <3> QED BY <2>1, <3>1, <3>3, <3>4, <3>7, <3>8
  <2> QED BY <2>3, <2>4
<1> HIDE DEF Also
<1>5. \A r \in listed' : \/ r = s
                         \/ /\ r \in CellRecord /\ ~r.serves
                            /\ r.arfcn \in Tabled \/ (r.arfcn # None /\ ~moved) =>
                                 \E t \in near : IsOf(r, t)
                            /\ BesideOK(r, s, "bare" \in unsure)
  BY <1>1, <1>4
<1>6. CellTypeOK'
  BY <1>1, <1>2, <1>3, <1>5 DEF CellTypeOK
<1>7. CellsTold'
  <2>1. UNCHANGED <<near, camped, unsure>>
    BY <1>1
  <2>2. \A r \in listed' :
          IF r.serves
          THEN unsure \subseteq {"bare", "unlabelled"} =>
                 IsOf(r, camped) /\ \A q \in listed' : q.serves => q = r
          ELSE r.arfcn \in Tabled \/ (r.arfcn # None /\ "moved" \notin unsure)
                 => \E t \in near : IsOf(r, t)
    BY <1>3, <1>5
  <2>3. unsure = {} => \A r, q \in listed' :
          r.serves /\ q.by = "at" /\ r.pci # None /\ q.arfcn # None
            => ~(q.pci = r.pci /\ q.arfcn = r.arfcn)
    BY <1>3, <1>5 DEF BesideOK
  <2> QED BY <2>1, <2>2, <2>3 DEF CellsTold, IsOf
<1> QED BY <1>1, <1>6, <1>7 DEF CellInv, MixInv, Mixing

LEMMA CellInvAtInit == ASSUME CellInit PROVE CellInv
<1>1. CellTypeOK
  BY BlankIs, CellConstants DEF CellInit, CellTypeOK
<1> QED BY <1>1 DEF CellInit, CellInv, MixInv, Mixing, CellsTold

LEMMA CellInvStep ==
  ASSUME CellInv, [CellNext]_cellScan
  PROVE  CellInv'
<1>1. CASE UNCHANGED cellScan
  BY <1>1 DEF cellScan, CellInv, CellTypeOK, MixInv, Mixing, ListedOK, HeardOK, CellsTold
<1>2. CASE CellNext
  BY <1>2, AskCellsStep, ReselectStep, AskQmiStep, AskModemManagerStep, AskMmcliStep,
     AskCcedStep, AskMuestatsStep, AskSbandStep, AskQnwinfoStep, FillStep DEF CellNext
<1> QED BY <1>1, <1>2

LEMMA CellInvAlways == RemoteSpec => []CellInv
<1>1. RemoteInit => CellInv
  BY CellInvAtInit DEF RemoteInit
<1>2. CellInv /\ [RemoteNext]_<<area, vars, hubLife, ddns, simCard, callLog, simRecords,
                                routing, cellScan>> => CellInv'
  BY CellInvStep DEF RemoteNext, cellScan
<1> QED BY <1>1, <1>2, PTL DEF RemoteSpec

(* CellsTold: whatever the modem answers to the questions of get_cells_data *)
(* and enrich_cells_via_at, and wherever it changes its cell between two,   *)
(* each record is of one cell, the serving one's of that cell and the only  *)
(* one, and it is not among the neighbours again; the exceptions are named. *)
THEOREM CellsAreToldApart == RemoteSpec => []CellsTold
<1>1. CellInv => CellsTold
  BY DEF CellInv
<1> QED BY <1>1, CellInvAlways, PTL

-----------------------------------------------------------------------------
(* SimRecords.                                                              *)
ChipType == [inserted : Cards, installed : SUBSET Profiles,
             enabled : [Cards -> Profiles \cup {NoProfile}],
             name : [Profiles -> {"given", "renamed"}]]

TaskOps == {"none", "live", "cached", "euicc", "rename", "delete", "enable", "download",
            "info", "refresh"}

ViewerType ==
  [op : TaskOps,
   step : {"rest", "spawn", "start", "number", "smsc", "profiles", "store", "get", "put", "row"},
   of : Profiles \cup {NoProfile}, eid : Cards \cup {NoCard}, read : [Profiles -> EntryType],
   force : BOOLEAN, wants : BOOLEAN, old : BOOLEAN]

ValueType == Profiles \cup {"unread", "empty", "user"}

SimTypes ==
  /\ chip \in ChipType /\ sim \in Profiles \cup {NoProfile}
  /\ details \in [Tables -> [Profiles -> ValueType]]
  /\ lastEuicc \in Cards \cup {NoCard}
  /\ entries \in [Profiles -> EntryType]
  /\ viewer \in [Viewers -> ViewerType]
  /\ doubt \subseteq Profiles

(* A row that is kept, or waits to be written, is of its profile.           *)
NumberOwn(p, rec) == rec.number \in {"none", "user", p}
RowOwn(p, rec)    == rec.eid \in {"absent", NoCard, Home[p]} /\ NumberOwn(p, rec)
ValueOwn(p, value) == value \in {"unread", "empty", "user", p}

(* A task that has read which SIM it is has read the one in use, s, or is   *)
(* in doubt, d; one that listed the card c and is not old has its number;   *)
(* what it has read is of the profiles it is of.                            *)
TaskOK(w, s, d, c) ==
  /\ w.op \in {"rename", "delete", "enable", "download"} => w.of \in Profiles
  /\ w.op \in {"refresh", "info"} /\ w.step \in {"number", "smsc"} =>
       w.of \in Profiles /\ w.of \in {s} \cup d
  /\ w.op = "live" /\ w.step \in {"profiles", "store"} /\ ~w.old => w.eid = c
  /\ w.step \in {"store", "put"} =>
       \A p \in Profiles \ d : w.read[p] # Absent =>
         /\ NumberOwn(p, w.read[p])
         /\ (w.op = "live" /\ w.old) \/ RowOwn(p, w.read[p])

ViewersOK == \A v \in Viewers : TaskOK(viewer[v], sim, doubt, chip.inserted)

DetailsOwn == \A p \in Profiles \ doubt : \A t \in Tables : ValueOwn(p, details[t][p])
EntriesOwn == \A p \in Profiles \ doubt : RowOwn(p, entries[p])

SimInv == SimTypes /\ ViewersOK /\ DetailsOwn /\ EntriesOwn

LEMMA SimConstants ==
  /\ Absent \in EntryType /\ Nothing \in [Profiles -> EntryType]
  /\ \A p \in Profiles : Nothing[p] = Absent
  /\ Absent.eid = "absent" /\ Absent.number = "none"
  /\ Viewing \in ViewerType /\ Viewing.op = "none" /\ Viewing.step = "rest"
  /\ NoCard \notin Cards /\ NoProfile \notin Profiles
  /\ \A p \in Profiles : Home[p] \in Cards
  /\ \A rec \in EntryType : /\ rec.eid \in Cards \cup {NoCard, "absent"}
                            /\ rec.number \in Profiles \cup {"none", "user"}
<1>1. /\ Absent \in EntryType /\ Nothing \in [Profiles -> EntryType]
      /\ \A p \in Profiles : Nothing[p] = Absent
      /\ Absent.eid = "absent" /\ Absent.number = "none"
  BY DEF Absent, Nothing, EntryType
<1>2. Viewing \in ViewerType /\ Viewing.op = "none" /\ Viewing.step = "rest"
  BY <1>1 DEF Viewing, ViewerType, TaskOps
<1>3. ASSUME NEW rec \in EntryType
      PROVE  /\ rec.eid \in Cards \cup {NoCard, "absent"}
             /\ rec.number \in Profiles \cup {"none", "user"}
  <2>1. CASE rec = Absent
    BY <1>1, <2>1
  <2>2. CASE rec # Absent
    BY <2>2 DEF EntryType
  <2> QED BY <2>1, <2>2
<1> QED BY <1>1, <1>2, <1>3, SimAssumption

LEMMA ViewingOK == \A s, d, c : TaskOK(Viewing, s, d, c)
BY SimConstants DEF TaskOK

LEMMA DoubtGrows ==
  ASSUME NEW w, NEW s, NEW d, NEW c, TaskOK(w, s, d, c), NEW more, d \subseteq more
  PROVE  TaskOK(w, s, more, c)
BY DEF TaskOK

(* A task goes on while the card and the SIM stay.                          *)
LEMMA ViewerGoes ==
  ASSUME SimInv, NEW v \in Viewers, NEW new \in ViewerType,
         viewer' = [viewer EXCEPT ![v] = new], UNCHANGED <<chip, sim>>,
         doubt \subseteq doubt', TaskOK(new, sim, doubt', chip.inserted)
  PROVE  viewer' \in [Viewers -> ViewerType] /\ ViewersOK'
<1>1. /\ viewer' \in [Viewers -> ViewerType] /\ viewer'[v] = new
      /\ \A u \in Viewers \ {v} : viewer'[u] = viewer[u]
  BY DEF SimInv, SimTypes
<1>2. ASSUME NEW u \in Viewers PROVE TaskOK(viewer'[u], sim, doubt', chip.inserted)
  <2>1. TaskOK(viewer[u], sim, doubt, chip.inserted)
    BY DEF SimInv, ViewersOK
  <2> QED BY <1>1, <2>1, DoubtGrows
<1> QED BY <1>1, <1>2 DEF ViewersOK

LEMMA LeavesStep ==
  ASSUME SimInv, NEW v \in Viewers, Leaves(v), UNCHANGED <<chip, sim>>, doubt \subseteq doubt'
  PROVE  viewer' \in [Viewers -> ViewerType] /\ ViewersOK'
<1>1. viewer' = [viewer EXCEPT ![v] = Viewing]
  BY DEF Leaves
<1> QED BY <1>1, SimConstants, ViewingOK, ViewerGoes

(* Something happens to the card: what was read of it is old.               *)
Out(w) == [w EXCEPT !.old = w # Viewing]

LEMMA OutIs ==
  ASSUME NEW w \in ViewerType
  PROVE  /\ Out(w) \in ViewerType /\ Out(w).op = w.op /\ Out(w).step = w.step
         /\ Out(w).of = w.of /\ Out(w).eid = w.eid /\ Out(w).read = w.read
         /\ w # Viewing => Out(w).old
<1>1. CASE w = Viewing
  <2>1. Out(w) = [w EXCEPT !.old = FALSE]
    BY <1>1 DEF Out
  <2> QED BY <1>1, <2>1 DEF ViewerType
<1>2. CASE w # Viewing
  <2>1. Out(w) = [w EXCEPT !.old = TRUE]
    BY <1>2 DEF Out
  <2> QED BY <2>1 DEF ViewerType
<1> QED BY <1>1, <1>2

LEMMA OutdatedStep ==
  ASSUME NEW V \in [Viewers -> ViewerType], viewer' = Outdated(V),
         \A u \in Viewers : \E s, c : TaskOK(V[u], s, doubt, c),
         doubt \subseteq doubt',
         \A u \in Viewers : V[u].op \in {"refresh", "info"} /\ V[u].step \in {"number", "smsc"} =>
           V[u].of \in {sim'} \cup doubt'
  PROVE  viewer' \in [Viewers -> ViewerType] /\ ViewersOK'
<1>1. viewer' = [u \in Viewers |-> Out(V[u])]
  BY DEF Outdated, Out
<1>2. viewer' \in [Viewers -> ViewerType]
  BY <1>1, OutIs
<1>3. ASSUME NEW u \in Viewers PROVE TaskOK(viewer'[u], sim', doubt', chip'.inserted)
  <2> DEFINE w == V[u]
  <2>1. viewer'[u] = Out(w) /\ w \in ViewerType
    BY <1>1
  <2> HIDE DEF w
  <2>2. CASE w = Viewing
    BY <2>1, <2>2, OutIs, SimConstants DEF TaskOK
  <2>3. CASE w # Viewing
    <3>1. PICK s, c : TaskOK(w, s, doubt, c)
      BY DEF w
    <3>2. w.op \in {"refresh", "info"} /\ w.step \in {"number", "smsc"} =>
            w.of \in {sim'} \cup doubt'
      BY DEF w
    <3> QED BY <2>1, <2>3, <3>1, <3>2, OutIs DEF TaskOK
  <2> QED BY <2>2, <2>3
<1> QED BY <1>2, <1>3 DEF ViewersOK
RecordType == [eid : Cards \cup {NoCard}, name : {"given", "renamed"},
               state : {"enabled", "disabled"}, number : Profiles \cup {"none", "user"}]

LEMMA RecordsAre ==
  /\ \A rec \in EntryType : rec = Absent \/ rec \in RecordType
  /\ \A rec \in RecordType : rec \in EntryType /\ rec # Absent
<1>1. /\ \A rec \in EntryType : rec = Absent \/ rec \in RecordType
      /\ \A rec \in RecordType : rec \in EntryType
  BY DEF EntryType, RecordType
<1>2. \A rec \in RecordType : rec # Absent
  <2> SUFFICES ASSUME NEW rec \in RecordType PROVE rec.name # Absent.name
    OBVIOUS
  <2> QED BY DEF RecordType, Absent
<1> QED BY <1>1, <1>2

LEMMA SimIs ==
  ASSUME SimInv
  PROVE  /\ chip \in ChipType /\ chip.inserted \in Cards /\ sim \in Profiles \cup {NoProfile}
         /\ details \in [Tables -> [Profiles -> ValueType]]
         /\ lastEuicc \in Cards \cup {NoCard}
         /\ entries \in [Profiles -> EntryType]
         /\ viewer \in [Viewers -> ViewerType] /\ doubt \subseteq Profiles
         /\ \A v \in Viewers : /\ viewer[v] \in ViewerType
                               /\ TaskOK(viewer[v], sim, doubt, chip.inserted)
                               /\ viewer[v].read \in [Profiles -> EntryType]
                               /\ viewer[v].eid \in Cards \cup {NoCard}
                               /\ viewer[v].of \in Profiles \cup {NoProfile}
         /\ \A p \in Profiles \ doubt : RowOwn(p, entries[p])
BY DEF SimInv, SimTypes, ViewersOK, EntriesOwn, ChipType, ViewerType

(* What changes only what tasks do.                                         *)
LEMMA OthersStay ==
  ASSUME SimInv, UNCHANGED <<chip, sim, details, lastEuicc, entries>>,
         doubt \subseteq doubt', doubt' \subseteq Profiles,
         viewer' \in [Viewers -> ViewerType], ViewersOK'
  PROVE  SimInv'
BY DEF SimInv, SimTypes, DetailsOwn, EntriesOwn

LEMMA DetailsStay ==
  ASSUME SimInv, UNCHANGED details, doubt \subseteq doubt'
  PROVE  DetailsOwn'
BY DEF SimInv, DetailsOwn

LEMMA EntriesStay ==
  ASSUME SimInv, UNCHANGED entries, doubt \subseteq doubt'
  PROVE  EntriesOwn'
BY DEF SimInv, EntriesOwn

(* upsert_esim_profile_cache                                                *)
LEMMA MergedIs ==
  ASSUME SimInv, NEW p \in Profiles, NEW rec \in RecordType
  PROVE  /\ Merged(p, rec) \in RecordType
         /\ RowOwn(p, entries[p]) /\ RowOwn(p, rec) => RowOwn(p, Merged(p, rec))
<1> DEFINE old == entries[p]
           new == Merged(p, rec)
<1>0. /\ old \in EntryType
      /\ new = IF old = Absent THEN rec
               ELSE [rec EXCEPT !.eid = IF @ = NoCard THEN old.eid ELSE @,
                                !.number = IF @ = "none" THEN old.number ELSE @]
  BY SimIs DEF Merged
<1> HIDE DEF new, old
<1>1. CASE old = Absent
  BY <1>0, <1>1 DEF new, old
<1>2. CASE old # Absent
  <2>1. old \in RecordType
    BY <1>0, <1>2, RecordsAre
  <2> DEFINE eid == IF rec.eid = NoCard THEN old.eid ELSE rec.eid
             number == IF rec.number = "none" THEN old.number ELSE rec.number
  <2>2. eid \in Cards \cup {NoCard} /\ number \in Profiles \cup {"none", "user"}
    BY <2>1 DEF RecordType
  <2>3. new = [rec EXCEPT !.eid = eid, !.number = number]
    BY <1>0, <1>2
  <2>4. eid \in {old.eid, rec.eid} /\ number \in {old.number, rec.number}
    OBVIOUS
  <2> HIDE DEF eid, number
  <2>5. new \in RecordType /\ new.eid = eid /\ new.number = number
    BY <2>2, <2>3 DEF RecordType
  <2>6. RowOwn(p, old) /\ RowOwn(p, rec) => RowOwn(p, new)
    BY <2>4, <2>5 DEF RowOwn, NumberOwn
  <2> QED BY <2>5, <2>6 DEF new, old
<1> QED BY <1>1, <1>2

LEMMA UpsertedIs ==
  ASSUME SimInv, NEW T \in [Profiles -> EntryType]
  PROVE  /\ Upserted(T) \in [Profiles -> EntryType]
         /\ \A p \in Profiles \ doubt :
              (T[p] # Absent => RowOwn(p, T[p])) => RowOwn(p, Upserted(T)[p])
<1> SUFFICES ASSUME NEW p \in Profiles
             PROVE  /\ Upserted(T)[p] \in EntryType
                    /\ p \notin doubt /\ (T[p] # Absent => RowOwn(p, T[p])) =>
                         RowOwn(p, Upserted(T)[p])
  BY DEF Upserted
<1>1. /\ entries[p] \in EntryType /\ T[p] \in EntryType
      /\ p \notin doubt => RowOwn(p, entries[p])
  BY SimIs
<1>2. CASE T[p] = Absent
  BY <1>1, <1>2 DEF Upserted
<1>3. CASE T[p] # Absent
  <2>1. T[p] \in RecordType
    BY <1>1, <1>3, RecordsAre
  <2>2. Upserted(T)[p] = Merged(p, T[p])
    BY <1>3 DEF Upserted
  <2>3. /\ Merged(p, T[p]) \in RecordType
        /\ RowOwn(p, entries[p]) /\ RowOwn(p, T[p]) => RowOwn(p, Merged(p, T[p]))
    BY <2>1, MergedIs
  <2> QED BY <1>1, <1>3, <2>2, <2>3, RecordsAre
<1> QED BY <1>2, <1>3

LEMMA ReconciledIs ==
  ASSUME SimInv, NEW T \in [Profiles -> EntryType], NEW eid
  PROVE  /\ Reconciled(T, eid) \in [Profiles -> EntryType]
         /\ \A p \in Profiles \ doubt :
              (T[p] # Absent => RowOwn(p, T[p])) => RowOwn(p, Reconciled(T, eid)[p])
<1>1. \A p \in Profiles : Reconciled(T, eid)[p] \in {Absent, Upserted(T)[p]}
  BY DEF Reconciled
<1>2. \A p \in Profiles : RowOwn(p, Absent)
  BY SimConstants DEF RowOwn, NumberOwn
<1>3. Reconciled(T, eid) = [p \in Profiles |-> Reconciled(T, eid)[p]]
  BY DEF Reconciled
<1>4. Reconciled(T, eid) \in [Profiles -> EntryType]
  <2>1. \A p \in Profiles : Reconciled(T, eid)[p] \in EntryType
    BY <1>1, UpsertedIs, SimConstants
  <2> QED BY <1>3, <2>1
<1> QED BY <1>1, <1>2, <1>4, UpsertedIs

(* enrich_profiles_with_current_identity: a number of another profile is    *)
(* given only to a stranger.                                                *)
LEMMA EnrichedIs ==
  ASSUME SimInv, NEW T \in [Profiles -> EntryType], NEW id \in Profiles \cup {NoProfile},
         NEW U \in Enriched(T, id)
  PROVE  /\ U \in [Profiles -> EntryType] /\ Strangers(T, id) \subseteq Profiles
         /\ \A p \in Profiles : /\ U[p] # Absent => T[p] # Absent
                                /\ U[p].eid = T[p].eid
         /\ \A p \in Profiles \ (doubt \cup Strangers(T, id)) :
              NumberOwn(p, T[p]) => NumberOwn(p, U[p])
<1>1. Strangers(T, id) \subseteq Profiles /\ Current(T, id) \subseteq Present(T)
  BY DEF Strangers, Current, Present
<1>2. CASE U = T
  BY <1>1, <1>2
<1>3. CASE U # T
  <2> DEFINE known == details["number"][id]
  <2>1. /\ id # NoProfile /\ id \in Profiles
        /\ \E p \in Current(T, id) :
             U = [T EXCEPT ![p].state = IF p = id THEN "enabled" ELSE @,
                           ![p].number = IF @ = "none" /\ known \notin {"unread", "empty"}
                                         THEN known ELSE @]
    BY <1>3 DEF Enriched
  <2>2. PICK p \in Current(T, id) :
             U = [T EXCEPT ![p].state = IF p = id THEN "enabled" ELSE @,
                           ![p].number = IF @ = "none" /\ known \notin {"unread", "empty"}
                                         THEN known ELSE @]
    BY <2>1
  <2>3. p \in Profiles /\ T[p] # Absent /\ T[p] \in RecordType
    BY <1>1, RecordsAre DEF Present
  <2>4. known \in ValueType /\ (id \notin doubt => ValueOwn(id, known))
    <3>1. "number" \in Tables
      BY DEF Tables
    <3> QED BY <2>1, <3>1, SimIs DEF SimInv, DetailsOwn
  <2> DEFINE state == IF p = id THEN "enabled" ELSE T[p].state
             number == IF T[p].number = "none" /\ known \notin {"unread", "empty"}
                       THEN known ELSE T[p].number
             new == [T[p] EXCEPT !.state = state, !.number = number]
  <2>5. U = [T EXCEPT ![p] = new]
    BY <2>2, <2>3
  <2> HIDE DEF known
  <2>6. /\ state \in {"enabled", "disabled"} /\ number \in Profiles \cup {"none", "user"}
        /\ number = T[p].number \/ (number = known /\ known \notin {"unread", "empty"})
    BY <2>3, <2>4 DEF RecordType, ValueType
  <2> HIDE DEF state, number
  <2>7. /\ new \in RecordType /\ new.eid = T[p].eid /\ new.number = number
    BY <2>3, <2>6 DEF RecordType
  <2> HIDE DEF new
  <2>8. p \notin doubt \cup Strangers(T, id) /\ NumberOwn(p, T[p]) => NumberOwn(p, new)
    <3>1. p \notin Strangers(T, id) => id = p
      BY <2>1, <2>2 DEF Strangers, Current
    <3> QED BY <2>4, <2>6, <2>7, <3>1 DEF NumberOwn, ValueOwn
  <2>9. /\ U \in [Profiles -> EntryType] /\ U[p] = new
        /\ \A q \in Profiles : q # p => U[q] = T[q]
    BY <2>3, <2>5, <2>7, RecordsAre
  <2> QED BY <1>1, <2>3, <2>7, <2>8, <2>9
<1> QED BY <1>2, <1>3
(* Something happens to the card, and what a task has read of it is old.    *)
LEMMA OutTask ==
  ASSUME NEW w \in ViewerType, NEW s, NEW d, NEW c, TaskOK(w, s, d, c),
         NEW s2, NEW d2, NEW c2, d \subseteq d2,
         w.op \in {"refresh", "info"} /\ w.step \in {"number", "smsc"} => w.of \in {s2} \cup d2
  PROVE  TaskOK(Out(w), s2, d2, c2)
<1>1. CASE w = Viewing
  BY <1>1, OutIs, SimConstants DEF TaskOK
<1>2. CASE w # Viewing
  BY <1>2, OutIs DEF TaskOK
<1> QED BY <1>1, <1>2

(* The one that changes the card goes on, and has read nothing that is old. *)
LEMMA ChangedIs ==
  ASSUME viewer \in [Viewers -> ViewerType], NEW v \in Viewers, NEW then \in ViewerType,
         NEW changed, ChangesCard(v, then, changed)
  PROVE  /\ viewer' \in [Viewers -> ViewerType]
         /\ \A u \in Viewers : u # v => viewer'[u] = Out(viewer[u])
         /\ viewer'[v].op = then.op /\ viewer'[v].step = then.step
         /\ viewer'[v].of = then.of /\ viewer'[v].read = then.read
         /\ ~viewer'[v].old
<1> DEFINE now == [then EXCEPT !.old = FALSE]
           V == [u \in Viewers |-> Out(viewer[u])]
<1>1. viewer' = [V EXCEPT ![v] = now]
  BY DEF ChangesCard, Outdated, Out
<1>2. V \in [Viewers -> ViewerType] /\ \A u \in Viewers : V[u] = Out(viewer[u])
  BY OutIs
<1>3. /\ now \in ViewerType /\ now.op = then.op /\ now.step = then.step /\ now.of = then.of
      /\ now.read = then.read /\ ~now.old
  BY DEF ViewerType
<1> HIDE DEF now, V
<1> QED BY <1>1, <1>2, <1>3

LEMMA ChipStep ==
  ASSUME SimInv, NEW v \in Viewers, NEW then \in ViewerType, NEW changed,
         ChangesCard(v, then, changed), TaskOK(then, sim, doubt, chip.inserted),
         then.op # "live",
         chip' \in ChipType, UNCHANGED <<sim, details, lastEuicc, entries, doubt>>
  PROVE  SimInv'
<1>1. /\ viewer' \in [Viewers -> ViewerType]
      /\ \A u \in Viewers : u # v => viewer'[u] = Out(viewer[u])
      /\ viewer'[v].op = then.op /\ viewer'[v].step = then.step
      /\ viewer'[v].of = then.of /\ viewer'[v].read = then.read
  BY SimIs, ChangedIs
<1>2. ASSUME NEW u \in Viewers PROVE TaskOK(viewer'[u], sim, doubt, chip'.inserted)
  <2>1. CASE u = v
    BY <1>1, <2>1 DEF TaskOK
  <2>2. CASE u # v
    <3>1. viewer[u] \in ViewerType /\ TaskOK(viewer[u], sim, doubt, chip.inserted)
      BY SimIs
    <3>2. viewer[u].op \in {"refresh", "info"} /\ viewer[u].step \in {"number", "smsc"} =>
            viewer[u].of \in {sim} \cup doubt
      BY <3>1 DEF TaskOK
    <3> QED BY <1>1, <2>2, <3>1, <3>2, OutTask
  <2> QED BY <2>1, <2>2
<1>3. ViewersOK'
  BY <1>2 DEF ViewersOK
<1> QED BY <1>1, <1>3, DetailsStay, EntriesStay DEF SimInv, SimTypes

(* ModemManager uses another SIM: whoever reads it is in doubt.             *)
LEMMA CrossingIs ==
  ASSUME SimInv, doubt' = doubt \cup (Crossing \ {NoProfile})
  PROVE  /\ doubt \subseteq doubt' /\ doubt' \subseteq Profiles
         /\ \A u \in Viewers :
              viewer[u].op \in {"refresh", "info"} /\ viewer[u].step \in {"number", "smsc"} =>
                viewer[u].of \in doubt'
<1>1. ASSUME NEW u \in Viewers, viewer[u].op \in {"refresh", "info"},
             viewer[u].step \in {"number", "smsc"}
      PROVE  viewer[u].of \in doubt'
  <2>1. viewer[u].of \in Crossing /\ viewer[u].of # NoProfile
    BY <1>1, SimIs, SimConstants DEF Crossing, TaskOK
  <2> QED BY <2>1
<1> QED BY <1>1, SimIs DEF Crossing

LEMMA SwapStep == ASSUME SimInv, Swap PROVE SimInv'
<1>1. PICK c \in Cards : chip' = [chip EXCEPT !.inserted = c]
  BY DEF Swap
<1>2. chip' \in ChipType
  BY <1>1, SimIs DEF ChipType
<1>3. /\ viewer \in [Viewers -> ViewerType] /\ viewer' = Outdated(viewer)
      /\ \A u \in Viewers : TaskOK(viewer[u], sim, doubt, chip.inserted)
      /\ sim' = NoProfile /\ UNCHANGED <<details, lastEuicc, entries>>
      /\ doubt' = doubt \cup (Crossing \ {NoProfile})
  BY SimIs DEF Swap
<1>4. /\ doubt \subseteq doubt' /\ doubt' \subseteq Profiles
      /\ \A u \in Viewers :
           viewer[u].op \in {"refresh", "info"} /\ viewer[u].step \in {"number", "smsc"} =>
             viewer[u].of \in doubt'
  BY <1>3, CrossingIs
<1>5. viewer' \in [Viewers -> ViewerType] /\ ViewersOK'
  BY <1>3, <1>4, OutdatedStep
<1> QED BY <1>2, <1>3, <1>4, <1>5, DetailsStay, EntriesStay DEF SimInv, SimTypes

LEMMA RegistersStep == ASSUME SimInv, Registers PROVE SimInv'
<1>1. /\ sim' \in Profiles \cup {NoProfile}
      /\ UNCHANGED <<chip, details, lastEuicc, entries, viewer>>
      /\ doubt' = doubt \cup (Crossing \ {NoProfile})
  BY SimIs DEF Registers, Enabled, ChipType
<1>2. /\ doubt \subseteq doubt' /\ doubt' \subseteq Profiles
      /\ \A u \in Viewers :
           viewer[u].op \in {"refresh", "info"} /\ viewer[u].step \in {"number", "smsc"} =>
             viewer[u].of \in doubt'
  BY <1>1, CrossingIs
<1>3. ASSUME NEW u \in Viewers PROVE TaskOK(viewer[u], sim', doubt', chip.inserted)
  <2>1. TaskOK(viewer[u], sim, doubt, chip.inserted)
    BY SimIs
  <2> QED BY <1>2, <2>1 DEF TaskOK
<1>4. ViewersOK'
  BY <1>1, <1>3 DEF ViewersOK
<1> QED BY <1>1, <1>2, <1>4, DetailsStay, EntriesStay DEF SimInv, SimTypes

LEMMA AsksForStep == ASSUME SimInv, NEW v \in Viewers, AsksFor(v) PROVE SimInv'
<1>1. PICK op \in {"live", "cached", "euicc", "rename", "delete", "enable", "download",
                   "info", "refresh"}, p \in Profiles \cup {NoProfile} :
       /\ p \in IF op \in {"rename", "delete", "enable"} THEN OnCard(chip.inserted)
               ELSE IF op = "download" THEN Profiles \ chip.installed ELSE {NoProfile}
       /\ viewer' = [viewer EXCEPT ![v] =
            [Viewing EXCEPT !.op = op, !.of = p, !.force = op = "refresh",
                            !.step = IF op = "refresh" THEN "spawn" ELSE "start"]]
  BY DEF AsksFor
<1> DEFINE force == op = "refresh"
           new == [Viewing EXCEPT !.op = op, !.of = p, !.force = force,
                                  !.step = IF op = "refresh" THEN "spawn" ELSE "start"]
<1>2. viewer' = [viewer EXCEPT ![v] = new] /\ force \in BOOLEAN
  BY <1>1
<1> HIDE DEF force
<1>3. new \in ViewerType /\ new.op = op /\ new.of = p /\ new.step \in {"spawn", "start"}
  BY <1>2, SimConstants DEF ViewerType, TaskOps
<1>4. op \in {"rename", "delete", "enable", "download"} => p \in Profiles
  BY <1>1, SimIs DEF OnCard, ChipType
<1> HIDE DEF new
<1>5. TaskOK(new, sim, doubt, chip.inserted)
  BY <1>3, <1>4 DEF TaskOK
<1>6. UNCHANGED <<chip, sim, details, lastEuicc, entries, doubt>>
  BY DEF AsksFor
<1> QED BY <1>2, <1>3, <1>5, <1>6, SimIs, ViewerGoes, OthersStay

LEMMA AbandonsStep == ASSUME SimInv, NEW v \in Viewers, Abandons(v) PROVE SimInv'
<1>1. UNCHANGED <<chip, sim, details, lastEuicc, entries, doubt>>
  BY DEF Abandons
<1> DEFINE new == [Viewing EXCEPT !.op = "refresh", !.step = "spawn", !.force = TRUE, !.old = TRUE]
<1>2. Leaves(v) \/ viewer' = [viewer EXCEPT ![v] = new]
  BY DEF Abandons
<1>3. new \in ViewerType /\ new.op = "refresh" /\ new.step = "spawn"
  BY SimConstants DEF ViewerType, TaskOps
<1> HIDE DEF new
<1>4. TaskOK(new, sim, doubt, chip.inserted)
  BY <1>3 DEF TaskOK
<1> QED BY <1>1, <1>2, <1>3, <1>4, SimIs, ViewerGoes, LeavesStep, OthersStay

LEMMA StartRefreshStep == ASSUME SimInv, NEW v \in Viewers, StartRefresh(v) PROVE SimInv'
<1>1. UNCHANGED <<chip, sim, details, lastEuicc, entries, doubt>> /\ viewer[v].op = "refresh"
  BY DEF StartRefresh, Doing
<1>2. CASE Leaves(v)
  BY <1>1, <1>2, SimIs, LeavesStep, OthersStay
<1>3. CASE ~Leaves(v)
  <2> DEFINE wants == viewer[v].force \/ details["number"][sim] = "unread"
             new == [viewer[v] EXCEPT !.step = "number", !.of = sim, !.wants = wants]
  <2>1. viewer' = [viewer EXCEPT ![v] = new] /\ sim # NoProfile /\ sim \in Profiles
    BY <1>3, SimIs DEF StartRefresh
  <2>2. wants \in BOOLEAN
    <3>1. viewer[v].force \in BOOLEAN
      BY SimIs DEF ViewerType
    <3> QED BY <3>1
  <2> HIDE DEF wants
  <2>3. new \in ViewerType /\ new.op = "refresh" /\ new.step = "number" /\ new.of = sim
    BY <1>1, <2>1, <2>2, SimIs DEF ViewerType
  <2> HIDE DEF new
  <2>4. TaskOK(new, sim, doubt, chip.inserted)
    BY <2>1, <2>3 DEF TaskOK
  <2> QED BY <1>1, <2>1, <2>3, <2>4, SimIs, ViewerGoes, OthersStay
<1> QED BY <1>2, <1>3

(* A value is written in the tables, of its SIM or of one in doubt.         *)
LEMMA DetailsWritten ==
  ASSUME SimInv, NEW new \in [Tables -> [Profiles -> ValueType]], details' = new,
         doubt \subseteq doubt',
         \A t \in Tables, q \in Profiles :
           \/ new[t][q] = details[t][q]
           \/ q \notin doubt' => ValueOwn(q, new[t][q])
  PROVE  DetailsOwn'
BY DEF SimInv, DetailsOwn

(* An answer is of the SIM that is shown, or puts it in doubt.              *)
LEMMA AnswersAre ==
  ASSUME SimInv, NEW q \in Profiles, q \in {sim} \cup doubt,
         doubt' = IF Unshown THEN doubt \cup {q} ELSE doubt
  PROVE  /\ doubt \subseteq doubt' /\ doubt' \subseteq Profiles
         /\ \A value \in SimAnswers :
              value \in ValueType /\ (q \notin doubt' => ValueOwn(q, value))
<1>1. Enabled \in Profiles \cup {NoProfile}
  BY SimIs DEF Enabled, ChipType
<1>2. doubt \subseteq doubt' /\ doubt' \subseteq Profiles
  BY SimIs
<1>3. ASSUME NEW value \in SimAnswers PROVE value \in ValueType
  BY <1>1, SimIs DEF SimAnswers, Decoded, ValueType
<1>4. ASSUME NEW value \in SimAnswers, q \notin doubt' PROVE ValueOwn(q, value)
  <2>1. sim = Enabled /\ q = sim
    BY <1>4 DEF Unshown
  <2> QED BY <2>1 DEF SimAnswers, Decoded, ValueOwn
<1> QED BY <1>2, <1>3, <1>4

LEMMA FetchedIs ==
  ASSUME SimInv, NEW v \in Viewers, NEW t \in Tables, Fetched(v, t),
         viewer[v].op = "refresh", viewer[v].step \in {"number", "smsc"}
  PROVE  /\ details' \in [Tables -> [Profiles -> ValueType]] /\ DetailsOwn'
         /\ doubt \subseteq doubt' /\ doubt' \subseteq Profiles
<1> DEFINE q == viewer[v].of
<1>1. q \in Profiles /\ q \in {sim} \cup doubt
  BY SimIs DEF TaskOK
<1>2. CASE ~viewer[v].wants
  BY <1>2, SimIs, DetailsStay DEF Fetched
<1>3. CASE viewer[v].wants
  <2>1. PICK value \in SimAnswers : details' = [details EXCEPT ![t][q] = value]
    BY <1>3 DEF Fetched, Kept
  <2>2. doubt' = IF Unshown THEN doubt \cup {q} ELSE doubt
    BY <1>3 DEF Fetched
  <2> HIDE DEF q
  <2>3. /\ doubt \subseteq doubt' /\ doubt' \subseteq Profiles
        /\ value \in ValueType /\ (q \notin doubt' => ValueOwn(q, value))
    BY <1>1, <2>1, <2>2, AnswersAre
  <2>4. details' \in [Tables -> [Profiles -> ValueType]]
    BY <1>1, <2>1, <2>3, SimIs
  <2>5. \A u \in Tables, p \in Profiles :
          \/ details'[u][p] = details[u][p]
          \/ p \notin doubt' => ValueOwn(p, details'[u][p])
    BY <1>1, <2>1, <2>3, SimIs
  <2> QED BY <2>3, <2>4, <2>5, DetailsWritten
<1> QED BY <1>2, <1>3

LEMMA FetchNumberStep == ASSUME SimInv, NEW v \in Viewers, FetchNumber(v) PROVE SimInv'
<1>1. /\ viewer[v].op = "refresh" /\ viewer[v].step = "number" /\ Fetched(v, "number")
      /\ UNCHANGED <<chip, sim, lastEuicc, entries>> /\ "number" \in Tables
  BY DEF FetchNumber, Doing, Tables
<1>2. /\ details' \in [Tables -> [Profiles -> ValueType]] /\ DetailsOwn'
      /\ doubt \subseteq doubt' /\ doubt' \subseteq Profiles
  BY <1>1, FetchedIs
<1> DEFINE wants == viewer[v].force \/ details["smsc"][viewer[v].of] = "unread"
           new == [viewer[v] EXCEPT !.step = "smsc", !.wants = wants]
<1>3. viewer' = [viewer EXCEPT ![v] = new]
  BY SimIs DEF FetchNumber
<1>4. wants \in BOOLEAN
  <2>1. viewer[v].force \in BOOLEAN
    BY SimIs DEF ViewerType
  <2> QED BY <2>1
<1> HIDE DEF wants
<1>5. new \in ViewerType /\ new.op = "refresh" /\ new.step = "smsc" /\ new.of = viewer[v].of
  BY <1>1, <1>4, SimIs DEF ViewerType
<1> HIDE DEF new
<1>6. TaskOK(new, sim, doubt, chip.inserted)
  BY <1>1, <1>5, SimIs DEF TaskOK
<1>7. viewer' \in [Viewers -> ViewerType] /\ ViewersOK'
  BY <1>1, <1>2, <1>3, <1>5, <1>6, DoubtGrows, ViewerGoes
<1> QED BY <1>1, <1>2, <1>7, EntriesStay DEF SimInv, SimTypes

LEMMA FetchCenterStep == ASSUME SimInv, NEW v \in Viewers, FetchCenter(v) PROVE SimInv'
<1>1. /\ viewer[v].op = "refresh" /\ viewer[v].step = "smsc" /\ Fetched(v, "smsc")
      /\ UNCHANGED <<chip, sim, lastEuicc, entries>> /\ "smsc" \in Tables /\ Leaves(v)
  BY DEF FetchCenter, Doing, Tables
<1>2. /\ details' \in [Tables -> [Profiles -> ValueType]] /\ DetailsOwn'
      /\ doubt \subseteq doubt' /\ doubt' \subseteq Profiles
  BY <1>1, FetchedIs
<1> QED BY <1>1, <1>2, LeavesStep, EntriesStay DEF SimInv, SimTypes

LEMMA AskInfoStep == ASSUME SimInv, NEW v \in Viewers, AskInfo(v) PROVE SimInv'
<1>1. UNCHANGED <<chip, sim, details, lastEuicc, entries, doubt>> /\ viewer[v].op = "info"
  BY DEF AskInfo, Doing
<1>2. CASE Leaves(v)
  BY <1>1, <1>2, SimIs, LeavesStep, OthersStay
<1>3. CASE ~Leaves(v)
  <2> DEFINE new == [viewer[v] EXCEPT !.step = "number", !.of = sim]
  <2>1. viewer' = [viewer EXCEPT ![v] = new] /\ sim \in Profiles
    BY <1>3, SimIs DEF AskInfo
  <2>2. new \in ViewerType /\ new.op = "info" /\ new.step = "number" /\ new.of = sim
    BY <1>1, <2>1, SimIs DEF ViewerType
  <2> HIDE DEF new
  <2>3. TaskOK(new, sim, doubt, chip.inserted)
    BY <2>1, <2>2 DEF TaskOK
  <2> QED BY <1>1, <2>1, <2>2, <2>3, SimIs, ViewerGoes, OthersStay
<1> QED BY <1>2, <1>3

LEMMA ReadInfoStep == ASSUME SimInv, NEW v \in Viewers, ReadInfo(v) PROVE SimInv'
<1> DEFINE q == viewer[v].of
<1>1. /\ viewer[v].op = "info" /\ viewer[v].step = "number"
      /\ UNCHANGED <<chip, sim, lastEuicc, entries>>
      /\ doubt' = IF Unshown THEN doubt \cup {q} ELSE doubt
  BY DEF ReadInfo, Doing
<1>2. q \in Profiles /\ q \in {sim} \cup doubt
  BY <1>1, SimIs DEF TaskOK
<1>3. PICK value \in [Tables -> SimAnswers] :
        details' = [t \in Tables |-> IF value[t] = "empty" THEN details[t]
                                     ELSE [details[t] EXCEPT ![q] = value[t]]]
  BY DEF ReadInfo, Kept
<1> HIDE DEF q
<1>4. /\ doubt \subseteq doubt' /\ doubt' \subseteq Profiles
      /\ \A t \in Tables : value[t] \in ValueType /\ (q \notin doubt' => ValueOwn(q, value[t]))
  BY <1>1, <1>2, <1>3, AnswersAre
<1>5. details' \in [Tables -> [Profiles -> ValueType]]
  BY <1>2, <1>3, <1>4, SimIs
<1>6. \A u \in Tables, p \in Profiles :
        \/ details'[u][p] = details[u][p]
        \/ p \notin doubt' => ValueOwn(p, details'[u][p])
  BY <1>1, <1>2, <1>3, <1>4, SimIs
<1>7. DetailsOwn'
  BY <1>4, <1>5, <1>6, DetailsWritten
<1> DEFINE new == [Viewing EXCEPT !.op = "refresh", !.step = "spawn"]
<1>8. Leaves(v) \/ viewer' = [viewer EXCEPT ![v] = new]
  BY DEF ReadInfo
<1>9. new \in ViewerType /\ new.op = "refresh" /\ new.step = "spawn"
  BY SimConstants DEF ViewerType, TaskOps
<1> HIDE DEF new
<1>10. TaskOK(new, sim, doubt', chip.inserted)
  BY <1>9 DEF TaskOK
<1>11. viewer' \in [Viewers -> ViewerType] /\ ViewersOK'
  BY <1>1, <1>4, <1>8, <1>9, <1>10, ViewerGoes, LeavesStep
<1> QED BY <1>1, <1>4, <1>5, <1>7, <1>11, EntriesStay DEF SimInv, SimTypes

LEMMA SaveManualStep == ASSUME SimInv, SaveManual PROVE SimInv'
<1>1. /\ UNCHANGED <<chip, sim, lastEuicc, entries, viewer, doubt>>
      /\ sim \in Profiles
  BY SimIs DEF SaveManual
<1>2. PICK T : details' = [t \in Tables |-> IF t \in T THEN [details[t] EXCEPT ![sim] = "user"]
                                            ELSE details[t]]
  BY DEF SaveManual, Kept
<1>3. details' \in [Tables -> [Profiles -> ValueType]]
  BY <1>1, <1>2, SimIs DEF ValueType
<1>4. \A u \in Tables, p \in Profiles :
        \/ details'[u][p] = details[u][p]
        \/ p \notin doubt' => ValueOwn(p, details'[u][p])
  BY <1>1, <1>2, SimIs DEF ValueOwn
<1>5. DetailsOwn'
  BY <1>1, <1>3, <1>4, DetailsWritten
<1> QED BY <1>1, <1>3, <1>5, EntriesStay DEF SimInv, SimTypes, ViewersOK

LEMMA CenterOfSmsStep == ASSUME SimInv, CenterOfSms PROVE SimInv'
<1>1. UNCHANGED <<chip, sim, lastEuicc, entries, viewer>> /\ sim \in Profiles /\ "smsc" \in Tables
  BY SimIs DEF CenterOfSms, Tables
<1>2. PICK p \in Profiles : /\ details' = [details EXCEPT !["smsc"][sim] = p]
                            /\ doubt' = IF p = sim THEN doubt ELSE doubt \cup {sim}
  BY DEF CenterOfSms, Kept
<1>3. doubt \subseteq doubt' /\ doubt' \subseteq Profiles
  BY <1>1, <1>2, SimIs
<1>4. details' \in [Tables -> [Profiles -> ValueType]]
  BY <1>1, <1>2, SimIs DEF ValueType
<1>5. \A u \in Tables, q \in Profiles :
        \/ details'[u][q] = details[u][q]
        \/ q \notin doubt' => ValueOwn(q, details'[u][q])
  BY <1>1, <1>2, SimIs DEF ValueOwn
<1>6. DetailsOwn'
  BY <1>3, <1>4, <1>5, DetailsWritten
<1>7. ViewersOK'
  BY <1>1, <1>3, DoubtGrows DEF SimInv, ViewersOK
<1> QED BY <1>1, <1>3, <1>4, <1>6, <1>7, EntriesStay DEF SimInv, SimTypes
LEMMA ReadEuiccStep == ASSUME SimInv, NEW v \in Viewers, ReadEuicc(v) PROVE SimInv'
<1>1. UNCHANGED <<chip, sim, details, entries, doubt>> /\ viewer[v].op = "live"
  BY DEF ReadEuicc, Doing
<1>2. ASSUME NEW eid \in Cards \cup {NoCard}, NEW old \in BOOLEAN, old \/ eid = chip.inserted,
             viewer' = [viewer EXCEPT ![v].step = "profiles", ![v].eid = eid, ![v].old = old]
      PROVE  viewer' \in [Viewers -> ViewerType] /\ ViewersOK'
  <2> DEFINE new == [viewer[v] EXCEPT !.step = "profiles", !.eid = eid, !.old = old]
  <2>1. viewer' = [viewer EXCEPT ![v] = new]
    BY <1>2, SimIs
  <2>2. /\ new \in ViewerType /\ new.op = "live" /\ new.step = "profiles" /\ new.eid = eid
        /\ new.old = old
    BY <1>1, SimIs DEF ViewerType
  <2> HIDE DEF new
  <2>3. TaskOK(new, sim, doubt, chip.inserted)
    BY <1>2, <2>2 DEF TaskOK
  <2> QED BY <1>1, <2>1, <2>2, <2>3, ViewerGoes
<1>3. /\ \/ lastEuicc' = chip.inserted
            /\ viewer' = [viewer EXCEPT ![v].step = "profiles", ![v].eid = chip.inserted,
                                        ![v].old = FALSE]
         \/ lastEuicc' = lastEuicc
            /\ viewer' = [viewer EXCEPT ![v].step = "profiles", ![v].eid = lastEuicc,
                                        ![v].old = TRUE]
  BY DEF ReadEuicc, SeenCard
<1>4. lastEuicc' \in Cards \cup {NoCard}
  BY <1>3, SimIs
<1>5. viewer' \in [Viewers -> ViewerType] /\ ViewersOK'
  BY <1>2, <1>3, SimIs
<1> QED BY <1>1, <1>4, <1>5, DetailsStay, EntriesStay DEF SimInv, SimTypes

LEMMA ShowEuiccStep == ASSUME SimInv, NEW v \in Viewers, ShowEuicc(v) PROVE SimInv'
<1>1. /\ UNCHANGED <<chip, sim, details, entries, doubt>> /\ Leaves(v)
      /\ lastEuicc' = chip.inserted
  BY DEF ShowEuicc, SeenCard
<1>2. lastEuicc' \in Cards \cup {NoCard}
  BY <1>1, SimIs
<1> QED BY <1>1, <1>2, LeavesStep, DetailsStay, EntriesStay DEF SimInv, SimTypes

(* A task has read profiles, and will write them.                           *)
LEMMA HasRead ==
  ASSUME SimInv, NEW v \in Viewers, NEW read \in [Profiles -> EntryType],
         NEW new \in ViewerType, viewer' = [viewer EXCEPT ![v] = new],
         new.op = viewer[v].op, new.of = viewer[v].of, new.read = read,
         new.step \in {"store", "put"}, new.op = "live" /\ ~new.old => new.eid = chip.inserted,
         \A p \in Profiles \ doubt : read[p] # Absent =>
           /\ NumberOwn(p, read[p])
           /\ (new.op = "live" /\ new.old) \/ RowOwn(p, read[p]),
         UNCHANGED <<chip, sim, details, lastEuicc, entries, doubt>>
  PROVE  SimInv'
<1>1. TaskOK(viewer[v], sim, doubt, chip.inserted)
  BY SimIs
<1>2. TaskOK(new, sim, doubt, chip.inserted)
  BY <1>1 DEF TaskOK
<1> QED BY <1>2, SimIs, ViewerGoes, OthersStay

(* What lpac tells of a profile is a row.                                   *)
LEMMA ProfileIs ==
  ASSUME chip \in ChipType, NEW p \in Profiles, NEW eid \in Cards \cup {NoCard},
         NEW number \in Profiles \cup {"none", "user"}
  PROVE  Profile(p, eid, number) \in RecordType
<1> DEFINE state == IF p = Enabled THEN "enabled" ELSE "disabled"
<1>1. state \in {"enabled", "disabled"} /\ chip.name[p] \in {"given", "renamed"}
  BY DEF ChipType
<1> HIDE DEF state
<1>2. Profile(p, eid, number) = [eid |-> eid, name |-> chip.name[p], number |-> number,
                                 state |-> state]
  BY DEF Profile, state
<1> QED BY <1>1, <1>2 DEF RecordType

LEMMA ReadProfilesStep == ASSUME SimInv, NEW v \in Viewers, ReadProfiles(v) PROVE SimInv'
<1> DEFINE w == viewer[v]
           Eid(p) == IF w.eid = NoCard /\ entries[p] # Absent THEN entries[p].eid ELSE w.eid
           OfCard(p) == Profile(p, Eid(p), entries[p].number)
           read == [p \in Profiles |-> IF p \in OnCard(chip.inserted) THEN OfCard(p) ELSE Absent]
           new == [w EXCEPT !.step = "store", !.read = read]
<1>1. /\ w.op = "live" /\ w.step = "profiles" /\ w \in ViewerType
      /\ UNCHANGED <<chip, sim, details, lastEuicc, entries, doubt>>
      /\ viewer' = [viewer EXCEPT ![v].step = "store", ![v].read = read]
  BY SimIs DEF ReadProfiles, Doing
<1>2. TaskOK(w, sim, doubt, chip.inserted)
  BY SimIs
<1>3. ASSUME NEW p \in Profiles
      PROVE  /\ read[p] \in EntryType
             /\ p \notin doubt /\ read[p] # Absent =>
                  NumberOwn(p, read[p]) /\ (w.old \/ RowOwn(p, read[p]))
  <2>1. CASE read[p] = Absent
    BY <2>1, SimConstants
  <2>2. CASE read[p] # Absent
    <3>1. p \in OnCard(chip.inserted) /\ read[p] = OfCard(p)
      BY <2>2
    <3>2. Home[p] = chip.inserted /\ chip.inserted \in Cards
      BY <3>1, SimIs DEF OnCard
    <3>3. /\ entries[p] \in EntryType /\ entries[p].number \in Profiles \cup {"none", "user"}
          /\ (entries[p] # Absent => entries[p].eid \in Cards \cup {NoCard})
          /\ chip.name[p] \in {"given", "renamed"} /\ w.eid \in Cards \cup {NoCard}
      BY SimIs, SimConstants, RecordsAre DEF RecordType, ChipType
    <3>4. Eid(p) \in Cards \cup {NoCard} /\ (w.eid = chip.inserted => Eid(p) = Home[p])
      BY <3>2, <3>3, SimConstants
    <3> HIDE DEF Eid
    <3>5. OfCard(p) \in RecordType
      BY <3>3, <3>4, SimIs, ProfileIs
    <3>6. ~w.old => OfCard(p).eid = Home[p]
      BY <1>1, <1>2, <3>4 DEF TaskOK, Profile
    <3>7. p \notin doubt => NumberOwn(p, OfCard(p))
      BY SimIs DEF RowOwn, NumberOwn, Profile
    <3> HIDE DEF OfCard
    <3> QED BY <3>1, <3>5, <3>6, <3>7, RecordsAre DEF RowOwn
  <2> QED BY <2>1, <2>2
<1>4. read \in [Profiles -> EntryType]
  <2>1. \A p \in Profiles : read[p] \in EntryType
    BY <1>3
  <2> HIDE DEF OfCard
  <2> QED BY <2>1
<1>5. viewer' = [viewer EXCEPT ![v] = new]
  BY <1>1, SimIs
<1>6. \A p \in Profiles \ doubt : read[p] # Absent =>
        NumberOwn(p, read[p]) /\ (w.old \/ RowOwn(p, read[p]))
  BY <1>3
<1> HIDE DEF read
<1>7. /\ new \in ViewerType /\ new.op = w.op /\ new.of = w.of /\ new.read = read
      /\ new.step = "store" /\ new.old = w.old /\ new.eid = w.eid
  BY <1>1, <1>4 DEF ViewerType
<1>8. new.op = "live" /\ ~new.old => new.eid = chip.inserted
  BY <1>1, <1>2, <1>7 DEF TaskOK
<1> HIDE DEF new
<1>9. \A p \in Profiles \ doubt : read[p] # Absent =>
        /\ NumberOwn(p, read[p])
        /\ (new.op = "live" /\ new.old) \/ RowOwn(p, read[p])
  BY <1>1, <1>6, <1>7
<1> QED BY <1>1, <1>4, <1>5, <1>7, <1>8, <1>9, HasRead

LEMMA StoreListingStep == ASSUME SimInv, NEW v \in Viewers, StoreListing(v) PROVE SimInv'
<1> DEFINE w == viewer[v]
<1>1. /\ w.op = "live" /\ w.step = "store" /\ w.read \in [Profiles -> EntryType]
      /\ UNCHANGED <<chip, sim, details, lastEuicc>>
      /\ viewer' = Outdated([viewer EXCEPT ![v] = Viewing])
  BY SimIs DEF StoreListing, Doing
<1>2. PICK id \in {sim, NoProfile} : \E T \in Enriched(w.read, id) :
       /\ doubt' = doubt \cup Strangers(w.read, id) \cup (IF w.old THEN Present(T) ELSE {})
       /\ entries' = IF w.eid = NoCard THEN Upserted(T) ELSE Reconciled(T, w.eid)
  BY DEF StoreListing
<1>3. PICK T \in Enriched(w.read, id) :
       /\ doubt' = doubt \cup Strangers(w.read, id) \cup (IF w.old THEN Present(T) ELSE {})
       /\ entries' = IF w.eid = NoCard THEN Upserted(T) ELSE Reconciled(T, w.eid)
  BY <1>2
<1>4. id \in Profiles \cup {NoProfile}
  BY SimIs
<1>5. /\ T \in [Profiles -> EntryType] /\ Strangers(w.read, id) \subseteq Profiles
      /\ \A p \in Profiles : /\ T[p] # Absent => w.read[p] # Absent
                             /\ T[p].eid = w.read[p].eid
      /\ \A p \in Profiles \ (doubt \cup Strangers(w.read, id)) :
           NumberOwn(p, w.read[p]) => NumberOwn(p, T[p])
  BY <1>1, <1>4, EnrichedIs
<1>6. doubt \subseteq doubt' /\ doubt' \subseteq Profiles
  BY <1>3, <1>5, SimIs DEF Present
<1>7. \A p \in Profiles \ doubt' : T[p] # Absent => RowOwn(p, T[p])
  <2> SUFFICES ASSUME NEW p \in Profiles, p \notin doubt', T[p] # Absent PROVE RowOwn(p, T[p])
    OBVIOUS
  <2>1. ~w.old /\ p \notin doubt /\ p \notin Strangers(w.read, id)
    BY <1>3 DEF Present
  <2>2. NumberOwn(p, w.read[p]) /\ RowOwn(p, w.read[p])
    BY <1>1, <1>5, <2>1, SimIs DEF TaskOK
  <2> QED BY <1>5, <2>1, <2>2 DEF RowOwn
<1>8. entries' \in [Profiles -> EntryType] /\ EntriesOwn'
  <2>1. entries' \in [Profiles -> EntryType]
    BY <1>3, <1>5, UpsertedIs, ReconciledIs
  <2>2. \A p \in Profiles \ doubt' : RowOwn(p, entries'[p])
    BY <1>3, <1>5, <1>6, <1>7, UpsertedIs, ReconciledIs
  <2> QED BY <2>1, <2>2 DEF EntriesOwn
<1> DEFINE V == [viewer EXCEPT ![v] = Viewing]
<1>9. /\ V \in [Viewers -> ViewerType] /\ viewer' = Outdated(V)
      /\ \A u \in Viewers : V[u] = IF u = v THEN Viewing ELSE viewer[u]
  BY <1>1, SimIs, SimConstants
<1> HIDE DEF V
<1>10. \A u \in Viewers : TaskOK(V[u], sim, doubt, chip.inserted)
  BY <1>9, SimIs, ViewingOK
<1>11. \A u \in Viewers : V[u].op \in {"refresh", "info"} /\ V[u].step \in {"number", "smsc"} =>
         V[u].of \in {sim'} \cup doubt'
  BY <1>1, <1>6, <1>10 DEF TaskOK
<1>12. viewer' \in [Viewers -> ViewerType] /\ ViewersOK'
  BY <1>6, <1>9, <1>10, <1>11, OutdatedStep
<1> QED BY <1>1, <1>6, <1>8, <1>12, DetailsStay DEF SimInv, SimTypes

LEMMA ReadRowsStep == ASSUME SimInv, NEW v \in Viewers, ReadRows(v) PROVE SimInv'
<1> DEFINE w == viewer[v]
           read == [p \in Profiles |-> IF lastEuicc \in {NoCard, entries[p].eid} THEN entries[p]
                                                                                 ELSE Absent]
           new == [w EXCEPT !.step = "store", !.read = read, !.old = FALSE]
<1>1. /\ w.op = "cached" /\ w \in ViewerType
      /\ UNCHANGED <<chip, sim, details, lastEuicc, entries, doubt>>
      /\ Leaves(v) \/ viewer' = [viewer EXCEPT ![v] = new]
  BY SimIs DEF ReadRows, Doing
<1>2. \A p \in Profiles : read[p] \in {entries[p], Absent}
  OBVIOUS
<1>3. read \in [Profiles -> EntryType]
  BY SimIs, SimConstants
<1>4. \A p \in Profiles \ doubt : read[p] # Absent =>
        NumberOwn(p, read[p]) /\ RowOwn(p, read[p])
  BY <1>2, SimIs DEF RowOwn
<1> HIDE DEF read
<1>5. /\ new \in ViewerType /\ new.op = w.op /\ new.of = w.of /\ new.read = read
      /\ new.step = "store" /\ new.op # "live"
  BY <1>1, <1>3 DEF ViewerType
<1> HIDE DEF new
<1>6. CASE Leaves(v)
  BY <1>1, <1>6, SimIs, LeavesStep, OthersStay
<1>7. CASE viewer' = [viewer EXCEPT ![v] = new]
  BY <1>1, <1>3, <1>4, <1>5, <1>7, HasRead
<1> QED BY <1>1, <1>6, <1>7

(* What a task that lists nothing has read is written.                      *)
LEMMA WritesRows ==
  ASSUME SimInv, NEW v \in Viewers, Leaves(v), UNCHANGED <<chip, sim, details, lastEuicc>>,
         NEW T \in [Profiles -> EntryType], entries' = Upserted(T),
         doubt \subseteq doubt', doubt' \subseteq Profiles,
         \A p \in Profiles \ doubt' : T[p] # Absent => RowOwn(p, T[p])
  PROVE  SimInv'
<1>1. entries' \in [Profiles -> EntryType] /\ EntriesOwn'
  <2>1. \A p \in Profiles \ doubt' : RowOwn(p, entries'[p])
    BY UpsertedIs
  <2> QED BY <2>1, UpsertedIs DEF EntriesOwn
<1>2. viewer' \in [Viewers -> ViewerType] /\ ViewersOK'
  BY LeavesStep
<1> QED BY <1>1, <1>2, DetailsStay DEF SimInv, SimTypes

LEMMA StoreRowsStep == ASSUME SimInv, NEW v \in Viewers, StoreRows(v) PROVE SimInv'
<1> DEFINE w == viewer[v]
<1>1. /\ w.op = "cached" /\ w.step = "store" /\ w.read \in [Profiles -> EntryType]
      /\ UNCHANGED <<chip, sim, details, lastEuicc>> /\ Leaves(v)
  BY SimIs DEF StoreRows, Doing
<1>2. CASE UNCHANGED <<entries, doubt>>
  BY <1>1, <1>2, SimIs, LeavesStep, OthersStay
<1>3. ASSUME NEW T \in Enriched(w.read, sim), entries' = Upserted(T),
             doubt' = doubt \cup Strangers(w.read, sim)
      PROVE  SimInv'
  <2>1. /\ T \in [Profiles -> EntryType] /\ Strangers(w.read, sim) \subseteq Profiles
        /\ \A p \in Profiles : /\ T[p] # Absent => w.read[p] # Absent
                               /\ T[p].eid = w.read[p].eid
        /\ \A p \in Profiles \ (doubt \cup Strangers(w.read, sim)) :
             NumberOwn(p, w.read[p]) => NumberOwn(p, T[p])
    BY <1>1, SimIs, EnrichedIs
  <2>2. ASSUME NEW p \in Profiles \ doubt', T[p] # Absent PROVE RowOwn(p, T[p])
    <3>1. p \notin doubt /\ p \notin Strangers(w.read, sim)
      BY <1>3, <2>2
    <3>2. NumberOwn(p, w.read[p]) /\ RowOwn(p, w.read[p])
      BY <1>1, <2>1, <2>2, <3>1, SimIs DEF TaskOK
    <3> QED BY <2>1, <3>1, <3>2 DEF RowOwn
  <2>3. doubt \subseteq doubt' /\ doubt' \subseteq Profiles
    BY <1>3, <2>1, SimIs
  <2> QED BY <1>1, <1>3, <2>1, <2>2, <2>3, WritesRows
<1>4. \/ UNCHANGED <<entries, doubt>>
      \/ \E T \in Enriched(w.read, sim) : entries' = Upserted(T)
         /\ doubt' = doubt \cup Strangers(w.read, sim)
  BY DEF StoreRows
<1> QED BY <1>2, <1>3, <1>4
LEMMA RenameOnCardStep == ASSUME SimInv, NEW v \in Viewers, RenameOnCard(v) PROVE SimInv'
<1> DEFINE w == viewer[v]
           new == [w EXCEPT !.step = "get"]
<1>1. /\ w.op = "rename" /\ w \in ViewerType /\ TaskOK(w, sim, doubt, chip.inserted)
      /\ UNCHANGED <<sim, details, lastEuicc, entries, doubt>>
      /\ chip' = [chip EXCEPT !.name[w.of] = "renamed"]
      /\ ChangesCard(v, new, {w.of})
  BY SimIs DEF RenameOnCard, Doing
<1>3. new \in ViewerType /\ new.op = w.op /\ new.of = w.of /\ new.step = "get"
  BY <1>1 DEF ViewerType
<1> HIDE DEF new
<1>4. TaskOK(new, sim, doubt, chip.inserted)
  BY <1>1, <1>3 DEF TaskOK
<1>5. chip' \in ChipType
  BY <1>1, SimIs DEF ChipType
<1> QED BY <1>1, <1>3, <1>4, <1>5, ChipStep

LEMMA GetRowStep == ASSUME SimInv, NEW v \in Viewers, GetRow(v) PROVE SimInv'
<1> DEFINE w == viewer[v]
           p == w.of
           rec == [entries[p] EXCEPT !.name = "renamed"]
           read == [Nothing EXCEPT ![p] = rec]
           new == [w EXCEPT !.step = "put", !.old = FALSE, !.read = read]
<1>1. /\ w.op = "rename" /\ w \in ViewerType /\ TaskOK(w, sim, doubt, chip.inserted)
      /\ UNCHANGED <<chip, sim, details, lastEuicc, entries, doubt>>
      /\ IF entries[p] = Absent THEN Leaves(v) ELSE viewer' = [viewer EXCEPT ![v] = new]
  BY SimIs DEF GetRow, Doing
<1>2. CASE entries[p] = Absent
  BY <1>1, <1>2, SimIs, LeavesStep, OthersStay
<1>3. CASE entries[p] # Absent
  <2>1. p \in Profiles /\ entries[p] \in RecordType
    BY <1>1, <1>3, SimIs, RecordsAre DEF TaskOK
  <2>2. rec \in RecordType /\ rec.eid = entries[p].eid /\ rec.number = entries[p].number
    BY <2>1 DEF RecordType
  <2> HIDE DEF rec
  <2>3. p \notin doubt => RowOwn(p, rec) /\ NumberOwn(p, rec)
    BY <2>1, <2>2, SimIs DEF RowOwn, NumberOwn
  <2>4. /\ read \in [Profiles -> EntryType] /\ read[p] = rec
        /\ \A q \in Profiles : q # p => read[q] = Absent
    BY <2>1, <2>2, SimConstants, RecordsAre
  <2>5. \A q \in Profiles \ doubt : read[q] # Absent => NumberOwn(q, read[q]) /\ RowOwn(q, read[q])
    BY <2>3, <2>4
  <2> HIDE DEF read
  <2>6. /\ new \in ViewerType /\ new.op = w.op /\ new.of = w.of /\ new.read = read
        /\ new.step = "put" /\ new.op # "live"
    BY <1>1, <2>4 DEF ViewerType
  <2>7. viewer' = [viewer EXCEPT ![v] = new]
    BY <1>1, <1>3
  <2> HIDE DEF new
  <2> QED BY <1>1, <2>4, <2>5, <2>6, <2>7, HasRead
<1> QED BY <1>2, <1>3

LEMMA PutRowStep == ASSUME SimInv, NEW v \in Viewers, PutRow(v) PROVE SimInv'
<1> DEFINE w == viewer[v]
<1>1. /\ w.op = "rename" /\ w.step = "put" /\ w.read \in [Profiles -> EntryType]
      /\ UNCHANGED <<chip, sim, details, lastEuicc, doubt>> /\ Leaves(v)
      /\ entries' = Upserted(w.read) /\ TaskOK(w, sim, doubt, chip.inserted)
  BY SimIs DEF PutRow, Doing
<1>2. \A p \in Profiles \ doubt' : w.read[p] # Absent => RowOwn(p, w.read[p])
  BY <1>1 DEF TaskOK
<1>3. doubt \subseteq doubt' /\ doubt' \subseteq Profiles
  BY <1>1, SimIs
<1> HIDE DEF w
<1> QED BY <1>1, <1>2, <1>3, WritesRows

LEMMA DeleteOnCardStep == ASSUME SimInv, NEW v \in Viewers, DeleteOnCard(v) PROVE SimInv'
<1> DEFINE w == viewer[v]
           new == [w EXCEPT !.step = "row"]
<1>1. /\ w.op = "delete" /\ w \in ViewerType /\ TaskOK(w, sim, doubt, chip.inserted)
      /\ UNCHANGED <<sim, details, lastEuicc, entries, doubt>>
      /\ chip' = [chip EXCEPT !.installed = @ \ {w.of}]
      /\ ChangesCard(v, new, {w.of})
  BY SimIs DEF DeleteOnCard, Doing
<1>3. new \in ViewerType /\ new.op = w.op /\ new.of = w.of /\ new.step = "row"
  BY <1>1 DEF ViewerType
<1> HIDE DEF new
<1>4. TaskOK(new, sim, doubt, chip.inserted)
  BY <1>1, <1>3 DEF TaskOK
<1>5. chip' \in ChipType
  BY <1>1, SimIs DEF ChipType
<1> QED BY <1>1, <1>3, <1>4, <1>5, ChipStep

LEMMA DeleteRowStep == ASSUME SimInv, NEW v \in Viewers, DeleteRow(v) PROVE SimInv'
<1> DEFINE V == [viewer EXCEPT ![v] = Viewing]
<1>1. /\ UNCHANGED <<chip, sim, details, lastEuicc, doubt>> /\ viewer' = Outdated(V)
      /\ entries' = [entries EXCEPT ![viewer[v].of] = Absent]
  BY DEF DeleteRow
<1>2. \A p \in Profiles : entries'[p] \in {entries[p], Absent} /\ RowOwn(p, Absent)
  BY <1>1, SimIs, SimConstants DEF RowOwn, NumberOwn
<1>3. entries' \in [Profiles -> EntryType]
  BY <1>1, SimIs, SimConstants
<1>4. EntriesOwn'
  BY <1>1, <1>2, SimIs DEF EntriesOwn
<1>5. V \in [Viewers -> ViewerType] /\ \A u \in Viewers : TaskOK(V[u], sim, doubt, chip.inserted)
  BY SimIs, SimConstants, ViewingOK
<1> HIDE DEF V
<1>6. \A u \in Viewers : V[u].op \in {"refresh", "info"} /\ V[u].step \in {"number", "smsc"} =>
        V[u].of \in {sim'} \cup doubt'
  BY <1>1, <1>5 DEF TaskOK
<1>7. viewer' \in [Viewers -> ViewerType] /\ ViewersOK'
  BY <1>1, <1>5, <1>6, OutdatedStep
<1> QED BY <1>1, <1>3, <1>4, <1>7, SimIs, DetailsStay DEF SimInv, SimTypes

LEMMA EnableOnCardStep == ASSUME SimInv, NEW v \in Viewers, EnableOnCard(v) PROVE SimInv'
<1> DEFINE w == viewer[v]
           new == [Viewing EXCEPT !.op = "refresh", !.step = "spawn", !.force = TRUE]
<1>1. /\ w.op = "enable" /\ TaskOK(w, sim, doubt, chip.inserted)
      /\ UNCHANGED <<sim, details, lastEuicc, entries, doubt>>
      /\ chip' = [chip EXCEPT !.enabled[chip.inserted] = w.of]
      /\ ChangesCard(v, new, {w.of, Enabled})
  BY SimIs DEF EnableOnCard, Doing
<1>2. new \in ViewerType /\ new.op = "refresh" /\ new.step = "spawn"
  BY SimConstants DEF ViewerType, TaskOps
<1> HIDE DEF new
<1>3. TaskOK(new, sim, doubt, chip.inserted)
  BY <1>2 DEF TaskOK
<1>4. w.of \in Profiles
  BY <1>1 DEF TaskOK
<1>5. chip' \in ChipType
  BY <1>1, <1>4, SimIs DEF ChipType
<1> QED BY <1>1, <1>2, <1>3, <1>5, ChipStep

LEMMA DownloadToCardStep == ASSUME SimInv, NEW v \in Viewers, DownloadToCard(v) PROVE SimInv'
<1> DEFINE w == viewer[v]
           new == [w EXCEPT !.step = "row"]
<1>1. /\ w.op = "download" /\ w \in ViewerType /\ TaskOK(w, sim, doubt, chip.inserted)
      /\ UNCHANGED <<sim, details, lastEuicc, entries, doubt>>
      /\ chip' = [chip EXCEPT !.installed = @ \cup {w.of}]
      /\ ChangesCard(v, new, {w.of})
  BY SimIs DEF DownloadToCard, Doing
<1>3. new \in ViewerType /\ new.op = w.op /\ new.of = w.of /\ new.step = "row"
  BY <1>1 DEF ViewerType
<1> HIDE DEF new
<1>4. TaskOK(new, sim, doubt, chip.inserted)
  BY <1>1, <1>3 DEF TaskOK
<1>5. chip' \in ChipType
  BY <1>1, SimIs DEF ChipType, TaskOK
<1> QED BY <1>1, <1>3, <1>4, <1>5, ChipStep

LEMMA CacheDownloadStep == ASSUME SimInv, NEW v \in Viewers, CacheDownload(v) PROVE SimInv'
<1> DEFINE p == viewer[v].of
           rec == [eid |-> lastEuicc, name |-> "given", state |-> "disabled", number |-> "none"]
           read == [Nothing EXCEPT ![p] = rec]
<1>1. /\ viewer[v].op = "download" /\ UNCHANGED <<chip, sim, details, lastEuicc>> /\ Leaves(v)
      /\ entries' = Upserted(read)
      /\ doubt' = IF lastEuicc \in {NoCard, Home[p]} THEN doubt ELSE doubt \cup {p}
  BY DEF CacheDownload, Doing
<1>2. p \in Profiles
  BY <1>1, SimIs DEF TaskOK
<1>3. rec \in RecordType /\ rec.eid = lastEuicc /\ rec.number = "none"
  BY SimIs DEF RecordType
<1> HIDE DEF rec
<1>4. /\ read \in [Profiles -> EntryType] /\ read[p] = rec
      /\ \A q \in Profiles : q # p => read[q] = Absent
  BY <1>2, <1>3, SimConstants, RecordsAre
<1> HIDE DEF read
<1>5. doubt \subseteq doubt' /\ doubt' \subseteq Profiles
  BY <1>1, <1>2, SimIs
<1>6. \A q \in Profiles \ doubt' : read[q] # Absent => RowOwn(q, read[q])
  BY <1>1, <1>3, <1>4 DEF RowOwn, NumberOwn
<1> QED BY <1>1, <1>4, <1>5, <1>6, WritesRows

(* Rows without a card are given the one that was seen last.                *)
LEMMA StopProcessStep == ASSUME SimInv, StopProcess PROVE SimInv'
<1> DEFINE given == {p \in Profiles : entries[p].eid = NoCard}
<1>1. /\ viewer' = [v \in Viewers |-> Viewing]
      /\ entries' = [p \in Profiles |-> IF p \in given THEN [entries[p] EXCEPT !.eid = lastEuicc]
                                        ELSE entries[p]]
      /\ doubt' = doubt \cup {p \in given : lastEuicc \notin {NoCard, Home[p]}}
      /\ UNCHANGED <<chip, sim, details, lastEuicc>>
  BY DEF StopProcess
<1>2. ASSUME NEW p \in Profiles
      PROVE  entries'[p] \in EntryType /\ (p \notin doubt' => RowOwn(p, entries'[p]))
  <2>1. CASE p \in given
    <3>1. entries[p] \in RecordType
      BY <2>1, SimIs, SimConstants, SimAssumption, RecordsAre
    <3> DEFINE new == [entries[p] EXCEPT !.eid = lastEuicc]
    <3>2. new \in RecordType /\ new.eid = lastEuicc /\ new.number = entries[p].number
      BY <3>1, SimIs DEF RecordType
    <3>3. entries'[p] = new
      BY <1>1, <2>1
    <3> HIDE DEF new
    <3>4. p \notin doubt' => RowOwn(p, new)
      BY <1>1, <2>1, <3>2, SimIs DEF RowOwn, NumberOwn
    <3> QED BY <3>2, <3>3, <3>4, RecordsAre
  <2>2. CASE p \notin given
    BY <1>1, <2>2, SimIs
  <2> QED BY <2>1, <2>2
<1>3. entries' \in [Profiles -> EntryType]
  <2>1. \A p \in Profiles : entries'[p] \in EntryType
    BY <1>2
  <2> QED BY <1>1, <2>1
<1>4. EntriesOwn'
  BY <1>2 DEF EntriesOwn
<1>5. doubt \subseteq doubt' /\ doubt' \subseteq Profiles
  BY <1>1, SimIs
<1>6. viewer' \in [Viewers -> ViewerType] /\ ViewersOK'
  BY <1>1, SimConstants, ViewingOK DEF ViewersOK
<1> QED BY <1>1, <1>3, <1>4, <1>5, <1>6, DetailsStay DEF SimInv, SimTypes

LEMMA SimInvAtInit == ASSUME SimInit PROVE SimInv
<1>1. chip \in ChipType /\ sim \in Profiles \cup {NoProfile}
  <2>1. chip \in ChipType
    BY DEF SimInit, FirstChips, ChipType
  <2> QED BY <2>1 DEF SimInit, Enabled, ChipType
<1>2. entries \in [Profiles -> EntryType] /\ lastEuicc \in Cards \cup {NoCard} /\ EntriesOwn
  <2>1. CASE lastEuicc = NoCard /\ entries = Nothing
    BY <2>1, SimConstants DEF EntriesOwn, RowOwn, NumberOwn
  <2>2. CASE /\ lastEuicc = chip.inserted
             /\ entries = [p \in Profiles |-> IF p \in OnCard(chip.inserted)
                                               THEN Profile(p, chip.inserted, "none") ELSE Absent]
    <3>1. ASSUME NEW p \in Profiles PROVE entries[p] \in EntryType /\ RowOwn(p, entries[p])
      <4>1. CASE p \in OnCard(chip.inserted)
        <5>1. /\ chip.inserted = Home[p] /\ Home[p] \in Cards
              /\ entries[p] = Profile(p, Home[p], "none")
          BY <2>2, <4>1, SimConstants DEF OnCard
        <5>2. Profile(p, Home[p], "none") \in RecordType
          BY <1>1, <5>1, ProfileIs
        <5>3. RowOwn(p, Profile(p, Home[p], "none"))
          BY DEF RowOwn, NumberOwn, Profile
        <5> QED BY <5>1, <5>2, <5>3, RecordsAre
      <4>2. CASE p \notin OnCard(chip.inserted)
        BY <2>2, <4>2, SimConstants DEF RowOwn, NumberOwn
      <4> QED BY <4>1, <4>2
    <3>2. entries \in [Profiles -> EntryType]
      BY <2>2, <3>1
    <3> QED BY <1>1, <2>2, <3>1, <3>2 DEF EntriesOwn, ChipType
  <2> QED BY <2>1, <2>2 DEF SimInit
<1>3. SimTypes
  BY <1>1, <1>2, SimConstants DEF SimInit, SimTypes, ValueType
<1>4. ViewersOK
  BY ViewingOK DEF SimInit, ViewersOK
<1>5. DetailsOwn
  BY DEF SimInit, DetailsOwn, ValueOwn
<1> QED BY <1>2, <1>3, <1>4, <1>5 DEF SimInv

LEMMA SimInvStep ==
  ASSUME SimInv, [SimNext]_simRecords
  PROVE  SimInv'
<1>1. CASE UNCHANGED simRecords
  BY <1>1 DEF simRecords, SimInv, SimTypes, ViewersOK, DetailsOwn, EntriesOwn
<1>2. CASE Swap \/ Registers \/ SaveManual \/ CenterOfSms \/ StopProcess
  BY <1>2, SwapStep, RegistersStep, SaveManualStep, CenterOfSmsStep, StopProcessStep
<1>3. ASSUME NEW v \in Viewers, ViewStep(v) PROVE SimInv'
  BY <1>3, AsksForStep, AbandonsStep, StartRefreshStep, FetchNumberStep, FetchCenterStep,
     AskInfoStep, ReadInfoStep, ReadEuiccStep, ShowEuiccStep, ReadProfilesStep,
     StoreListingStep, ReadRowsStep, StoreRowsStep, RenameOnCardStep, GetRowStep, PutRowStep,
     DeleteOnCardStep, DeleteRowStep, EnableOnCardStep, DownloadToCardStep, CacheDownloadStep
  DEF ViewStep
<1> QED BY <1>1, <1>2, <1>3 DEF SimNext

LEMMA SimInvAlways == RemoteSpec => []SimInv
<1>1. RemoteInit => SimInv
  BY SimInvAtInit DEF RemoteInit
<1>2. SimInv /\ [RemoteNext]_<<area, vars, hubLife, ddns, simCard, callLog, simRecords,
                               routing, cellScan>> => SimInv'
  BY SimInvStep DEF RemoteNext, simRecords
<1> QED BY <1>1, <1>2, PTL DEF RemoteSpec

(* RecordsOwn: numbers, message centres and cards are kept under the SIM    *)
(* they are of, or are the user's, with the exceptions that are named       *)
(* there: one is a SIM that was read while the modem used another one than  *)
(* ModemManager showed.                                                     *)
(* (cache_own_numbers_for_identity, cache_smsc_for_identity,                *)
(* enrich_profiles_with_current_identity)                                   *)
THEOREM RecordsAreOwn == RemoteSpec => []RecordsOwn
<1>1. SimInv => RecordsOwn
  BY DEF SimInv, DetailsOwn, EntriesOwn, ValueOwn, RowOwn, NumberOwn, RecordsOwn
<1> QED BY <1>1, SimInvAlways, PTL

(* ListingTrue: what the rows say of the card, whose state is c.            *)
InCard(p, c) == p \in c.installed /\ Home[p] = c.inserted

RowTrue(p, rec, c) ==
  /\ rec.eid # NoCard
  /\ rec.eid = c.inserted <=> InCard(p, c)
  /\ rec.eid = c.inserted =>
       rec.name = c.name[p] /\ (rec.state = "enabled" <=> p = c.enabled[c.inserted])

(* What a task has read of the card, and that nothing crossed, is of the    *)
(* card; what it has read of rows in F is so while the rows are; a new name *)
(* is on the card first; a profile whose row is deleted is not on the card  *)
(* unless something crossed.                                                *)
ReadsTrue(w, F, c) ==
  /\ w.op = "live" /\ w.step = "store" /\ ~w.old =>
       \A p \in Profiles : /\ w.read[p] # Absent <=> InCard(p, c)
                           /\ w.read[p] # Absent => RowTrue(p, w.read[p], c)
  /\ w.op # "live" /\ w.step \in {"store", "put"} /\ ~w.old =>
       \A p \in F : w.read[p] # Absent => RowTrue(p, w.read[p], c)
  /\ w.op = "rename" /\ w.step = "get" => c.name[w.of] = "renamed"
  /\ w.op = "delete" /\ w.step = "row" /\ ~w.old => ~InCard(w.of, c)

RowsTrue == \A p \in fresh : RowTrue(p, entries[p], chip)

(* The SIM s that ModemManager uses is the enabled profile, or its row may  *)
(* be taken for that of the active one.                                     *)
ModemShows(s, F, c) == s \in F => s = c.enabled[c.inserted] \/ ~InCard(s, c)

ListInv ==
  /\ SimInv
  /\ fresh \subseteq Profiles
  /\ ModemShows(sim, fresh, chip)
  /\ RowsTrue
  /\ \A v \in Viewers : ReadsTrue(viewer[v], fresh, chip)

LEMMA ViewingReads == \A F, c : ReadsTrue(Viewing, F, c)
BY SimConstants DEF ReadsTrue

LEMMA ListIs ==
  ASSUME ListInv
  PROVE  /\ SimInv /\ fresh \subseteq Profiles /\ ModemShows(sim, fresh, chip) /\ RowsTrue
         /\ \A v \in Viewers : ReadsTrue(viewer[v], fresh, chip)
BY DEF ListInv

LEMMA ReadsFewer ==
  ASSUME NEW w, NEW F, NEW c, ReadsTrue(w, F, c), NEW G, G \subseteq F
  PROVE  ReadsTrue(w, G, c)
BY DEF ReadsTrue

(* The card, the SIM and the rows in fresh stay, and a task goes on.        *)
LEMMA ListGoes ==
  ASSUME ListInv, SimInv', UNCHANGED <<chip, sim>>, fresh' \subseteq fresh,
         \A p \in fresh' : RowTrue(p, entries'[p], chip), NEW v \in Viewers, NEW new,
         viewer' = [viewer EXCEPT ![v] = new], ReadsTrue(new, fresh, chip)
  PROVE  ListInv'
<1>1. RowsTrue' /\ ModemShows(sim, fresh, chip)' /\ (fresh \subseteq Profiles)'
  BY ListIs DEF RowsTrue, ModemShows
<1>2. ASSUME NEW u \in Viewers PROVE ReadsTrue(viewer'[u], fresh', chip')
  <2>1. viewer'[u] = IF u = v THEN new ELSE viewer[u]
    BY ListIs, SimIs
  <2>2. ReadsTrue(viewer'[u], fresh, chip)
    BY <2>1, ListIs
  <2> QED BY <2>2, ReadsFewer
<1> QED BY <1>1, <1>2 DEF ListInv

LEMMA ListWrites ==
  ASSUME ListInv, SimInv', UNCHANGED <<chip, sim>>, fresh' \subseteq fresh,
         \A p \in fresh' : RowTrue(p, entries'[p], chip), NEW v \in Viewers, Leaves(v)
  PROVE  ListInv'
<1>1. viewer' = [viewer EXCEPT ![v] = Viewing]
  BY DEF Leaves
<1> QED BY <1>1, ViewingReads, ListGoes

LEMMA ListLeaves ==
  ASSUME ListInv, SimInv', UNCHANGED <<chip, sim, entries, fresh>>, NEW v \in Viewers, Leaves(v)
  PROVE  ListInv'
BY ListIs, ListWrites DEF RowsTrue

(* What was read is old once the card is changed, or listed.                *)
LEMMA OldReads ==
  ASSUME NEW w \in ViewerType, NEW F, NEW c,
         w.op = "rename" /\ w.step = "get" => c.name[w.of] = "renamed"
  PROVE  ReadsTrue(Out(w), F, c)
<1>1. CASE w = Viewing
  BY <1>1, OutIs, SimConstants DEF ReadsTrue
<1>2. CASE w # Viewing
  BY <1>2, OutIs DEF ReadsTrue
<1> QED BY <1>1, <1>2

(* All tasks but one, which is done, have read what is old.                 *)
LEMMA AllOld ==
  ASSUME ListInv, UNCHANGED chip, NEW v \in Viewers,
         viewer' = Outdated([viewer EXCEPT ![v] = Viewing])
  PROVE  \A u \in Viewers : ReadsTrue(viewer'[u], fresh', chip')
<1> DEFINE V == [viewer EXCEPT ![v] = Viewing]
<1>1. /\ V \in [Viewers -> ViewerType] /\ \A u \in Viewers : V[u] \in {Viewing, viewer[u]}
      /\ viewer' = Outdated(V)
  BY ListIs, SimIs, SimConstants
<1> HIDE DEF V
<1>2. ASSUME NEW u \in Viewers PROVE ReadsTrue(viewer'[u], fresh', chip')
  <2>1. V[u].op = "rename" /\ V[u].step = "get" => chip'.name[V[u].of] = "renamed"
    BY <1>1, ListIs, SimConstants DEF ReadsTrue
  <2>2. viewer'[u] = Out(V[u])
    BY <1>1 DEF Outdated, Out
  <2> QED BY <1>1, <2>1, <2>2, OldReads
<1> QED BY <1>2

(* Profiles that are not changed are on the card as before.                 *)
Alike(p, c, d) ==
  /\ InCard(p, d) <=> InCard(p, c)
  /\ d.name[p] = c.name[p]
  /\ p = d.enabled[d.inserted] <=> p = c.enabled[c.inserted]

LEMMA ListChanges ==
  ASSUME ListInv, SimInv', NEW v \in Viewers, NEW then \in ViewerType, NEW changed,
         ChangesCard(v, then, changed), UNCHANGED <<sim, entries>>,
         chip'.inserted = chip.inserted, \A p \in Profiles \ changed : Alike(p, chip, chip'),
         \A p : chip.name[p] = "renamed" => chip'.name[p] = "renamed",
         then.step \notin {"store", "put"},
         then.op = "rename" /\ then.step = "get" => chip'.name[then.of] = "renamed",
         then.op = "delete" /\ then.step = "row" => ~InCard(then.of, chip')
  PROVE  ListInv'
<1>1. fresh' = fresh \ changed
  BY DEF ChangesCard
<1>2. RowsTrue'
  <2> SUFFICES ASSUME NEW p \in fresh, p \notin changed PROVE RowTrue(p, entries[p], chip')
    BY <1>1 DEF RowsTrue
  <2>1. RowTrue(p, entries[p], chip) /\ Alike(p, chip, chip')
    BY ListIs DEF RowsTrue
  <2> QED BY <2>1 DEF RowTrue, Alike
<1>3. ModemShows(sim', fresh', chip')
  <2> SUFFICES ASSUME sim \in fresh, sim \notin changed
               PROVE  sim = chip'.enabled[chip'.inserted] \/ ~InCard(sim, chip')
    BY <1>1 DEF ModemShows
  <2>1. Alike(sim, chip, chip') /\ (sim = chip.enabled[chip.inserted] \/ ~InCard(sim, chip))
    BY ListIs DEF ModemShows
  <2> QED BY <2>1 DEF Alike
<1>4. /\ \A u \in Viewers : u # v => viewer'[u] = Out(viewer[u])
      /\ viewer'[v].op = then.op /\ viewer'[v].step = then.step
      /\ viewer'[v].of = then.of /\ viewer'[v].read = then.read
  BY ListIs, SimIs, ChangedIs
<1>5. ASSUME NEW u \in Viewers PROVE ReadsTrue(viewer'[u], fresh', chip')
  <2>1. CASE u = v
    BY <1>4, <2>1 DEF ReadsTrue
  <2>2. CASE u # v
    <3>1. /\ viewer[u] \in ViewerType
          /\ viewer[u].op = "rename" /\ viewer[u].step = "get" =>
               chip'.name[viewer[u].of] = "renamed"
      BY ListIs, SimIs DEF ReadsTrue
    <3> QED BY <1>4, <2>2, <3>1, OldReads
  <2> QED BY <2>1, <2>2
<1> QED BY <1>1, <1>2, <1>3, <1>5, ListIs DEF ListInv

LEMMA MergedTells ==
  ASSUME SimInv, NEW p \in Profiles, NEW rec \in RecordType, rec.eid # NoCard
  PROVE  /\ Merged(p, rec).eid = rec.eid /\ Merged(p, rec).name = rec.name
         /\ Merged(p, rec).state = rec.state
<1> DEFINE number == IF rec.number = "none" THEN entries[p].number ELSE rec.number
           new == [rec EXCEPT !.number = number]
<1>1. CASE entries[p] = Absent
  BY <1>1 DEF Merged
<1>2. CASE entries[p] # Absent
  <2>1. Merged(p, rec) = [rec EXCEPT !.eid = rec.eid, !.number = number]
    BY <1>2 DEF Merged
  <2> HIDE DEF number
  <2> QED BY <2>1 DEF RecordType
<1> QED BY <1>1, <1>2

(* A row that is of the card is written over one that is.                   *)
LEMMA UpsertedTrue ==
  ASSUME SimInv, NEW T \in [Profiles -> EntryType], NEW p \in Profiles,
         RowTrue(p, entries[p], chip), T[p] # Absent => RowTrue(p, T[p], chip)
  PROVE  RowTrue(p, Upserted(T)[p], chip)
<1>1. CASE T[p] = Absent
  BY <1>1 DEF Upserted
<1>2. CASE T[p] # Absent
  <2>1. T[p] \in RecordType /\ RowTrue(p, T[p], chip) /\ T[p].eid # NoCard
    BY <1>2, RecordsAre DEF RowTrue
  <2>2. Upserted(T)[p] = Merged(p, T[p])
    BY <1>2 DEF Upserted
  <2> QED BY <2>1, <2>2, MergedTells DEF RowTrue
<1> QED BY <1>1, <1>2

(* The identity in use marks its own row, which is that of the enabled      *)
(* profile if ModemManager shows it.                                        *)
LEMMA EnrichedTrue ==
  ASSUME SimInv, NEW T \in [Profiles -> EntryType], NEW id \in Profiles \cup {NoProfile},
         NEW U \in Enriched(T, id)
  PROVE  /\ U \in [Profiles -> EntryType]
         /\ \A q \in Profiles : /\ U[q] # Absent <=> T[q] # Absent
                                /\ /\ T[q] # Absent /\ RowTrue(q, T[q], chip)
                                   /\ q = id => id = Enabled \/ ~InCard(id, chip)
                                   => RowTrue(q, U[q], chip)
<1>1. U \in [Profiles -> EntryType]
  BY EnrichedIs
<1>2. CASE U = T
  BY <1>1, <1>2
<1>3. CASE U # T
  <2> DEFINE known == details["number"][id]
  <2>1. PICK p \in Current(T, id) :
             U = [T EXCEPT ![p].state = IF p = id THEN "enabled" ELSE @,
                           ![p].number = IF @ = "none" /\ known \notin {"unread", "empty"}
                                         THEN known ELSE @]
    BY <1>3 DEF Enriched
  <2>2. p \in Profiles /\ T[p] # Absent /\ T[p] \in RecordType
    BY <2>1, RecordsAre DEF Current, Present
  <2> DEFINE state == IF p = id THEN "enabled" ELSE T[p].state
             number == IF T[p].number = "none" /\ known \notin {"unread", "empty"}
                       THEN known ELSE T[p].number
             new == [T[p] EXCEPT !.state = state, !.number = number]
  <2>4. U = [T EXCEPT ![p] = new]
    BY <2>1, <2>2
  <2> HIDE DEF known
  <2>5. state = T[p].state \/ (p = id /\ state = "enabled")
    BY <2>2
  <2> HIDE DEF state, number
  <2>6. new.eid = T[p].eid /\ new.name = T[p].name /\ new.state = state
    BY <2>2 DEF RecordType
  <2>7. DOMAIN new = {"eid", "name", "state", "number"}
    BY <2>2 DEF RecordType
  <2> HIDE DEF new
  <2>8. /\ RowTrue(p, T[p], chip)
        /\ p = id => id = Enabled \/ ~InCard(id, chip)
        => RowTrue(p, new, chip)
    BY <2>5, <2>6 DEF RowTrue, Enabled
  <2>9. U[p] = new /\ \A q \in Profiles : q # p => U[q] = T[q]
    BY <2>2, <2>4
  <2>10. new # Absent
    <3>1. T[p].eid \in Cards \cup {NoCard}
      BY <2>2 DEF RecordType
    <3> QED BY <2>6, <3>1, SimConstants, SimAssumption
  <2> QED BY <1>1, <2>2, <2>8, <2>9, <2>10
<1> QED BY <1>2, <1>3

(* Steps that leave the card and the rows alone.                            *)
LEMMA ListStays ==
  ASSUME ListInv, SimInv', UNCHANGED <<chip, sim, entries, viewer, fresh>>
  PROVE  ListInv'
BY DEF ListInv, RowsTrue, ModemShows

LEMMA ListPlain ==
  ASSUME ListInv, SimInv', UNCHANGED <<chip, sim, entries, fresh>>, NEW v \in Viewers, NEW new,
         viewer' = [viewer EXCEPT ![v] = new],
         new.op \notin {"live", "cached", "rename", "delete", "download"} \/ new.step = "start"
           \/ new.step = "profiles",
         new.step \notin {"store", "put"}
  PROVE  ListInv'
<1>1. ReadsTrue(new, fresh, chip)
  BY DEF ReadsTrue
<1> QED BY <1>1, ListIs, ListGoes DEF RowsTrue

LEMMA ListAsks == ASSUME ListInv, SimInv', NEW v \in Viewers, AsksFor(v) PROVE ListInv'
<1>1. PICK op \in {"live", "cached", "euicc", "rename", "delete", "enable", "download",
                   "info", "refresh"}, p \in Profiles \cup {NoProfile} :
       /\ p \in IF op \in {"rename", "delete", "enable"} THEN OnCard(chip.inserted)
               ELSE IF op = "download" THEN Profiles \ chip.installed ELSE {NoProfile}
       /\ viewer' = [viewer EXCEPT ![v] =
            [Viewing EXCEPT !.op = op, !.of = p, !.force = op = "refresh",
                            !.step = IF op = "refresh" THEN "spawn" ELSE "start"]]
  BY DEF AsksFor
<1> DEFINE step == IF op = "refresh" THEN "spawn" ELSE "start"
           force == op = "refresh"
           new == [Viewing EXCEPT !.op = op, !.of = p, !.force = force, !.step = step]
<1>2. viewer' = [viewer EXCEPT ![v] = new]
  BY <1>1
<1>3. step = "start" \/ (op = "refresh" /\ step = "spawn")
  OBVIOUS
<1> HIDE DEF step, force
<1>4. new.op = op /\ new.step = step
  BY SimConstants DEF ViewerType
<1> HIDE DEF new
<1> QED BY <1>2, <1>3, <1>4, ListPlain DEF AsksFor

LEMMA ListAbandons == ASSUME ListInv, SimInv', NEW v \in Viewers, Abandons(v) PROVE ListInv'
<1>1. UNCHANGED <<chip, sim, entries, fresh>>
  BY DEF Abandons
<1> DEFINE new == [Viewing EXCEPT !.op = "refresh", !.step = "spawn", !.force = TRUE, !.old = TRUE]
<1>2. Leaves(v) \/ viewer' = [viewer EXCEPT ![v] = new]
  BY DEF Abandons
<1>3. new.op = "refresh" /\ new.step = "spawn"
  BY SimConstants DEF ViewerType
<1> HIDE DEF new
<1> QED BY <1>1, <1>2, <1>3, ListIs, ListPlain, ListLeaves

LEMMA ListDetails ==
  ASSUME ListInv, SimInv', NEW v \in Viewers,
         \/ StartRefresh(v) \/ FetchNumber(v) \/ FetchCenter(v) \/ AskInfo(v) \/ ReadInfo(v)
         \/ ShowEuicc(v)
  PROVE  ListInv'
<1>1. UNCHANGED <<chip, sim, entries, fresh>>
  BY DEF StartRefresh, FetchNumber, FetchCenter, AskInfo, ReadInfo, ShowEuicc
<1>2. CASE Leaves(v)
  BY <1>1, <1>2, ListIs, ListLeaves
<1>3. CASE ~Leaves(v)
  <2>1. viewer \in [Viewers -> ViewerType] /\ viewer[v] \in ViewerType
    BY ListIs, SimIs
  <2>2. CASE StartRefresh(v)
    <3> DEFINE wants == viewer[v].force \/ details["number"][sim] = "unread"
               new == [viewer[v] EXCEPT !.step = "number", !.of = sim, !.wants = wants]
    <3>1. viewer' = [viewer EXCEPT ![v] = new] /\ viewer[v].op = "refresh"
      BY <1>3, <2>1, <2>2 DEF StartRefresh, Doing
    <3> HIDE DEF wants
    <3>2. new.op = viewer[v].op /\ new.step = "number"
      BY <2>1 DEF ViewerType
    <3> HIDE DEF new
    <3> QED BY <1>1, <3>1, <3>2, ListPlain
  <2>3. CASE FetchNumber(v)
    <3> DEFINE wants == viewer[v].force \/ details["smsc"][viewer[v].of] = "unread"
               new == [viewer[v] EXCEPT !.step = "smsc", !.wants = wants]
    <3>1. viewer' = [viewer EXCEPT ![v] = new] /\ viewer[v].op = "refresh"
      BY <2>1, <2>3 DEF FetchNumber, Doing
    <3> HIDE DEF wants
    <3>2. new.op = viewer[v].op /\ new.step = "smsc"
      BY <2>1 DEF ViewerType
    <3> HIDE DEF new
    <3> QED BY <1>1, <3>1, <3>2, ListPlain
  <2>4. CASE FetchCenter(v) \/ ShowEuicc(v)
    BY <1>3, <2>4 DEF FetchCenter, ShowEuicc
  <2>5. CASE AskInfo(v)
    <3> DEFINE new == [viewer[v] EXCEPT !.step = "number", !.of = sim]
    <3>1. viewer' = [viewer EXCEPT ![v] = new] /\ viewer[v].op = "info"
      BY <1>3, <2>1, <2>5 DEF AskInfo, Doing
    <3>2. new.op = viewer[v].op /\ new.step = "number"
      BY <2>1 DEF ViewerType
    <3> HIDE DEF new
    <3> QED BY <1>1, <3>1, <3>2, ListPlain
  <2>6. CASE ReadInfo(v)
    <3> DEFINE new == [Viewing EXCEPT !.op = "refresh", !.step = "spawn"]
    <3>1. viewer' = [viewer EXCEPT ![v] = new]
      BY <1>3, <2>6 DEF ReadInfo
    <3>2. new.op = "refresh" /\ new.step = "spawn"
      BY SimConstants DEF ViewerType
    <3> HIDE DEF new
    <3> QED BY <1>1, <3>1, <3>2, ListPlain
  <2> QED BY <2>2, <2>3, <2>4, <2>5, <2>6
<1> QED BY <1>2, <1>3

LEMMA ListReadsEuicc == ASSUME ListInv, SimInv', NEW v \in Viewers, ReadEuicc(v) PROVE ListInv'
<1>1. UNCHANGED <<chip, sim, entries, fresh>>
  BY DEF ReadEuicc
<1>2. PICK eid \in {chip.inserted, lastEuicc}, old \in BOOLEAN :
        viewer' = [viewer EXCEPT ![v].step = "profiles", ![v].eid = eid, ![v].old = old]
  BY DEF ReadEuicc
<1> DEFINE new == [viewer[v] EXCEPT !.step = "profiles", !.eid = eid, !.old = old]
<1>3. viewer' = [viewer EXCEPT ![v] = new]
  BY <1>2, ListIs, SimIs
<1>4. new.op = viewer[v].op /\ new.step = "profiles"
  BY ListIs, SimIs DEF ViewerType
<1> HIDE DEF new
<1> QED BY <1>1, <1>3, <1>4, ListPlain

(* What is read of the card, and was not crossed, is of the card.           *)
LEMMA ListReadsProfiles ==
  ASSUME ListInv, SimInv', NEW v \in Viewers, ReadProfiles(v) PROVE ListInv'
<1> DEFINE w == viewer[v]
           Eid(p) == IF w.eid = NoCard /\ entries[p] # Absent THEN entries[p].eid ELSE w.eid
           OfCard(p) == Profile(p, Eid(p), entries[p].number)
           read == [p \in Profiles |-> IF p \in OnCard(chip.inserted) THEN OfCard(p) ELSE Absent]
           new == [w EXCEPT !.step = "store", !.read = read]
<1>1. /\ w.op = "live" /\ w.step = "profiles" /\ w \in ViewerType
      /\ TaskOK(w, sim, doubt, chip.inserted) /\ chip.inserted \in Cards
      /\ UNCHANGED <<chip, sim, entries, fresh>>
      /\ viewer' = [viewer EXCEPT ![v].step = "store", ![v].read = read]
  BY ListIs, SimIs DEF ReadProfiles, Doing
<1>2. viewer' = [viewer EXCEPT ![v] = new]
  BY <1>1, ListIs, SimIs
<1>3. ASSUME ~w.old, NEW p \in Profiles
      PROVE  /\ read[p] # Absent <=> InCard(p, chip)
             /\ read[p] # Absent => RowTrue(p, read[p], chip)
  <2>1. w.eid = chip.inserted
    BY <1>1, <1>3 DEF TaskOK
  <2>2. Eid(p) = chip.inserted
    BY <1>1, <2>1, SimConstants
  <2>3. p \in OnCard(chip.inserted) <=> InCard(p, chip)
    BY DEF OnCard, InCard
  <2>4. CASE p \notin OnCard(chip.inserted)
    BY <2>3, <2>4
  <2>5. CASE p \in OnCard(chip.inserted)
    <3>1. read[p] = OfCard(p)
      BY <2>5
    <3>2. /\ OfCard(p).eid = chip.inserted /\ OfCard(p).name = chip.name[p]
          /\ OfCard(p).state = "enabled" <=> p = Enabled
      BY <2>2 DEF Profile
    <3>3. OfCard(p) # Absent
      BY <1>1, <3>2, SimConstants, SimAssumption
    <3> HIDE DEF OfCard
    <3> QED BY <1>1, <2>3, <2>5, <3>1, <3>2, <3>3, SimConstants DEF RowTrue, Enabled
  <2> QED BY <2>4, <2>5
<1> HIDE DEF read
<1>4. new.op = "live" /\ new.step = "store" /\ new.read = read /\ new.old = w.old
  BY <1>1 DEF ViewerType
<1> HIDE DEF new
<1>5. ReadsTrue(new, fresh, chip)
  BY <1>3, <1>4 DEF ReadsTrue
<1> QED BY <1>1, <1>2, <1>5, ListIs, ListGoes DEF RowsTrue

(* A listing makes the rows those of the card, and what others read old.    *)
LEMMA ListStores == ASSUME ListInv, SimInv', NEW v \in Viewers, StoreListing(v) PROVE ListInv'
<1> DEFINE w == viewer[v]
<1>1. /\ w.op = "live" /\ w.step = "store" /\ w.read \in [Profiles -> EntryType]
      /\ UNCHANGED <<chip, sim, details>> /\ viewer' = Outdated([viewer EXCEPT ![v] = Viewing])
      /\ fresh' = IF w.old THEN {} ELSE Profiles \ ({sim} \ {Enabled})
  BY ListIs, SimIs DEF StoreListing, Doing
<1>2. PICK id \in {sim, NoProfile} : \E T \in Enriched(w.read, id) :
       entries' = IF w.eid = NoCard THEN Upserted(T) ELSE Reconciled(T, w.eid)
  BY DEF StoreListing
<1>3. PICK T \in Enriched(w.read, id) :
       entries' = IF w.eid = NoCard THEN Upserted(T) ELSE Reconciled(T, w.eid)
  BY <1>2
<1>4. \A u \in Viewers : ReadsTrue(viewer'[u], fresh', chip')
  BY <1>1, AllOld
<1>5. CASE w.old
  BY <1>1, <1>4, <1>5 DEF ListInv, RowsTrue, ModemShows
<1>6. CASE ~w.old
  <2>1. /\ w.eid = chip.inserted /\ chip.inserted \in Cards /\ id \in Profiles \cup {NoProfile}
        /\ fresh' = Profiles \ ({sim} \ {Enabled})
    BY <1>1, <1>6, ListIs, SimIs DEF TaskOK
  <2>2. \A p \in Profiles : /\ w.read[p] # Absent <=> InCard(p, chip)
                            /\ w.read[p] # Absent => RowTrue(p, w.read[p], chip)
    BY <1>1, <1>6, ListIs DEF ReadsTrue
  <2>3. /\ T \in [Profiles -> EntryType]
        /\ \A p \in Profiles : /\ T[p] # Absent <=> w.read[p] # Absent
                               /\ /\ w.read[p] # Absent /\ RowTrue(p, w.read[p], chip)
                                  /\ p = id => id = Enabled \/ ~InCard(id, chip)
                                  => RowTrue(p, T[p], chip)
    BY <1>1, <2>1, ListIs, EnrichedTrue
  <2>4. entries' = Reconciled(T, chip.inserted)
    BY <1>3, <2>1, SimConstants
  <2>5. ASSUME NEW p \in fresh' PROVE RowTrue(p, entries'[p], chip)
    <3>0. p \in Profiles /\ (p = id => id = Enabled)
      BY <1>2, <2>1, SimAssumption
    <3>1. CASE T[p] = Absent
      <4>1. ~InCard(p, chip)
        BY <2>2, <2>3, <3>0, <3>1
      <4>2. CASE entries[p].eid \in {chip.inserted, NoCard}
        <5>1. entries'[p] = Absent
          BY <2>4, <3>0, <3>1, <4>2 DEF Reconciled
        <5> QED BY <2>1, <4>1, <5>1, SimConstants, SimAssumption DEF RowTrue
      <4>3. CASE entries[p].eid \notin {chip.inserted, NoCard}
        <5>1. entries'[p] = entries[p]
          BY <2>4, <3>0, <3>1, <4>3 DEF Reconciled, Upserted
        <5> QED BY <4>1, <4>3, <5>1 DEF RowTrue
      <4> QED BY <4>2, <4>3
    <3>2. CASE T[p] # Absent
      <4>1. RowTrue(p, T[p], chip) /\ T[p].eid # NoCard /\ T[p] \in RecordType
        BY <2>2, <2>3, <3>0, <3>2, RecordsAre DEF RowTrue
      <4>2. entries'[p] = Merged(p, T[p])
        BY <2>4, <3>0, <3>2 DEF Reconciled, Upserted
      <4> QED BY <3>0, <4>1, <4>2, ListIs, MergedTells DEF RowTrue
    <3> QED BY <3>1, <3>2
  <2>6. RowsTrue'
    BY <1>1, <2>5 DEF RowsTrue
  <2>7. ModemShows(sim', fresh', chip')
    BY <1>1, <2>1 DEF ModemShows, Enabled
  <2> QED BY <1>4, <2>1, <2>6, <2>7 DEF ListInv
<1> QED BY <1>5, <1>6

(* What is read of the rows is of the card while they are.                  *)
LEMMA ListReadsRows == ASSUME ListInv, SimInv', NEW v \in Viewers, ReadRows(v) PROVE ListInv'
<1> DEFINE w == viewer[v]
           read == [p \in Profiles |-> IF lastEuicc \in {NoCard, entries[p].eid} THEN entries[p]
                                                                                 ELSE Absent]
           new == [w EXCEPT !.step = "store", !.read = read, !.old = FALSE]
<1>1. /\ w.op = "cached" /\ w \in ViewerType
      /\ UNCHANGED <<chip, sim, entries, fresh>>
      /\ Leaves(v) \/ viewer' = [viewer EXCEPT ![v] = new]
  BY ListIs, SimIs DEF ReadRows, Doing
<1>2. \A p \in Profiles : read[p] \in {entries[p], Absent}
  OBVIOUS
<1>3. \A p \in fresh : read[p] # Absent => RowTrue(p, read[p], chip)
  BY <1>2, ListIs DEF RowsTrue
<1> HIDE DEF read
<1>4. new.op = "cached" /\ new.read = read /\ new.step = "store"
  BY <1>1 DEF ViewerType
<1> HIDE DEF new
<1>5. ReadsTrue(new, fresh, chip)
  BY <1>3, <1>4 DEF ReadsTrue
<1>6. CASE Leaves(v)
  BY <1>1, <1>6, ListLeaves
<1>7. CASE viewer' = [viewer EXCEPT ![v] = new]
  BY <1>1, <1>5, <1>7, ListIs, ListGoes DEF RowsTrue
<1> QED BY <1>1, <1>6, <1>7

LEMMA ListStoresRows == ASSUME ListInv, SimInv', NEW v \in Viewers, StoreRows(v) PROVE ListInv'
<1> DEFINE w == viewer[v]
<1>1. /\ w.op = "cached" /\ w.step = "store" /\ w.read \in [Profiles -> EntryType]
      /\ UNCHANGED <<chip, sim>> /\ Leaves(v)
  BY ListIs, SimIs DEF StoreRows, Doing
<1>2. CASE UNCHANGED <<entries, fresh>>
  BY <1>1, <1>2, ListLeaves
<1>3. ASSUME NEW T \in Enriched(w.read, sim), entries' = Upserted(T), PutsBack(v, Present(w.read))
      PROVE  ListInv'
  <2>1. /\ T \in [Profiles -> EntryType]
        /\ \A q \in Profiles : /\ T[q] # Absent <=> w.read[q] # Absent
                               /\ /\ w.read[q] # Absent /\ RowTrue(q, w.read[q], chip)
                                  /\ q = sim => sim = Enabled \/ ~InCard(sim, chip)
                                  => RowTrue(q, T[q], chip)
    BY <1>1, ListIs, SimIs, EnrichedTrue
  <2>2. fresh' \subseteq fresh /\ (w.old => \A q \in fresh' : w.read[q] = Absent)
    BY <1>3, ListIs DEF PutsBack, Present
  <2>3. ASSUME NEW p \in fresh' PROVE RowTrue(p, entries'[p], chip)
    <3>1. p \in fresh /\ p \in Profiles /\ RowTrue(p, entries[p], chip)
      BY <2>2, ListIs DEF RowsTrue
    <3>2. p = sim => sim = Enabled \/ ~InCard(sim, chip)
      BY <3>1, ListIs DEF ModemShows, Enabled
    <3>3. w.read[p] # Absent => RowTrue(p, w.read[p], chip)
      BY <1>1, <2>2, <3>1, ListIs DEF ReadsTrue
    <3>4. T[p] # Absent => RowTrue(p, T[p], chip)
      BY <2>1, <3>1, <3>2, <3>3
    <3> QED BY <1>3, <2>1, <3>1, <3>4, ListIs, UpsertedTrue
  <2> QED BY <1>1, <2>2, <2>3, ListWrites
<1>4. \/ UNCHANGED <<entries, fresh>>
      \/ \E T \in Enriched(w.read, sim) : entries' = Upserted(T) /\ PutsBack(v, Present(w.read))
  BY DEF StoreRows
<1> QED BY <1>2, <1>3, <1>4

LEMMA ListGetsRow == ASSUME ListInv, SimInv', NEW v \in Viewers, GetRow(v) PROVE ListInv'
<1> DEFINE w == viewer[v]
           p == w.of
           rec == [entries[p] EXCEPT !.name = "renamed"]
           read == [Nothing EXCEPT ![p] = rec]
           new == [w EXCEPT !.step = "put", !.old = FALSE, !.read = read]
<1>1. /\ w.op = "rename" /\ w.step = "get" /\ w \in ViewerType
      /\ TaskOK(w, sim, doubt, chip.inserted)
      /\ UNCHANGED <<chip, sim, entries, fresh>>
      /\ IF entries[p] = Absent THEN Leaves(v) ELSE viewer' = [viewer EXCEPT ![v] = new]
  BY ListIs, SimIs DEF GetRow, Doing
<1>2. CASE entries[p] = Absent
  BY <1>1, <1>2, ListLeaves
<1>3. CASE entries[p] # Absent
  <2>1. p \in Profiles /\ entries[p] \in RecordType /\ chip.name[p] = "renamed"
    BY <1>1, <1>3, ListIs, SimIs, RecordsAre DEF TaskOK, ReadsTrue
  <2>2. rec.eid = entries[p].eid /\ rec.name = "renamed" /\ rec.state = entries[p].state
    BY <2>1 DEF RecordType
  <2> HIDE DEF rec
  <2>3. p \in fresh => RowTrue(p, rec, chip)
    BY <2>1, <2>2, ListIs DEF RowsTrue, RowTrue
  <2>4. read[p] = rec /\ \A q \in Profiles : q # p => read[q] = Absent
    BY <2>1, SimConstants
  <2>5. \A q \in fresh : read[q] # Absent => RowTrue(q, read[q], chip)
    BY <2>3, <2>4, ListIs
  <2> HIDE DEF read
  <2>6. new.op = "rename" /\ new.read = read /\ new.step = "put"
    BY <1>1 DEF ViewerType
  <2>7. viewer' = [viewer EXCEPT ![v] = new]
    BY <1>1, <1>3
  <2> HIDE DEF new
  <2>8. ReadsTrue(new, fresh, chip)
    BY <2>5, <2>6 DEF ReadsTrue
  <2> QED BY <1>1, <2>7, <2>8, ListIs, ListGoes DEF RowsTrue
<1> QED BY <1>2, <1>3

LEMMA ListPutsRow == ASSUME ListInv, SimInv', NEW v \in Viewers, PutRow(v) PROVE ListInv'
<1> DEFINE w == viewer[v]
<1>1. /\ w.op = "rename" /\ w.step = "put" /\ w.read \in [Profiles -> EntryType]
      /\ UNCHANGED <<chip, sim>> /\ Leaves(v) /\ entries' = Upserted(w.read)
      /\ PutsBack(v, Present(w.read))
  BY ListIs, SimIs DEF PutRow, Doing
<1>2. fresh' \subseteq fresh /\ (w.old => \A q \in fresh' : w.read[q] = Absent)
  BY <1>1, ListIs DEF PutsBack, Present
<1>3. ASSUME NEW p \in fresh' PROVE RowTrue(p, entries'[p], chip)
  <2>1. p \in fresh /\ p \in Profiles /\ RowTrue(p, entries[p], chip)
    BY <1>2, <1>3, ListIs DEF RowsTrue
  <2>2. w.read[p] # Absent => RowTrue(p, w.read[p], chip)
    BY <1>1, <1>2, <1>3, <2>1, ListIs DEF ReadsTrue
  <2> HIDE DEF w
  <2> QED BY <1>1, <2>1, <2>2, ListIs, UpsertedTrue
<1> QED BY <1>1, <1>2, <1>3, ListWrites

(* A row that is deleted is that of a profile that is not on the card, or   *)
(* something crossed.                                                       *)
LEMMA ListDeletes == ASSUME ListInv, SimInv', NEW v \in Viewers, DeleteRow(v) PROVE ListInv'
<1> DEFINE w == viewer[v]
<1>1. /\ w.op = "delete" /\ w.step = "row" /\ w.of \in Profiles
      /\ UNCHANGED <<chip, sim>> /\ viewer' = Outdated([viewer EXCEPT ![v] = Viewing])
      /\ entries' = [entries EXCEPT ![w.of] = Absent]
      /\ fresh' = IF w.old THEN fresh \ {w.of} ELSE fresh \cup {w.of}
  BY ListIs, SimIs DEF DeleteRow, Doing, TaskOK
<1>2. /\ chip.inserted \in Cards /\ ReadsTrue(w, fresh, chip)
      /\ \A p \in Profiles : entries'[p] = IF p = w.of THEN Absent ELSE entries[p]
  BY <1>1, ListIs, SimIs
<1> HIDE DEF w
<1>3. w.of \in fresh' => ~InCard(w.of, chip)
  BY <1>1, <1>2 DEF ReadsTrue
<1>4. \A u \in Viewers : ReadsTrue(viewer'[u], fresh', chip')
  BY <1>1, AllOld
<1>5. RowsTrue'
  <2> SUFFICES ASSUME NEW p \in fresh' PROVE RowTrue(p, entries'[p], chip)
    BY <1>1 DEF RowsTrue
  <2>1. CASE p = w.of
    BY <1>1, <1>2, <1>3, <2>1, SimConstants, SimAssumption DEF RowTrue
  <2>2. CASE p # w.of
    <3>1. p \in fresh /\ p \in Profiles /\ RowTrue(p, entries[p], chip)
      BY <1>1, <2>2, ListIs DEF RowsTrue
    <3> QED BY <1>2, <2>2, <3>1
  <2> QED BY <2>1, <2>2
<1>6. ModemShows(sim', fresh', chip')
  BY <1>1, <1>3, ListIs DEF ModemShows
<1>7. fresh' \subseteq Profiles
  BY <1>1, ListIs
<1> QED BY <1>4, <1>5, <1>6, <1>7 DEF ListInv

(* The row of a profile that was downloaded is not that of a listing.       *)
LEMMA ListDownloads == ASSUME ListInv, SimInv', NEW v \in Viewers, CacheDownload(v) PROVE ListInv'
<1> DEFINE p == viewer[v].of
           rec == [eid |-> lastEuicc, name |-> "given", state |-> "disabled", number |-> "none"]
           T == [Nothing EXCEPT ![p] = rec]
<1>1. /\ UNCHANGED <<chip, sim>> /\ Leaves(v) /\ fresh' = fresh \ {p}
      /\ entries' = Upserted(T)
  BY DEF CacheDownload
<1> HIDE DEF rec
<1>2. \A q \in Profiles : q # p => T[q] = Absent
  BY SimConstants DEF Nothing
<1> HIDE DEF T
<1>3. \A q \in Profiles : q # p => entries'[q] = entries[q]
  BY <1>1, <1>2 DEF Upserted
<1>4. \A q \in fresh' : RowTrue(q, entries'[q], chip)
  BY <1>1, <1>3, ListIs DEF RowsTrue
<1> QED BY <1>1, <1>4, ListWrites

(* The card is changed.                                                     *)
LEMMA ListCardChanges ==
  ASSUME ListInv, SimInv', NEW v \in Viewers,
         RenameOnCard(v) \/ DeleteOnCard(v) \/ EnableOnCard(v) \/ DownloadToCard(v)
  PROVE  ListInv'
<1> DEFINE w == viewer[v]
<1>1. /\ w \in ViewerType /\ TaskOK(w, sim, doubt, chip.inserted) /\ chip \in ChipType
      /\ chip.name \in [Profiles -> {"given", "renamed"}] /\ chip.inserted \in Cards
      /\ chip.enabled \in [Cards -> Profiles \cup {NoProfile}]
  BY ListIs, SimIs DEF ChipType
<1>2. CASE RenameOnCard(v)
  <2> DEFINE new == [w EXCEPT !.step = "get"]
  <2>1. /\ w.op = "rename" /\ w.of \in Profiles /\ UNCHANGED <<sim, entries>>
        /\ chip' = [chip EXCEPT !.name[w.of] = "renamed"] /\ ChangesCard(v, new, {w.of})
    BY <1>1, <1>2 DEF RenameOnCard, Doing, TaskOK
  <2>2. new \in ViewerType /\ new.op = w.op /\ new.of = w.of /\ new.step = "get"
    BY <1>1 DEF ViewerType
  <2>3. /\ chip'.name = [chip.name EXCEPT ![w.of] = "renamed"]
        /\ chip'.inserted = chip.inserted /\ chip'.installed = chip.installed
        /\ chip'.enabled = chip.enabled
    BY <1>1, <2>1 DEF ChipType
  <2> HIDE DEF w, new
  <2>4. /\ chip'.name[w.of] = "renamed"
        /\ \A p : chip.name[p] = "renamed" => chip'.name[p] = "renamed"
        /\ \A p \in Profiles \ {w.of} : chip'.name[p] = chip.name[p]
    BY <1>1, <2>1, <2>3
  <2>5. \A p \in Profiles \ {w.of} : Alike(p, chip, chip')
    BY <2>3, <2>4 DEF Alike, InCard
  <2> QED BY <2>1, <2>2, <2>3, <2>4, <2>5, ListChanges
<1>3. CASE DeleteOnCard(v)
  <2> DEFINE new == [w EXCEPT !.step = "row"]
  <2>1. /\ chip' = [chip EXCEPT !.installed = @ \ {w.of}] /\ ChangesCard(v, new, {w.of})
        /\ UNCHANGED <<sim, entries>>
    BY <1>3 DEF DeleteOnCard
  <2>2. new \in ViewerType /\ new.of = w.of /\ new.step = "row"
    BY <1>1 DEF ViewerType
  <2>3. /\ chip'.name = chip.name /\ chip'.inserted = chip.inserted
        /\ chip'.enabled = chip.enabled /\ chip'.installed = chip.installed \ {w.of}
    BY <1>1, <2>1 DEF ChipType
  <2> HIDE DEF w, new
  <2>4. /\ ~InCard(w.of, chip')
        /\ \A p \in Profiles \ {w.of} : Alike(p, chip, chip')
    BY <2>3 DEF Alike, InCard
  <2> QED BY <2>1, <2>2, <2>3, <2>4, ListChanges
<1>4. CASE EnableOnCard(v)
  <2> DEFINE new == [Viewing EXCEPT !.op = "refresh", !.step = "spawn", !.force = TRUE]
  <2>1. /\ chip' = [chip EXCEPT !.enabled[chip.inserted] = w.of]
        /\ ChangesCard(v, new, {w.of, Enabled}) /\ UNCHANGED <<sim, entries>>
    BY <1>4 DEF EnableOnCard
  <2>2. new \in ViewerType /\ new.step = "spawn"
    BY SimConstants DEF ViewerType, TaskOps
  <2>3. /\ chip'.name = chip.name /\ chip'.inserted = chip.inserted
        /\ chip'.installed = chip.installed
        /\ chip'.enabled = [chip.enabled EXCEPT ![chip.inserted] = w.of]
    BY <1>1, <2>1 DEF ChipType
  <2> HIDE DEF w, new
  <2>4. chip'.enabled[chip'.inserted] = w.of
    BY <1>1, <2>3
  <2>5. \A p \in Profiles \ {w.of, Enabled} : Alike(p, chip, chip')
    BY <2>3, <2>4 DEF Alike, InCard, Enabled
  <2> QED BY <2>1, <2>2, <2>3, <2>5, ListChanges
<1>5. CASE DownloadToCard(v)
  <2> DEFINE new == [w EXCEPT !.step = "row"]
  <2>1. /\ chip' = [chip EXCEPT !.installed = @ \cup {w.of}] /\ ChangesCard(v, new, {w.of})
        /\ UNCHANGED <<sim, entries>> /\ w.op = "download"
    BY <1>5 DEF DownloadToCard, Doing
  <2>2. new \in ViewerType /\ new.op = w.op /\ new.step = "row"
    BY <1>1 DEF ViewerType
  <2>3. /\ chip'.name = chip.name /\ chip'.inserted = chip.inserted
        /\ chip'.enabled = chip.enabled /\ chip'.installed = chip.installed \cup {w.of}
    BY <1>1, <2>1 DEF ChipType
  <2> HIDE DEF w, new
  <2>4. \A p \in Profiles \ {w.of} : Alike(p, chip, chip')
    BY <2>3 DEF Alike, InCard
  <2> QED BY <2>1, <2>2, <2>3, <2>4, ListChanges
<1> QED BY <1>2, <1>3, <1>4, <1>5

LEMMA ListOthers ==
  ASSUME ListInv, SimInv', Swap \/ Registers \/ SaveManual \/ CenterOfSms
  PROVE  ListInv'
<1>1. CASE Swap
  <2>1. /\ viewer' = Outdated(viewer) /\ fresh' = {} /\ chip'.name = chip.name
        /\ viewer \in [Viewers -> ViewerType]
    BY <1>1, ListIs, SimIs DEF Swap, ChipType
  <2>2. ASSUME NEW u \in Viewers PROVE ReadsTrue(viewer'[u], fresh', chip')
    <3>1. viewer'[u] = Out(viewer[u]) /\ viewer[u] \in ViewerType
      BY <2>1 DEF Outdated, Out
    <3>2. viewer[u].op = "rename" /\ viewer[u].step = "get" =>
            chip'.name[viewer[u].of] = "renamed"
      BY <2>1, ListIs DEF ReadsTrue
    <3> QED BY <3>1, <3>2, OldReads
  <2> QED BY <2>1, <2>2 DEF ListInv, RowsTrue, ModemShows
<1>2. CASE Registers
  <2>1. sim' = chip.enabled[chip.inserted] /\ UNCHANGED <<chip, entries, viewer, fresh>>
    BY <1>2 DEF Registers, Enabled
  <2> QED BY <2>1 DEF ListInv, RowsTrue, ModemShows
<1>3. CASE SaveManual \/ CenterOfSms
  BY <1>3, ListStays DEF SaveManual, CenterOfSms
<1> QED BY <1>1, <1>2, <1>3

LEMMA ListStops == ASSUME ListInv, SimInv', StopProcess PROVE ListInv'
<1>1. /\ viewer' = [v \in Viewers |-> Viewing] /\ UNCHANGED <<chip, sim, fresh>>
      /\ \A p \in Profiles : entries[p].eid # NoCard => entries'[p] = entries[p]
  BY DEF StopProcess
<1>2. RowsTrue'
  BY <1>1, ListIs DEF RowsTrue, RowTrue
<1>3. \A u \in Viewers : ReadsTrue(viewer'[u], fresh', chip')
  BY <1>1, ViewingReads
<1> QED BY <1>1, <1>2, <1>3, ListIs DEF ListInv, ModemShows

LEMMA ListInvStep == ASSUME ListInv, [SimNext]_simRecords PROVE ListInv'
<1>0. SimInv'
  BY ListIs, SimInvStep
<1>1. CASE UNCHANGED simRecords
  BY <1>0, <1>1, ListStays DEF simRecords
<1>2. CASE Swap \/ Registers \/ SaveManual \/ CenterOfSms \/ StopProcess
  BY <1>0, <1>2, ListOthers, ListStops
<1>3. ASSUME NEW v \in Viewers, ViewStep(v) PROVE ListInv'
  BY <1>0, <1>3, ListAsks, ListAbandons, ListDetails, ListReadsEuicc, ListReadsProfiles,
     ListStores, ListReadsRows, ListStoresRows, ListGetsRow, ListPutsRow, ListDeletes,
     ListDownloads, ListCardChanges
  DEF ViewStep
<1> QED BY <1>1, <1>2, <1>3 DEF SimNext

LEMMA ListInvAlways == RemoteSpec => []ListInv
<1>1. RemoteInit => ListInv
  <2> SUFFICES ASSUME RemoteInit PROVE ListInv
    OBVIOUS
  <2>1. SimInv
    BY SimInvAtInit DEF RemoteInit
  <2>2. /\ viewer = [v \in Viewers |-> Viewing] /\ sim = Enabled
        /\ \/ fresh = {}
           \/ /\ fresh = Profiles
              /\ entries = [p \in Profiles |-> IF p \in OnCard(chip.inserted)
                              THEN Profile(p, chip.inserted, "none") ELSE Absent]
    BY DEF RemoteInit, SimInit
  <2>3. RowsTrue
    <3> SUFFICES ASSUME NEW p \in Profiles,
                        entries[p] = IF p \in OnCard(chip.inserted)
                                     THEN Profile(p, chip.inserted, "none") ELSE Absent
                 PROVE  RowTrue(p, entries[p], chip)
      BY <2>2 DEF RowsTrue
    <3>1. chip.inserted \in Cards /\ (p \in OnCard(chip.inserted) <=> InCard(p, chip))
      BY <2>1, SimIs DEF OnCard, InCard
    <3>2. CASE p \in OnCard(chip.inserted)
      BY <3>1, <3>2, SimAssumption DEF Profile, RowTrue, Enabled
    <3>3. CASE p \notin OnCard(chip.inserted)
      BY <3>1, <3>3, SimConstants, SimAssumption DEF RowTrue
    <3> QED BY <3>2, <3>3
  <2> QED BY <2>1, <2>2, <2>3, ViewingReads DEF ListInv, ModemShows, Enabled
<1>2. ListInv /\ [RemoteNext]_<<area, vars, hubLife, ddns, simCard, callLog, simRecords,
                                routing, cellScan>> => ListInv'
  BY ListInvStep DEF RemoteNext, simRecords
<1> QED BY <1>1, <1>2, PTL DEF RemoteSpec

(* ListingTrue: after a live listing that nothing crossed each row is that  *)
(* of the card, with its name and state, but for the rows named there: of a *)
(* profile that was changed since, and those that a cached listing or a     *)
(* rename writes which had read them earlier.  (get_esim_profiles_handler)  *)
THEOREM ListingsTellTheCard == RemoteSpec => []ListingTrue
<1>1. ListInv => ListingTrue
  BY DEF ListInv, ListingTrue, RowsTrue, RowTrue, InCard, OnCard, Enabled
<1> QED BY <1>1, ListInvAlways, PTL

(* The rest of SimTypeOK: one background refresh at a time, and the enabled *)
(* profile of a card is on it.                                              *)
Refreshes(w) == w.op = "refresh" /\ w.step # "spawn"

RefreshInv ==
  /\ refreshing \in BOOLEAN
  /\ refreshing <=> \E v \in Viewers : Refreshes(viewer[v])
  /\ \A u, v \in Viewers : Refreshes(viewer[u]) /\ Refreshes(viewer[v]) => u = v

EnabledInv ==
  \A c \in Cards : chip.enabled[c] # NoProfile =>
    chip.enabled[c] \in chip.installed /\ Home[chip.enabled[c]] = c

SimCounts == views \in 0..MaxViews /\ swaps \in 0..MaxSwaps

LEMMA RefreshKept ==
  ASSUME RefreshInv, UNCHANGED refreshing,
         \A u \in Viewers : Refreshes(viewer'[u]) <=> Refreshes(viewer[u])
  PROVE  RefreshInv'
BY DEF RefreshInv

(* A task that does not refresh goes on with something else.                *)
LEMMA RefreshGoes ==
  ASSUME SimInv, RefreshInv, UNCHANGED refreshing, NEW v \in Viewers, NEW new,
         viewer' = [viewer EXCEPT ![v] = new], ~Refreshes(viewer[v]), ~Refreshes(new)
  PROVE  RefreshInv'
<1>1. \A u \in Viewers : viewer'[u] = IF u = v THEN new ELSE viewer[u]
  BY SimIs
<1> QED BY <1>1, RefreshKept

LEMMA RefreshLeaves ==
  ASSUME SimInv, RefreshInv, UNCHANGED refreshing, NEW v \in Viewers, Leaves(v),
         ~Refreshes(viewer[v])
  PROVE  RefreshInv'
<1>1. viewer' = [viewer EXCEPT ![v] = Viewing] /\ ~Refreshes(Viewing)
  BY SimConstants DEF Leaves, Refreshes
<1> QED BY <1>1, RefreshGoes

LEMMA RefreshOutdated ==
  ASSUME SimInv, RefreshInv, UNCHANGED refreshing, NEW V \in [Viewers -> ViewerType],
         viewer' = Outdated(V),
         \A u \in Viewers : Refreshes(V[u]) <=> Refreshes(viewer[u])
  PROVE  RefreshInv'
<1>1. ASSUME NEW u \in Viewers PROVE Refreshes(viewer'[u]) <=> Refreshes(viewer[u])
  <2>1. viewer'[u] = Out(V[u]) /\ V[u] \in ViewerType
    BY DEF Outdated, Out
  <2> QED BY <2>1, OutIs DEF Refreshes
<1> QED BY <1>1, RefreshKept

LEMMA RefreshStarts ==
  ASSUME SimInv, RefreshInv, NEW v \in Viewers, StartRefresh(v)
  PROVE  RefreshInv'
<1>1. ~Refreshes(viewer[v]) /\ viewer[v].op = "refresh"
  BY DEF StartRefresh, Doing, Refreshes
<1>2. CASE refreshing \/ sim = NoProfile
  BY <1>1, <1>2, RefreshLeaves DEF StartRefresh
<1>3. CASE ~(refreshing \/ sim = NoProfile)
  <2> DEFINE wants == viewer[v].force \/ details["number"][sim] = "unread"
             new == [viewer[v] EXCEPT !.step = "number", !.of = sim, !.wants = wants]
  <2>1. viewer' = [viewer EXCEPT ![v] = new] /\ refreshing' = TRUE
    BY <1>3, SimIs DEF StartRefresh
  <2> HIDE DEF wants
  <2>2. Refreshes(new)
    BY <1>1, SimIs DEF ViewerType, Refreshes
  <2> HIDE DEF new
  <2>3. \A u \in Viewers : viewer'[u] = IF u = v THEN new ELSE viewer[u]
    BY <2>1, SimIs
  <2>4. \A u \in Viewers : ~Refreshes(viewer[u])
    BY <1>3 DEF RefreshInv
  <2> QED BY <2>1, <2>2, <2>3, <2>4 DEF RefreshInv
<1> QED BY <1>2, <1>3

LEMMA RefreshEnds ==
  ASSUME SimInv, RefreshInv, NEW v \in Viewers, FetchCenter(v)
  PROVE  RefreshInv'
<1>1. Refreshes(viewer[v]) /\ refreshing' = FALSE /\ viewer' = [viewer EXCEPT ![v] = Viewing]
  BY DEF FetchCenter, Doing, Refreshes, Leaves
<1>2. \A u \in Viewers : viewer'[u] = IF u = v THEN Viewing ELSE viewer[u]
  BY <1>1, SimIs
<1>3. \A u \in Viewers : ~Refreshes(viewer'[u])
  BY <1>1, <1>2, SimConstants DEF RefreshInv, Refreshes
<1> QED BY <1>1, <1>3 DEF RefreshInv

LEMMA RefreshGoesOn ==
  ASSUME SimInv, RefreshInv, NEW v \in Viewers, FetchNumber(v)
  PROVE  RefreshInv'
<1> DEFINE wants == viewer[v].force \/ details["smsc"][viewer[v].of] = "unread"
           new == [viewer[v] EXCEPT !.step = "smsc", !.wants = wants]
<1>1. /\ viewer' = [viewer EXCEPT ![v] = new] /\ UNCHANGED refreshing
      /\ Refreshes(viewer[v]) /\ viewer[v].op = "refresh"
  BY SimIs DEF FetchNumber, Doing, Refreshes
<1> HIDE DEF wants
<1>2. Refreshes(new)
  BY <1>1, SimIs DEF ViewerType, Refreshes
<1> HIDE DEF new
<1>3. \A u \in Viewers : viewer'[u] = IF u = v THEN new ELSE viewer[u]
  BY <1>1, SimIs
<1> QED BY <1>1, <1>2, <1>3, RefreshKept

(* Steps of tasks that are no refresh.                                      *)
LEMMA RefreshOthers ==
  ASSUME SimInv, RefreshInv, NEW v \in Viewers, UNCHANGED refreshing,
         \/ AskInfo(v) \/ ReadInfo(v) \/ ReadEuicc(v) \/ ShowEuicc(v) \/ ReadProfiles(v)
         \/ ReadRows(v) \/ StoreRows(v) \/ GetRow(v) \/ PutRow(v)
         \/ CacheDownload(v) \/ Abandons(v) \/ AsksFor(v)
  PROVE  RefreshInv'
<1>1. viewer[v].op # "refresh"
  BY SimConstants DEF AskInfo, ReadInfo, ReadEuicc, ShowEuicc, ReadProfiles, ReadRows, StoreRows,
     GetRow, PutRow, CacheDownload, Abandons, AsksFor, Doing
<1>2. viewer'[v].op # "refresh" \/ viewer'[v].step = "spawn"
  <2>1. viewer \in [Viewers -> ViewerType] /\ viewer[v] \in ViewerType
    BY SimIs
  <2>2. CASE AskInfo(v)
    BY <1>1, <2>1, <2>2, SimConstants DEF AskInfo, Leaves, ViewerType
  <2>3. CASE ReadInfo(v)
    <3> DEFINE new == [Viewing EXCEPT !.op = "refresh", !.step = "spawn"]
    <3>1. viewer'[v] = new \/ viewer'[v] = Viewing
      BY <2>1, <2>3 DEF ReadInfo, Leaves
    <3>2. new.step = "spawn"
      BY SimConstants DEF ViewerType
    <3> HIDE DEF new
    <3> QED BY <3>1, <3>2, SimConstants
  <2>4. CASE ReadEuicc(v)
    BY <1>1, <2>1, <2>4 DEF ReadEuicc, ViewerType
  <2>5. CASE ShowEuicc(v) \/ StoreRows(v) \/ PutRow(v) \/ CacheDownload(v)
    BY <2>1, <2>5, SimConstants DEF ShowEuicc, StoreRows, PutRow, CacheDownload, Leaves
  <2>6. CASE ReadProfiles(v)
    <3>1. PICK read : viewer' = [viewer EXCEPT ![v].step = "store", ![v].read = read]
      BY <2>6 DEF ReadProfiles
    <3> QED BY <1>1, <2>1, <3>1 DEF ViewerType
  <2>7. CASE ReadRows(v)
    <3>1. \/ viewer' = [viewer EXCEPT ![v] = Viewing]
          \/ \E read : viewer' = [viewer EXCEPT ![v].step = "store", ![v].read = read,
                                                ![v].old = FALSE]
      BY <2>7 DEF ReadRows, Leaves
    <3>2. CASE viewer' = [viewer EXCEPT ![v] = Viewing]
      BY <2>1, <3>2, SimConstants
    <3>3. ASSUME NEW read, viewer' = [viewer EXCEPT ![v].step = "store", ![v].read = read,
                                                    ![v].old = FALSE]
          PROVE  viewer'[v].op # "refresh"
      BY <1>1, <2>1, <3>3 DEF ViewerType
    <3> QED BY <3>1, <3>2, <3>3
  <2>8. CASE GetRow(v)
    <3>1. \/ viewer' = [viewer EXCEPT ![v] = Viewing]
          \/ \E read : viewer' = [viewer EXCEPT ![v].step = "put", ![v].old = FALSE,
                                                ![v].read = read]
      BY <2>8 DEF GetRow, Leaves
    <3> QED BY <1>1, <2>1, <3>1, SimConstants DEF ViewerType
  <2>9. CASE Abandons(v)
    <3> DEFINE new == [Viewing EXCEPT !.op = "refresh", !.step = "spawn", !.force = TRUE,
                                      !.old = TRUE]
    <3>1. viewer'[v] = new \/ viewer'[v] = Viewing
      BY <2>1, <2>9 DEF Abandons, Leaves
    <3>2. new.step = "spawn"
      BY SimConstants DEF ViewerType
    <3> HIDE DEF new
    <3> QED BY <3>1, <3>2, SimConstants
  <2>10. CASE AsksFor(v)
    <3>1. PICK op \in {"live", "cached", "euicc", "rename", "delete", "enable", "download",
                       "info", "refresh"}, p \in Profiles \cup {NoProfile} :
       /\ p \in IF op \in {"rename", "delete", "enable"} THEN OnCard(chip.inserted)
               ELSE IF op = "download" THEN Profiles \ chip.installed ELSE {NoProfile}
       /\ viewer' = [viewer EXCEPT ![v] =
            [Viewing EXCEPT !.op = op, !.of = p, !.force = op = "refresh",
                            !.step = IF op = "refresh" THEN "spawn" ELSE "start"]]
      BY <2>10 DEF AsksFor
    <3> DEFINE force == op = "refresh"
               new == [Viewing EXCEPT !.op = op, !.of = p, !.force = force,
                                      !.step = IF op = "refresh" THEN "spawn" ELSE "start"]
    <3>2. viewer'[v] = new
      BY <2>1, <3>1
    <3> HIDE DEF force
    <3> QED BY <3>2, SimConstants DEF ViewerType
  <2> QED BY <2>2, <2>3, <2>4, <2>5, <2>6, <2>7, <2>8, <2>9, <2>10
<1>3. \A u \in Viewers \ {v} : viewer'[u] = viewer[u]
  BY SimIs DEF AskInfo, ReadInfo, ReadEuicc, ShowEuicc, ReadProfiles, ReadRows, StoreRows,
     GetRow, PutRow, CacheDownload, Abandons, AsksFor, Leaves
<1> QED BY <1>1, <1>2, <1>3, RefreshKept DEF Refreshes

LEMMA RefreshInvStep ==
  ASSUME SimInv, RefreshInv, SimNext
  PROVE  RefreshInv'
<1>1. CASE Swap \/ Registers
  <2>1. /\ viewer \in [Viewers -> ViewerType] /\ UNCHANGED refreshing
        /\ viewer' = Outdated(viewer) \/ viewer' = viewer
    BY <1>1, SimIs DEF Swap, Registers
  <2> QED BY <2>1, RefreshOutdated, RefreshKept
<1>2. CASE SaveManual \/ CenterOfSms
  BY <1>2 DEF SaveManual, CenterOfSms, RefreshInv
<1>3. CASE StopProcess
  BY <1>3, SimConstants DEF StopProcess, RefreshInv, Refreshes
<1>4. ASSUME NEW v \in Viewers, ViewStep(v) PROVE RefreshInv'
  <2>1. CASE StartRefresh(v) \/ FetchNumber(v) \/ FetchCenter(v)
    BY <2>1, RefreshStarts, RefreshGoesOn, RefreshEnds
  <2>2. CASE \/ AskInfo(v) \/ ReadInfo(v) \/ ReadEuicc(v) \/ ShowEuicc(v) \/ ReadProfiles(v)
             \/ ReadRows(v) \/ StoreRows(v) \/ GetRow(v) \/ PutRow(v)
             \/ CacheDownload(v) \/ Abandons(v) \/ AsksFor(v)
    <3>1. UNCHANGED refreshing
      BY <2>2 DEF AskInfo, ReadInfo, ReadEuicc, ShowEuicc, ReadProfiles, ReadRows, StoreRows,
         GetRow, PutRow, CacheDownload, Abandons, AsksFor
    <3> QED BY <2>2, <3>1, RefreshOthers
  <2>3. CASE StoreListing(v) \/ DeleteRow(v)
    <3> DEFINE V == [viewer EXCEPT ![v] = Viewing]
    <3>1. /\ V \in [Viewers -> ViewerType] /\ UNCHANGED refreshing /\ viewer' = Outdated(V)
          /\ \A u \in Viewers : V[u] = IF u = v THEN Viewing ELSE viewer[u]
      BY <2>3, SimIs, SimConstants DEF StoreListing, DeleteRow
    <3>2. ~Refreshes(viewer[v]) /\ ~Refreshes(Viewing)
      BY <2>3, SimConstants DEF StoreListing, DeleteRow, Doing, Refreshes
    <3> HIDE DEF V
    <3>3. \A u \in Viewers : Refreshes(V[u]) <=> Refreshes(viewer[u])
      BY <3>1, <3>2
    <3> QED BY <3>1, <3>3, RefreshOutdated
  <2>4. ASSUME NEW then \in ViewerType, NEW changed, ChangesCard(v, then, changed),
               UNCHANGED refreshing, ~Refreshes(viewer[v]), ~Refreshes(then)
        PROVE  RefreshInv'
    <3>1. /\ \A u \in Viewers : u # v => viewer'[u] = Out(viewer[u])
          /\ viewer'[v].op = then.op /\ viewer'[v].step = then.step
      BY <2>4, SimIs, ChangedIs
    <3>2. ASSUME NEW u \in Viewers PROVE Refreshes(viewer'[u]) <=> Refreshes(viewer[u])
      BY <2>4, <3>1, SimIs, OutIs DEF Refreshes
    <3> QED BY <2>4, <3>2, RefreshKept
  <2>5. CASE RenameOnCard(v) \/ DeleteOnCard(v) \/ DownloadToCard(v)
    <3>1. /\ viewer[v].op # "refresh" /\ UNCHANGED refreshing
          /\ \E step \in {"get", "row"} :
               ChangesCard(v, [viewer[v] EXCEPT !.step = step], {viewer[v].of})
      BY <2>5 DEF RenameOnCard, DeleteOnCard, DownloadToCard, Doing
    <3>2. PICK step \in {"get", "row"} :
            ChangesCard(v, [viewer[v] EXCEPT !.step = step], {viewer[v].of})
      BY <3>1
    <3> DEFINE new == [viewer[v] EXCEPT !.step = step]
    <3>3. new \in ViewerType /\ ~Refreshes(new) /\ ~Refreshes(viewer[v])
      BY <3>1, SimIs DEF ViewerType, Refreshes
    <3> HIDE DEF new
    <3>4. ChangesCard(v, new, {viewer[v].of})
      BY <3>2 DEF new
    <3> QED BY <2>4, <3>1, <3>3, <3>4
  <2>6. CASE EnableOnCard(v)
    <3> DEFINE new == [Viewing EXCEPT !.op = "refresh", !.step = "spawn", !.force = TRUE]
    <3>1. /\ ~Refreshes(viewer[v]) /\ UNCHANGED refreshing
          /\ ChangesCard(v, new, {viewer[v].of, Enabled})
      BY <2>6 DEF EnableOnCard, Doing, Refreshes
    <3>2. new \in ViewerType /\ ~Refreshes(new)
      BY SimConstants DEF ViewerType, TaskOps, Refreshes
    <3> HIDE DEF new
    <3> QED BY <2>4, <3>1, <3>2
  <2> QED BY <1>4, <2>1, <2>2, <2>3, <2>5, <2>6 DEF ViewStep
<1> QED BY <1>1, <1>2, <1>3, <1>4 DEF SimNext

(* A profile that is enabled on a card is not deleted from it.              *)
LEMMA EnabledInvStep ==
  ASSUME SimInv, EnabledInv, SimNext
  PROVE  EnabledInv'
<1>0. chip \in ChipType
  BY SimIs
<1>1. CASE UNCHANGED chip
  BY <1>1 DEF EnabledInv
<1>2. CASE Swap
  <2>1. chip'.enabled = chip.enabled /\ chip'.installed = chip.installed
    BY <1>0, <1>2 DEF Swap, ChipType
  <2> QED BY <2>1 DEF EnabledInv
<1>3. ASSUME NEW v \in Viewers, RenameOnCard(v) \/ DownloadToCard(v) PROVE EnabledInv'
  <2>1. chip'.enabled = chip.enabled /\ chip.installed \subseteq chip'.installed
    BY <1>0, <1>3 DEF RenameOnCard, DownloadToCard, ChipType
  <2> QED BY <2>1 DEF EnabledInv
<1>4. ASSUME NEW v \in Viewers, DeleteOnCard(v) PROVE EnabledInv'
  <2>1. /\ chip'.enabled = chip.enabled /\ chip'.installed = chip.installed \ {viewer[v].of}
        /\ Home[viewer[v].of] = chip.inserted
        /\ viewer[v].of # chip.enabled[chip.inserted]
    BY <1>0, <1>4 DEF DeleteOnCard, ChipType, OnCard, Enabled
  <2> QED BY <2>1 DEF EnabledInv
<1>5. ASSUME NEW v \in Viewers, EnableOnCard(v) PROVE EnabledInv'
  <2>1. /\ chip'.enabled = [chip.enabled EXCEPT ![chip.inserted] = viewer[v].of]
        /\ chip'.installed = chip.installed
        /\ viewer[v].of \in chip.installed /\ Home[viewer[v].of] = chip.inserted
    BY <1>0, <1>5 DEF EnableOnCard, ChipType, OnCard
  <2>2. chip.enabled \in [Cards -> Profiles \cup {NoProfile}] /\ chip.inserted \in Cards
    BY <1>0 DEF ChipType
  <2> QED BY <2>1, <2>2 DEF EnabledInv
<1>6. \/ UNCHANGED chip \/ Swap
      \/ \E v \in Viewers : \/ RenameOnCard(v) \/ DownloadToCard(v) \/ DeleteOnCard(v)
                            \/ EnableOnCard(v)
  BY DEF SimNext, ViewStep, Registers, SaveManual, CenterOfSms, StopProcess, AsksFor, Abandons,
     StartRefresh, FetchNumber, FetchCenter, AskInfo, ReadInfo, ReadEuicc, ShowEuicc,
     ReadProfiles, StoreListing, ReadRows, StoreRows, GetRow, PutRow, DeleteRow, CacheDownload
<1> QED BY <1>1, <1>2, <1>3, <1>4, <1>5, <1>6

LEMMA SimCountsInvStep ==
  ASSUME SimCounts, SimNext
  PROVE  SimCounts'
<1>1. /\ UNCHANGED views \/ (views < MaxViews /\ views' = views + 1)
      /\ UNCHANGED swaps \/ (swaps < MaxSwaps /\ swaps' = swaps + 1)
  BY DEF SimNext, ViewStep, Swap, Registers, SaveManual, CenterOfSms, StopProcess, AsksFor,
     Abandons, StartRefresh, FetchNumber, FetchCenter, AskInfo, ReadInfo, ReadEuicc, ShowEuicc,
     ReadProfiles, StoreListing, ReadRows, StoreRows, GetRow, PutRow, DeleteRow, CacheDownload,
     RenameOnCard, DeleteOnCard, EnableOnCard, DownloadToCard, Trouble
<1> QED BY <1>1, SimAssumption DEF SimCounts

LEMMA SimTyped ==
  ASSUME ListInv, RefreshInv, EnabledInv, SimCounts
  PROVE  SimTypeOK
<1>1. \A c \in Cards : chip.enabled[c] \in OnCard(c) \cup {NoProfile}
  BY ListIs, SimIs DEF EnabledInv, OnCard, ChipType
<1>2. refreshing <=> \E v \in Viewers : viewer[v].op = "refresh" /\ viewer[v].step # "spawn"
  BY DEF RefreshInv, Refreshes
<1> QED BY <1>1, <1>2, ListIs, SimIs DEF SimTypeOK, SimCounts, ChipType, ValueType

LEMMA SimTypesAlways == RemoteSpec => []SimTypeOK
<1> DEFINE Inv == RefreshInv /\ EnabledInv /\ SimCounts
<1>1. RemoteInit => Inv
  <2> SUFFICES ASSUME RemoteInit PROVE Inv
    OBVIOUS
  <2>1. SimInit
    BY DEF RemoteInit
  <2>2. RefreshInv
    BY <2>1, SimConstants DEF SimInit, RefreshInv, Refreshes
  <2>3. EnabledInv
    BY <2>1 DEF SimInit, FirstChips, EnabledInv
  <2>4. SimCounts
    BY <2>1, SimAssumption DEF SimInit, SimCounts
  <2> QED BY <2>2, <2>3, <2>4
<1>2. SimInv /\ Inv /\ [RemoteNext]_<<area, vars, hubLife, ddns, simCard, callLog, simRecords,
                                       routing, cellScan>> => Inv'
  <2> SUFFICES ASSUME SimInv, Inv, SimNext \/ UNCHANGED simRecords PROVE Inv'
    BY DEF RemoteNext, simRecords
  <2>1. CASE SimNext
    BY <2>1, RefreshInvStep, EnabledInvStep, SimCountsInvStep
  <2>2. CASE UNCHANGED simRecords
    BY <2>2 DEF simRecords, RefreshInv, EnabledInv, SimCounts
  <2> QED BY <2>1, <2>2
<1>3. ListInv /\ Inv => SimTypeOK
  BY SimTyped
<1> QED BY <1>1, <1>2, <1>3, SimInvAlways, ListInvAlways, PTL DEF RemoteSpec

-----------------------------------------------------------------------------
(* What is left of a sequence after its head.                               *)
LEMMA TailIs ==
  ASSUME NEW S, NEW q \in Seq(S), q # << >>
  PROVE  /\ Len(q) \in Nat \ {0} /\ Head(q) \in S /\ Head(q) = q[1]
         /\ Tail(q) \in Seq(S) /\ Len(Tail(q)) = Len(q) - 1
         /\ \A i \in 1..Len(Tail(q)) : Tail(q)[i] = q[i + 1] /\ i + 1 \in 1..Len(q)
         /\ Tail(q) = << >> <=> Len(q) = 1
<1>1. Len(q) \in Nat \ {0} /\ Head(q) \in S /\ Head(q) = q[1]
  OBVIOUS
<1>2. Tail(q) \in Seq(S) /\ Len(Tail(q)) = Len(q) - 1
  BY HeadTailProperties
<1>3. \A i \in 1..Len(Tail(q)) : Tail(q)[i] = q[i + 1]
  BY <1>1, HeadTailProperties
<1>4. \A i \in 1..Len(Tail(q)) : i + 1 \in 1..Len(q)
  BY <1>1, <1>2
<1>5. Tail(q) = << >> <=> Len(q) = 1
  <2>1. Tail(q) = << >> => Len(Tail(q)) = 0
    BY EmptySeq
  <2>2. Tail(q) # << >> => Len(Tail(q)) \in Nat \ {0}
    BY <1>2, EmptySeq
  <2> QED BY <1>1, <1>2, <2>1, <2>2
<1> QED BY <1>1, <1>2, <1>3, <1>4, <1>5

LEMMA WriteTyped ==
  ASSUME NEW R, NEW A, NEW r \in R, NEW a \in A, NEW b \in BOOLEAN
  PROVE  [record |-> r, ip |-> a, create |-> b] \in [record : R, ip : A, create : BOOLEAN]
OBVIOUS

-----------------------------------------------------------------------------
(* Dynamic DNS.                                                             *)
NamesOf(s) == s.plan.domains[Head(s.todo)]

SyncType ==
  [at : {"idle", "read", "list", "put", "count", "end"}, plan : Plans, todo : Seq(KindSet),
   left : Seq(Domains), ip : Known, ok : BOOLEAN, shown : [KindSet -> Known]]

(* The record of a domain is as the sync read, or was written late.         *)
TrueOf(s, n, zn, td) == zn[<<Head(s.todo), n>>] = s.ip \/ <<Head(s.todo), n>> \in td

(* What is left are the last domains of the list; the others are done.      *)
DoneSoFar(s, zn, td) ==
  LET done == Len(NamesOf(s)) - Len(s.left)
  IN  /\ done \in Nat
      /\ \A i \in 1..Len(s.left) : s.left[i] = NamesOf(s)[done + i]
      /\ \A i \in 1..done : TrueOf(s, NamesOf(s)[i], zn, td)

SyncOK(s, zn, td) ==
  /\ s \in SyncType
  /\ s.at \in {"read", "list", "put", "count"} => s.todo # << >>
  /\ s.at \in {"list", "put"} => /\ s.left # << >> /\ s.ip \in Addresses
                                 /\ DoneSoFar(s, zn, td)
  /\ s.at = "count" /\ s.ok => \A i \in 1..Len(NamesOf(s)) : TrueOf(s, NamesOf(s)[i], zn, td)
  /\ s.at = "read" => NamesOf(s) # << >>
  /\ \A i \in 1..Len(s.todo) : s.plan.domains[s.todo[i]] # << >>

(* One sync at a time, as long as the flag tells the truth.                 *)
FlagInv ==
  /\ \A c, d \in Syncers : sync[c].at # "idle" /\ sync[d].at # "idle" => c = d
  /\ \A c \in Syncers : sync[c].at # "idle" => syncing
  /\ syncing => abandoned \/ \E c \in Syncers : sync[c].at # "idle"

Counted(s, counts) ==
  [counts EXCEPT ![<<Head(s.todo), NamesOf(s)>>] = IF s.ok THEN 0 ELSE @ + 1]

(* The count is that of the failures, or lacks the one that is being        *)
(* counted.                                                                 *)
CountsInv ==
  \/ abandoned
  \/ (\A c \in Syncers : sync[c].at # "count") /\ failureCounts = failing
  \/ \E c \in Syncers : sync[c].at = "count" /\ failing = Counted(sync[c], failureCounts)

WorldOK ==
  /\ settings \in Plans
  /\ address \in [KindSet -> Addresses] /\ lastIp \in [KindSet -> Known]
  /\ zone \in [KindSet \X Domains -> Known]
  /\ pending \subseteq [record : KindSet \X Domains, ip : Addresses, create : BOOLEAN]
  /\ tardy \subseteq KindSet \X Domains

DdnsCountsOK ==
  /\ failureCounts \in [Keys -> Nat] /\ failing \in [Keys -> Nat]
  /\ troubles \in 0..MaxTroubles
  /\ syncing \in BOOLEAN /\ abandoned \in BOOLEAN

SyncsOK ==
  /\ sync \in [Syncers -> SyncType]
  /\ \A c \in Syncers : SyncOK(sync[c], zone, tardy)

DdnsInv == WorldOK /\ DdnsCountsOK /\ SyncsOK /\ FlagInv /\ CountsInv

LEMMA NoSyncIs ==
  ASSUME settings \in Plans, NEW zn, NEW td
  PROVE  NoSync \in SyncType /\ NoSync.at = "idle" /\ NoSync.todo = << >> /\ SyncOK(NoSync, zn, td)
<1>1. (CHOOSE p \in Plans : TRUE) \in Plans
  OBVIOUS
<1>2. NoSync \in SyncType /\ NoSync.at = "idle" /\ NoSync.todo = << >>
  BY <1>1 DEF NoSync, SyncType, Known
<1> QED BY <1>2 DEF SyncOK

LEMMA DdnsAtInit == DdnsInit => DdnsInv
<1> SUFFICES ASSUME DdnsInit PROVE DdnsInv
  OBVIOUS
<1>1. WorldOK
  BY DdnsAssumption DEF DdnsInit, WorldOK, Known
<1>2. DdnsCountsOK
  <2>1. failureCounts = [key \in Keys |-> 0] /\ failing = failureCounts
        /\ syncing = FALSE /\ abandoned = FALSE /\ troubles = 0
    BY DEF DdnsInit
  <2>2. failureCounts \in [Keys -> Nat] /\ failing \in [Keys -> Nat]
    BY <2>1
  <2>3. troubles \in 0..MaxTroubles
    BY <2>1, DdnsAssumption
  <2> QED BY <2>1, <2>2, <2>3 DEF DdnsCountsOK
<1>3. sync = [c \in Syncers |-> NoSync]
  BY DEF DdnsInit
<1>4. SyncsOK /\ \A c \in Syncers : sync[c].at = "idle"
  BY <1>1, <1>3, NoSyncIs DEF SyncsOK, WorldOK
<1>5. FlagInv /\ CountsInv
  BY <1>4 DEF DdnsInit, FlagInv, CountsInv
<1> QED BY <1>1, <1>2, <1>4, <1>5 DEF DdnsInv

(* A late write disturbs no sync.                                           *)
LEMMA LateKeepsSync ==
  ASSUME NEW s, NEW zn, NEW td, NEW zt, NEW tt, SyncOK(s, zn, td), td \subseteq tt,
         \A r \in KindSet \X Domains : zt[r] = zn[r] \/ r \in tt
  PROVE  SyncOK(s, zt, tt)
<1>1. s \in SyncType
  BY DEF SyncOK
<1>2. ASSUME NEW n \in Domains, s.todo # << >>, TrueOf(s, n, zn, td) PROVE TrueOf(s, n, zt, tt)
  <2>1. <<Head(s.todo), n>> \in KindSet \X Domains
    BY <1>1, <1>2 DEF SyncType
  <2> QED BY <1>2, <2>1 DEF TrueOf
<1>3. s.todo # << >> => NamesOf(s) \in Seq(Domains)
  BY <1>1, DdnsAssumption DEF SyncType, NamesOf
<1>4. s.todo # << >> /\ DoneSoFar(s, zn, td) => DoneSoFar(s, zt, tt)
  BY <1>1, <1>2, <1>3 DEF DoneSoFar, SyncType
<1>5. s.todo # << >> /\ (\A i \in 1..Len(NamesOf(s)) : TrueOf(s, NamesOf(s)[i], zn, td))
        => \A i \in 1..Len(NamesOf(s)) : TrueOf(s, NamesOf(s)[i], zt, tt)
  BY <1>2, <1>3
<1> QED BY <1>1, <1>4, <1>5 DEF SyncOK

LEMMA WriteKeepsIdle ==
  ASSUME NEW s, NEW zn, NEW td, NEW zt, SyncOK(s, zn, td), s.at \in {"idle", "end", "read"}
  PROVE  SyncOK(s, zt, td)
BY DEF SyncOK

LEMMA KindsOfIs ==
  ASSUME NEW p \in Plans
  PROVE  /\ KindsOf(p) \in Seq(KindSet)
         /\ \A i \in 1..Len(KindsOf(p)) : p.domains[KindsOf(p)[i]] # << >>
<1> DEFINE v4 == p.domains["A"] # << >>
           v6 == p.domains["AAAA"] # << >>
<1>1. CASE v4 /\ v6
  <2>1. KindsOf(p) = <<"A">> \o <<"AAAA">>
    BY <1>1, Zenon DEF KindsOf
  <2> QED BY <1>1, <2>1 DEF KindSet
<1>2. CASE v4 /\ ~v6
  <2>1. KindsOf(p) = <<"A">> \o << >>
    BY <1>2, Zenon DEF KindsOf
  <2> QED BY <1>2, <2>1 DEF KindSet
<1>3. CASE ~v4 /\ v6
  <2>1. KindsOf(p) = << >> \o <<"AAAA">>
    BY <1>3, Zenon DEF KindsOf
  <2> QED BY <1>3, <2>1 DEF KindSet
<1>4. CASE ~v4 /\ ~v6
  <2>1. KindsOf(p) = << >> \o << >>
    BY <1>4, Zenon DEF KindsOf
  <2> QED BY <2>1
<1> QED BY <1>1, <1>2, <1>3, <1>4

(* What a sync in a step may use.                                           *)
LEMMA SyncParts ==
  ASSUME NEW s, NEW zn, NEW td, SyncOK(s, zn, td), s.todo # << >>
  PROVE  /\ Head(s.todo) \in KindSet /\ Len(s.todo) \in Nat \ {0} /\ Tail(s.todo) \in Seq(KindSet)
         /\ NamesOf(s) \in Seq(Domains) /\ <<Head(s.todo), NamesOf(s)>> \in Keys
         /\ NamesOf(s) # << >>
<1>1. s.todo \in Seq(KindSet) /\ s.plan \in Plans
  BY DEF SyncOK, SyncType
<1>2. Head(s.todo) \in KindSet /\ Len(s.todo) \in Nat \ {0} /\ Tail(s.todo) \in Seq(KindSet)
      /\ Head(s.todo) = s.todo[1] /\ 1 \in 1..Len(s.todo)
  BY <1>1
<1>3. NamesOf(s) \in Seq(Domains)
  BY <1>1, <1>2, DdnsAssumption DEF NamesOf
<1>4. <<Head(s.todo), NamesOf(s)>> \in Keys
  BY <1>1, <1>2 DEF Keys, NamesOf
<1>5. NamesOf(s) # << >>
  BY <1>2 DEF SyncOK, NamesOf
<1> QED BY <1>2, <1>3, <1>4, <1>5

LEMMA SyncActs ==
  ASSUME DdnsInv, NEW c \in Syncers, sync[c].at # "idle", NEW new, new.at # "idle",
         sync' = [sync EXCEPT ![c] = new], SyncOK(new, zone', tardy),
         UNCHANGED <<syncing, abandoned, tardy>>, WorldOK', DdnsCountsOK', CountsInv'
  PROVE  DdnsInv'
<1>1. ASSUME NEW d \in Syncers \ {c} PROVE sync[d].at = "idle" /\ SyncOK(sync[d], zone', tardy)
  <2>1. sync[d].at = "idle" /\ SyncOK(sync[d], zone, tardy)
    BY DEF DdnsInv, SyncsOK, FlagInv
  <2> QED BY <2>1, WriteKeepsIdle
<1>2. sync' \in [Syncers -> SyncType]
  BY DEF DdnsInv, SyncsOK, SyncOK
<1>3. \A d \in Syncers : sync'[d] = IF d = c THEN new ELSE sync[d]
  BY DEF DdnsInv, SyncsOK
<1>4. SyncsOK'
  BY <1>1, <1>2, <1>3 DEF SyncsOK
<1>5. FlagInv'
  BY <1>1, <1>3 DEF DdnsInv, FlagInv
<1> QED BY <1>4, <1>5 DEF DdnsInv

(* A step between two results leaves the counts.                            *)
LEMMA CountsRest ==
  ASSUME DdnsInv, NEW c \in Syncers, NEW new, sync[c].at # "count", new.at # "count",
         sync' = [sync EXCEPT ![c] = new], UNCHANGED <<failing, failureCounts, abandoned>>
  PROVE  CountsInv'
<1>1. \A d \in Syncers : sync'[d] = IF d = c THEN new ELSE sync[d]
  BY DEF DdnsInv, SyncsOK
<1>2. CASE abandoned
  BY <1>2 DEF CountsInv
<1>3. CASE (\A d \in Syncers : sync[d].at # "count") /\ failureCounts = failing
  BY <1>1, <1>3 DEF CountsInv
<1>4. CASE \E d \in Syncers : sync[d].at = "count" /\ failing = Counted(sync[d], failureCounts)
  <2>1. PICK d \in Syncers : sync[d].at = "count" /\ failing = Counted(sync[d], failureCounts)
    BY <1>4
  <2>2. sync'[d].at = "count" /\ failing' = Counted(sync'[d], failureCounts')
    BY <1>1, <2>1
  <2> QED BY <2>2 DEF CountsInv
<1> QED BY <1>2, <1>3, <1>4 DEF DdnsInv, CountsInv

Resulted(s, ok) ==
  [s EXCEPT !.at = "count", !.ok = ok, !.left = << >>, !.shown[Head(s.todo)] = s.ip]

LEMMA ResultedIs ==
  ASSUME NEW s \in SyncType, Head(s.todo) \in KindSet, NEW ok \in BOOLEAN
  PROVE  /\ Resulted(s, ok) \in SyncType
         /\ Resulted(s, ok).at = "count" /\ Resulted(s, ok).ok = ok
         /\ Resulted(s, ok).todo = s.todo /\ Resulted(s, ok).plan = s.plan
         /\ Resulted(s, ok).ip = s.ip
<1>1. << >> \in Seq(Domains)
  OBVIOUS
<1>2. [s.shown EXCEPT ![Head(s.todo)] = s.ip] \in [KindSet -> Known]
  BY DEF SyncType
<1>3. Resulted(s, ok) = [s EXCEPT !.at = "count", !.ok = ok, !.left = << >>,
                                  !.shown = [s.shown EXCEPT ![Head(s.todo)] = s.ip]]
  BY DEF Resulted, SyncType
<1> QED BY <1>1, <1>2, <1>3 DEF SyncType

LEMMA ResultedOK ==
  ASSUME NEW s, NEW zn, NEW td, NEW zt, SyncOK(s, zn, td), s.todo # << >>, NEW ok \in BOOLEAN,
         ok => \A i \in 1..Len(NamesOf(s)) : TrueOf(s, NamesOf(s)[i], zt, td)
  PROVE  SyncOK(Resulted(s, ok), zt, td)
<1> DEFINE new == Resulted(s, ok)
<1>1. s \in SyncType /\ Head(s.todo) \in KindSet
  BY SyncParts DEF SyncOK
<1>2. new \in SyncType /\ new.at = "count" /\ new.ok = ok /\ new.todo = s.todo
      /\ new.plan = s.plan /\ new.ip = s.ip
  BY <1>1, ResultedIs
<1> HIDE DEF new
<1>3. NamesOf(new) = NamesOf(s)
  BY <1>2 DEF NamesOf
<1>4. ok => \A i \in 1..Len(NamesOf(new)) : TrueOf(new, NamesOf(new)[i], zt, td)
  BY <1>2, <1>3 DEF TrueOf
<1>5. SyncOK(new, zt, td)
  BY <1>2, <1>3, <1>4 DEF SyncOK
<1> QED BY <1>5 DEF new

LEMMA ResultStep ==
  ASSUME DdnsInv, NEW c \in Syncers, sync[c].at \in {"read", "list", "put"}, NEW ok \in BOOLEAN,
         Result(c, sync[c], ok),
         ok => \A i \in 1..Len(NamesOf(sync[c])) :
                 TrueOf(sync[c], NamesOf(sync[c])[i], zone', tardy),
         UNCHANGED <<syncing, abandoned, tardy, failureCounts>>, WorldOK',
         troubles' \in 0..MaxTroubles
  PROVE  DdnsInv'
<1> DEFINE new == Resulted(sync[c], ok)
<1>1. SyncOK(sync[c], zone, tardy) /\ sync[c].todo # << >> /\ sync[c] \in SyncType
  BY DEF DdnsInv, SyncsOK, SyncOK
<1>2. SyncOK(new, zone', tardy) /\ new.at = "count" /\ new.ok = ok
      /\ new.todo = sync[c].todo /\ new.plan = sync[c].plan
  BY <1>1, ResultedOK, ResultedIs, SyncParts
<1>3. sync' = [sync EXCEPT ![c] = new]
  BY DEF Result, KindOf, Resulted
<1> HIDE DEF new
<1>4. <<Head(sync[c].todo), NamesOf(sync[c])>> = KeyOf(c) /\ KeyOf(c) \in Keys
  BY <1>1, SyncParts DEF KeyOf, KindOf, DomainsOf, NamesOf
<1>5. failing' = [failing EXCEPT ![KeyOf(c)] = IF ok THEN 0 ELSE @ + 1]
  BY DEF Result
<1>6. DdnsCountsOK'
  BY <1>4, <1>5 DEF DdnsInv, DdnsCountsOK
<1>7. CountsInv'
  <2>1. CASE abandoned
    BY <2>1 DEF CountsInv
  <2>2. CASE ~abandoned
    <3>1. \A d \in Syncers : sync[d].at # "count"
      BY DEF DdnsInv, FlagInv
    <3>2. failing = failureCounts
      BY <2>2, <3>1 DEF DdnsInv, CountsInv
    <3>3. sync'[c] = new
      BY <1>3 DEF DdnsInv, SyncsOK
    <3>4. NamesOf(new) = NamesOf(sync[c]) /\ Head(new.todo) = Head(sync[c].todo)
      BY <1>2 DEF NamesOf
    <3>5. failing' = Counted(new, failureCounts)
      BY <1>2, <1>4, <1>5, <3>2, <3>4 DEF Counted
    <3>6. sync'[c].at = "count" /\ failing' = Counted(sync'[c], failureCounts')
      BY <1>2, <3>3, <3>5
    <3> QED BY <3>6 DEF CountsInv
  <2> QED BY <2>1, <2>2
<1>8. sync[c].at # "idle" /\ new.at # "idle"
  BY <1>2
<1> QED BY <1>2, <1>3, <1>6, <1>7, <1>8, SyncActs

Moved(s) == [s EXCEPT !.at = "list", !.left = Tail(s.left)]

(* The domain at the head of the list is done: all are, or one less is left.*)
LEMMA AdvanceOK ==
  ASSUME NEW s, NEW zn, NEW td, NEW zt, SyncOK(s, zn, td), s.at \in {"list", "put"},
         TrueOf(s, Head(s.left), zt, td),
         \A n \in Domains : TrueOf(s, n, zn, td) => TrueOf(s, n, zt, td)
  PROVE  /\ Len(s.left) = 1 => \A i \in 1..Len(NamesOf(s)) : TrueOf(s, NamesOf(s)[i], zt, td)
         /\ Len(s.left) # 1 => SyncOK(Moved(s), zt, td)
<1> DEFINE names == NamesOf(s)
           left == s.left
           done == Len(names) - Len(left)
<1>1. /\ s \in SyncType /\ s.todo # << >> /\ s.left # << >> /\ s.left \in Seq(Domains)
      /\ names \in Seq(Domains) /\ s.ip \in Addresses
  BY SyncParts DEF SyncOK, SyncType
<1>2. /\ done \in Nat
      /\ \A i \in 1..Len(left) : left[i] = names[done + i]
      /\ \A i \in 1..done : TrueOf(s, names[i], zn, td)
  BY DEF SyncOK, DoneSoFar
<1>3. /\ Len(left) \in Nat \ {0} /\ Head(left) = left[1]
      /\ Tail(left) \in Seq(Domains) /\ Len(Tail(left)) = Len(left) - 1
      /\ \A i \in 1..Len(Tail(left)) : Tail(left)[i] = left[i + 1] /\ i + 1 \in 1..Len(left)
      /\ Tail(left) = << >> <=> Len(left) = 1
  BY <1>1, TailIs
<1>a. Len(names) \in Nat /\ Len(names) = done + Len(left)
  BY <1>1, <1>3, LenProperties
<1>b. \A i \in 1..done : names[i] \in Domains
  <2>1. \A i \in 1..done : i \in 1..Len(names)
    BY <1>2, <1>3, <1>a
  <2>2. \A i \in 1..Len(names) : names[i] \in Domains
    BY <1>1, ElementOfSeq
  <2> QED BY <2>1, <2>2
<1> HIDE DEF names, left, done
<1>4. ASSUME NEW i \in 1..(done + 1) PROVE TrueOf(s, names[i], zt, td)
  <2>1. CASE i = done + 1
    <3>1. left[1] = names[done + 1]
      BY <1>2, <1>3
    <3>2. names[i] = Head(s.left)
      BY <1>3, <2>1, <3>1 DEF left
    <3> QED BY <3>2
  <2>2. CASE i \in 1..done
    BY <1>2, <1>b, <2>2
  <2> QED BY <1>2, <2>1, <2>2
<1>5. ASSUME Len(s.left) = 1 PROVE \A i \in 1..Len(names) : TrueOf(s, names[i], zt, td)
  <2>1. Len(names) = done + 1
    BY <1>2, <1>a, <1>5 DEF left
  <2> QED BY <1>4, <2>1
<1>6. ASSUME Len(s.left) # 1 PROVE SyncOK(Moved(s), zt, td)
  <2> DEFINE new == Moved(s)
  <2>1. Tail(left) # << >>
    BY <1>3, <1>6 DEF left
  <2>2. /\ new \in SyncType /\ new.at = "list" /\ new.left = Tail(left) /\ new.todo = s.todo
        /\ new.plan = s.plan /\ new.ip = s.ip
    BY <1>1, <1>3 DEF left, Moved, SyncType
  <2> HIDE DEF new
  <2>3. NamesOf(new) = names
    BY <2>2 DEF NamesOf, names
  <2>4. Len(names) - Len(new.left) = done + 1
    BY <1>2, <1>3, <1>a, <2>2
  <2>5. \A i \in 1..Len(new.left) : new.left[i] = names[(done + 1) + i]
    <3> SUFFICES ASSUME NEW i \in 1..Len(new.left) PROVE new.left[i] = names[(done + 1) + i]
      OBVIOUS
    <3>1. new.left[i] = left[i + 1] /\ i + 1 \in 1..Len(left)
      BY <1>3, <2>2
    <3>2. done + (i + 1) = (done + 1) + i
      BY <1>2
    <3> QED BY <1>2, <3>1, <3>2
  <2>6. \A i \in 1..(done + 1) : TrueOf(new, names[i], zt, td)
    BY <1>4, <2>2 DEF TrueOf
  <2>x. done + 1 \in Nat
    BY <1>2
  <2>7. DoneSoFar(new, zt, td)
    BY <2>x, <2>3, <2>4, <2>5, <2>6 DEF DoneSoFar
  <2>8. SyncOK(new, zt, td)
    BY <1>1, <2>1, <2>2, <2>3, <2>7 DEF SyncOK
  <2> QED BY <2>8 DEF new
<1> QED BY <1>5, <1>6 DEF left, names

LEMMA OnwardStep ==
  ASSUME DdnsInv, NEW c \in Syncers, sync[c].at \in {"list", "put"}, Onward(c),
         TrueOf(sync[c], Head(sync[c].left), zone', tardy),
         \A n \in Domains : TrueOf(sync[c], n, zone, tardy) => TrueOf(sync[c], n, zone', tardy),
         UNCHANGED <<syncing, abandoned, tardy, failureCounts, troubles>>, WorldOK'
  PROVE  DdnsInv'
<1>1. SyncOK(sync[c], zone, tardy) /\ sync[c] \in SyncType /\ troubles' \in 0..MaxTroubles
  BY DEF DdnsInv, SyncsOK, DdnsCountsOK
<1>2. /\ Len(sync[c].left) = 1 =>
           \A i \in 1..Len(NamesOf(sync[c])) : TrueOf(sync[c], NamesOf(sync[c])[i], zone', tardy)
      /\ Len(sync[c].left) # 1 => SyncOK(Moved(sync[c]), zone', tardy)
  BY <1>1, AdvanceOK
<1>3. CASE Len(sync[c].left) = 1
  <2>1. Result(c, sync[c], TRUE)
    BY <1>3 DEF Onward
  <2> QED BY <1>1, <1>2, <1>3, <2>1, ResultStep
<1>4. CASE Len(sync[c].left) # 1
  <2> DEFINE new == Moved(sync[c])
  <2>1. new.at = "list"
    BY <1>1 DEF Moved, SyncType
  <2>2. sync' = [sync EXCEPT ![c] = new] /\ failing' = failing
    BY <1>4 DEF Onward, Moved
  <2>3. SyncOK(new, zone', tardy)
    BY <1>2, <1>4
  <2> HIDE DEF new
  <2>4. CountsInv'
    BY <2>1, <2>2, CountsRest
  <2>5. DdnsCountsOK'
    BY <2>2 DEF DdnsInv, DdnsCountsOK
  <2> QED BY <2>1, <2>2, <2>3, <2>4, <2>5, SyncActs
<1> QED BY <1>3, <1>4

LEMMA RecordTyped ==
  ASSUME DdnsInv, NEW c \in Syncers, sync[c].at \in {"list", "put"}
  PROVE  /\ RecordOf(c) \in KindSet \X Domains /\ sync[c].ip \in Addresses
         /\ RecordOf(c) = <<Head(sync[c].todo), Head(sync[c].left)>>
         /\ Head(sync[c].left) \in Domains
<1>1. SyncOK(sync[c], zone, tardy) /\ sync[c].todo # << >> /\ sync[c].left # << >>
      /\ sync[c].left \in Seq(Domains) /\ sync[c].ip \in Addresses
  BY DEF DdnsInv, SyncsOK, SyncOK, SyncType
<1>2. Head(sync[c].todo) \in KindSet
  BY <1>1, SyncParts
<1>3. Head(sync[c].left) \in Domains
  BY <1>1, TailIs
<1> QED BY <1>1, <1>2, <1>3 DEF RecordOf, KindOf

LEMMA BeginStep == ASSUME DdnsInv, NEW c \in Syncers, Begin(c) PROVE DdnsInv'
<1> DEFINE todo == KindsOf(settings)
           new == [NoSync EXCEPT !.plan = settings, !.todo = todo,
                                 !.at = IF todo = << >> THEN "end" ELSE "read"]
<1>1. settings \in Plans /\ ~syncing /\ syncing' = TRUE
      /\ sync' = [sync EXCEPT ![c] = new]
      /\ UNCHANGED <<settings, address, zone, pending, failureCounts, lastIp, failing, tardy,
                     abandoned, troubles>>
  BY DEF DdnsInv, WorldOK, Begin
<1>2. NoSync \in SyncType
  BY <1>1, NoSyncIs
<1>3. todo \in Seq(KindSet) /\ \A i \in 1..Len(todo) : settings.domains[todo[i]] # << >>
  BY <1>1, KindsOfIs
<1>4. todo # << >> => Head(todo) = todo[1] /\ 1 \in 1..Len(todo)
  BY <1>3
<1> HIDE DEF todo
<1>5. /\ new \in SyncType /\ new.plan = settings /\ new.todo = todo
      /\ new.at = IF todo = << >> THEN "end" ELSE "read"
  BY <1>1, <1>2, <1>3 DEF SyncType
<1> HIDE DEF new
<1>6. SyncOK(new, zone, tardy)
  BY <1>3, <1>4, <1>5 DEF SyncOK, NamesOf
<1>7. \A d \in Syncers : sync[d].at = "idle"
  BY <1>1 DEF DdnsInv, FlagInv
<1>8. \A d \in Syncers : sync'[d] = IF d = c THEN new ELSE sync[d]
  BY <1>1 DEF DdnsInv, SyncsOK
<1>9. SyncsOK'
  BY <1>1, <1>5, <1>6, <1>8 DEF DdnsInv, SyncsOK
<1>10. FlagInv'
  BY <1>1, <1>5, <1>7, <1>8 DEF FlagInv
<1>11. CountsInv'
  BY <1>1, <1>5, <1>7, CountsRest
<1>12. WorldOK' /\ DdnsCountsOK'
  BY <1>1 DEF DdnsInv, WorldOK, DdnsCountsOK
<1> QED BY <1>9, <1>10, <1>11, <1>12 DEF DdnsInv

LEMMA ReadIpStep == ASSUME DdnsInv, NEW c \in Syncers, ReadIp(c) PROVE DdnsInv'
<1>1. /\ sync[c].at = "read" /\ SyncOK(sync[c], zone, tardy) /\ sync[c] \in SyncType
      /\ UNCHANGED <<settings, address, zone, pending, syncing, failureCounts, lastIp, tardy,
                     abandoned>>
  BY DEF DdnsInv, SyncsOK, ReadIp, Step
<1>2. /\ sync[c].todo # << >> /\ Head(sync[c].todo) \in KindSet
      /\ NamesOf(sync[c]) \in Seq(Domains) /\ NamesOf(sync[c]) # << >>
  BY <1>1, SyncParts DEF SyncOK
<1>3. WorldOK'
  BY <1>1 DEF DdnsInv, WorldOK
<1>4. CASE Troubled /\ Result(c, sync[c], FALSE)
  <2>1. troubles' \in 0..MaxTroubles
    BY <1>4, DdnsAssumption DEF Troubled, DdnsInv, DdnsCountsOK
  <2> QED BY <1>1, <1>3, <1>4, <2>1, ResultStep
<1>5. CASE /\ sync' = [sync EXCEPT ![c].at = "list", ![c].ip = address[KindOf(c)],
                                   ![c].left = DomainsOf(c)]
           /\ UNCHANGED <<failing, troubles>>
  <2> DEFINE new == [sync[c] EXCEPT !.at = "list", !.ip = address[Head(sync[c].todo)],
                                    !.left = NamesOf(sync[c])]
  <2>1. sync' = [sync EXCEPT ![c] = new]
    BY <1>5 DEF KindOf, DomainsOf, NamesOf
  <2>2. address[Head(sync[c].todo)] \in Addresses
    BY <1>2 DEF DdnsInv, WorldOK
  <2>3. /\ new \in SyncType /\ new.at = "list" /\ new.ip \in Addresses
        /\ new.left = NamesOf(sync[c]) /\ new.todo = sync[c].todo /\ new.plan = sync[c].plan
    BY <1>1, <1>2, <2>2 DEF SyncType, Known
  <2> HIDE DEF new
  <2>4. NamesOf(new) = NamesOf(sync[c])
    BY <2>3 DEF NamesOf
  <2>5. DoneSoFar(new, zone, tardy)
    BY <1>2, <2>3, <2>4 DEF DoneSoFar
  <2>6. SyncOK(new, zone', tardy)
    BY <1>1, <1>2, <2>3, <2>4, <2>5 DEF SyncOK
  <2>7. CountsInv'
    BY <1>1, <1>5, <2>1, <2>3, CountsRest
  <2>8. DdnsCountsOK'
    BY <1>1, <1>5 DEF DdnsInv, DdnsCountsOK
  <2> QED BY <1>1, <1>3, <2>1, <2>3, <2>6, <2>7, <2>8, SyncActs
<1> QED BY <1>4, <1>5 DEF ReadIp

LEMMA ListStep == ASSUME DdnsInv, NEW c \in Syncers, List(c) PROVE DdnsInv'
<1>1. /\ sync[c].at = "list" /\ SyncOK(sync[c], zone, tardy) /\ sync[c] \in SyncType
      /\ UNCHANGED <<settings, address, zone, pending, syncing, failureCounts, lastIp, tardy,
                     abandoned>>
  BY DEF DdnsInv, SyncsOK, List, Step
<1>2. WorldOK'
  BY <1>1 DEF DdnsInv, WorldOK
<1>3. CASE Troubled /\ Result(c, sync[c], FALSE)
  <2>1. troubles' \in 0..MaxTroubles
    BY <1>3, DdnsAssumption DEF Troubled, DdnsInv, DdnsCountsOK
  <2> QED BY <1>1, <1>2, <1>3, <2>1, ResultStep
<1>4. CASE zone[RecordOf(c)] = sync[c].ip /\ Onward(c) /\ UNCHANGED troubles
  <2>1. TrueOf(sync[c], Head(sync[c].left), zone', tardy)
    BY <1>1, <1>4, RecordTyped DEF TrueOf
  <2>2. \A n \in Domains : TrueOf(sync[c], n, zone, tardy) => TrueOf(sync[c], n, zone', tardy)
    BY <1>1
  <2> QED BY <1>1, <1>2, <1>4, <2>1, <2>2, OnwardStep
<1>5. CASE sync' = [sync EXCEPT ![c].at = "put"] /\ UNCHANGED <<failing, troubles>>
  <2> DEFINE new == [sync[c] EXCEPT !.at = "put"]
  <2>1. sync' = [sync EXCEPT ![c] = new]
    BY <1>5
  <2>2. /\ new \in SyncType /\ new.at = "put" /\ new.ip = sync[c].ip
        /\ new.left = sync[c].left /\ new.todo = sync[c].todo /\ new.plan = sync[c].plan
    BY <1>1 DEF SyncType
  <2> HIDE DEF new
  <2>3. NamesOf(new) = NamesOf(sync[c])
    BY <2>2 DEF NamesOf
  <2>4. DoneSoFar(new, zone, tardy)
    BY <1>1, <2>2, <2>3 DEF SyncOK, DoneSoFar, TrueOf
  <2>5. SyncOK(new, zone', tardy)
    BY <1>1, <2>2, <2>3, <2>4 DEF SyncOK
  <2>6. CountsInv'
    BY <1>1, <1>5, <2>1, <2>2, CountsRest
  <2>7. DdnsCountsOK'
    BY <1>1, <1>5 DEF DdnsInv, DdnsCountsOK
  <2> QED BY <1>1, <1>2, <2>1, <2>2, <2>5, <2>6, <2>7, SyncActs
<1> QED BY <1>3, <1>4, <1>5 DEF List

LEMMA PutStep == ASSUME DdnsInv, NEW c \in Syncers, Put(c) PROVE DdnsInv'
<1>1. /\ sync[c].at = "put" /\ SyncOK(sync[c], zone, tardy) /\ sync[c] \in SyncType
      /\ zone' = [zone EXCEPT ![RecordOf(c)] = sync[c].ip] /\ Onward(c)
      /\ UNCHANGED <<settings, address, pending, syncing, failureCounts, lastIp, tardy,
                     abandoned, troubles>>
  BY DEF DdnsInv, SyncsOK, Put, Step
<1>2. /\ RecordOf(c) \in KindSet \X Domains /\ sync[c].ip \in Addresses
      /\ RecordOf(c) = <<Head(sync[c].todo), Head(sync[c].left)>>
      /\ zone \in [KindSet \X Domains -> Known]
  BY <1>1, RecordTyped DEF DdnsInv, WorldOK
<1>3. WorldOK'
  BY <1>1, <1>2 DEF DdnsInv, WorldOK, Known
<1>4. TrueOf(sync[c], Head(sync[c].left), zone', tardy)
  BY <1>1, <1>2 DEF TrueOf
<1>5. Head(sync[c].todo) \in KindSet
  BY <1>1, SyncParts DEF SyncOK
<1>6. ASSUME NEW n \in Domains, TrueOf(sync[c], n, zone, tardy)
      PROVE  TrueOf(sync[c], n, zone', tardy)
  <2>1. <<Head(sync[c].todo), n>> \in KindSet \X Domains
    BY <1>5
  <2>2. zone'[<<Head(sync[c].todo), n>>] \in {zone[<<Head(sync[c].todo), n>>], sync[c].ip}
    BY <1>1, <1>2, <2>1
  <2> QED BY <1>6, <2>2 DEF TrueOf
<1> QED BY <1>1, <1>3, <1>4, <1>6, OnwardStep

LEMMA UnansweredKeeps ==
  ASSUME DdnsInv, NEW c \in Syncers, sync[c].at = "put", Unanswered(c)
  PROVE  /\ zone' \in [KindSet \X Domains -> Known]
         /\ pending' \subseteq [record : KindSet \X Domains, ip : Addresses, create : BOOLEAN]
<1>1. RecordOf(c) \in KindSet \X Domains /\ sync[c].ip \in Addresses
  BY RecordTyped
<1>2. zone \in [KindSet \X Domains -> Known]
      /\ pending \subseteq [record : KindSet \X Domains, ip : Addresses, create : BOOLEAN]
  BY DEF DdnsInv, WorldOK
<1>3. CASE UNCHANGED <<zone, pending>>
  BY <1>2, <1>3
<1>4. CASE zone' = [zone EXCEPT ![RecordOf(c)] = sync[c].ip] /\ UNCHANGED pending
  BY <1>1, <1>2, <1>4 DEF Known
<1>5. CASE /\ pending' = pending \cup {[record |-> RecordOf(c), ip |-> sync[c].ip,
                                        create |-> zone[RecordOf(c)] = NoAddress]}
           /\ UNCHANGED zone
  <2>1. (zone[RecordOf(c)] = NoAddress) \in BOOLEAN
    BY SameIsBoolean
  <2>2. [record |-> RecordOf(c), ip |-> sync[c].ip, create |-> zone[RecordOf(c)] = NoAddress]
          \in [record : KindSet \X Domains, ip : Addresses, create : BOOLEAN]
    BY <1>1, <2>1, WriteTyped
  <2> QED BY <1>2, <1>5, <2>2
<1> QED BY <1>3, <1>4, <1>5 DEF Unanswered

LEMMA PutFailsStep == ASSUME DdnsInv, NEW c \in Syncers, PutFails(c) PROVE DdnsInv'
<1>1. /\ sync[c].at = "put" /\ Unanswered(c) /\ Result(c, sync[c], FALSE) /\ Troubled
      /\ UNCHANGED <<settings, address, syncing, failureCounts, lastIp, tardy, abandoned>>
  BY DEF PutFails, Step
<1>2. WorldOK'
  BY <1>1, UnansweredKeeps DEF DdnsInv, WorldOK
<1>3. troubles' \in 0..MaxTroubles
  BY <1>1, DdnsAssumption DEF Troubled, DdnsInv, DdnsCountsOK
<1> QED BY <1>1, <1>2, <1>3, ResultStep

LEMMA CountResultStep == ASSUME DdnsInv, NEW c \in Syncers, CountResult(c) PROVE DdnsInv'
<1> DEFINE at == IF Len(sync[c].todo) = 1 THEN "end" ELSE "read"
           new == [sync[c] EXCEPT !.todo = Tail(sync[c].todo), !.ip = NoAddress, !.at = at]
<1>1. /\ sync[c].at = "count" /\ SyncOK(sync[c], zone, tardy) /\ sync[c] \in SyncType
      /\ failureCounts' = [failureCounts EXCEPT ![KeyOf(c)] = IF sync[c].ok THEN 0 ELSE @ + 1]
      /\ UNCHANGED <<settings, address, zone, pending, syncing, lastIp, failing, tardy,
                     abandoned, troubles>>
      /\ sync' = [sync EXCEPT ![c] = new]
  BY DEF DdnsInv, SyncsOK, CountResult, Step
<1>2. /\ sync[c].todo # << >> /\ Len(sync[c].todo) \in Nat \ {0}
      /\ Tail(sync[c].todo) \in Seq(KindSet)
      /\ <<Head(sync[c].todo), NamesOf(sync[c])>> \in Keys
  BY <1>1, SyncParts DEF SyncOK
<1>3. KeyOf(c) = <<Head(sync[c].todo), NamesOf(sync[c])>>
  BY DEF KeyOf, KindOf, DomainsOf, NamesOf
<1>4. failureCounts' = Counted(sync[c], failureCounts)
  BY <1>1, <1>3 DEF Counted
<1>5. /\ new \in SyncType /\ new.at = at /\ new.todo = Tail(sync[c].todo)
      /\ new.plan = sync[c].plan
  BY <1>1, <1>2 DEF SyncType, Known
<1>6. \A i \in 1..Len(new.todo) : new.todo[i] = sync[c].todo[i + 1]
                                  /\ i + 1 \in 1..Len(sync[c].todo)
  <2>1. sync[c].todo \in Seq(KindSet)
    BY <1>1 DEF SyncType
  <2> QED BY <1>2, <1>5, <2>1, TailIs
<1>7. at = "read" => new.todo # << >>
  <2>1. sync[c].todo \in Seq(KindSet)
    BY <1>1 DEF SyncType
  <2>2. Tail(sync[c].todo) = << >> => Len(sync[c].todo) = 1
    BY <1>2, <2>1, TailIs
  <2> QED BY <1>5, <2>2
<1>8. at \in {"end", "read"}
  OBVIOUS
<1> HIDE DEF new, at
<1>9. \A i \in 1..Len(new.todo) : new.plan.domains[new.todo[i]] # << >>
  BY <1>1, <1>5, <1>6 DEF SyncOK
<1>10. at = "read" => NamesOf(new) # << >>
  <2>1. new.todo # << >> => Head(new.todo) = new.todo[1] /\ 1 \in 1..Len(new.todo)
    BY <1>5 DEF SyncType
  <2> QED BY <1>7, <1>9, <2>1 DEF NamesOf
<1>11. SyncOK(new, zone', tardy)
  BY <1>5, <1>7, <1>8, <1>9, <1>10 DEF SyncOK
<1>12. CountsInv'
  <2>1. CASE abandoned
    BY <1>1, <2>1 DEF CountsInv
  <2>2. CASE ~abandoned
    <3>1. \A d \in Syncers : sync[d].at = "count" => d = c
      BY <1>1 DEF DdnsInv, FlagInv
    <3>2. failing = Counted(sync[c], failureCounts)
      BY <1>1, <2>2, <3>1 DEF DdnsInv, CountsInv
    <3>3. \A d \in Syncers : sync'[d].at # "count"
      BY <1>1, <1>5, <1>8, <3>1 DEF DdnsInv, SyncsOK
    <3> QED BY <1>1, <1>4, <3>2, <3>3 DEF CountsInv
  <2> QED BY <2>1, <2>2
<1>13. DdnsCountsOK'
  <2>1. failureCounts' \in [Keys -> Nat]
    BY <1>1, <1>2, <1>3 DEF DdnsInv, DdnsCountsOK
  <2> QED BY <1>1, <2>1 DEF DdnsInv, DdnsCountsOK
<1>14. WorldOK'
  BY <1>1 DEF DdnsInv, WorldOK
<1>15. sync[c].at # "idle" /\ new.at # "idle"
  BY <1>1, <1>5, <1>8
<1> QED BY <1>1, <1>11, <1>12, <1>13, <1>14, <1>15, SyncActs

LEMMA EndSyncStep == ASSUME DdnsInv, NEW c \in Syncers, EndSync(c) PROVE DdnsInv'
<1>1. /\ sync[c].at = "end" /\ syncing' = FALSE /\ sync' = [sync EXCEPT ![c] = NoSync]
      /\ sync[c] \in SyncType
      /\ UNCHANGED <<settings, address, zone, pending, failureCounts, failing, tardy, abandoned,
                     troubles>>
  BY DEF DdnsInv, SyncsOK, EndSync, Step
<1>2. NoSync \in SyncType /\ NoSync.at = "idle" /\ SyncOK(NoSync, zone, tardy)
  BY NoSyncIs DEF DdnsInv, WorldOK
<1>3. \A d \in Syncers : sync'[d] = IF d = c THEN NoSync ELSE sync[d]
  BY <1>1 DEF DdnsInv, SyncsOK
<1>4. \A d \in Syncers : sync'[d].at = "idle"
  BY <1>1, <1>2, <1>3 DEF DdnsInv, FlagInv
<1>5. lastIp' \in [KindSet -> Known]
  <2>1. lastIp \in [KindSet -> Known] /\ sync[c].shown \in [KindSet -> Known]
    BY <1>1 DEF DdnsInv, WorldOK, SyncType
  <2>2. lastIp' = [k \in KindSet |-> IF sync[c].shown[k] = NoAddress THEN lastIp[k]
                                                                     ELSE sync[c].shown[k]]
    BY DEF EndSync
  <2> QED BY <2>1, <2>2
<1>6. WorldOK' /\ DdnsCountsOK'
  BY <1>1, <1>5 DEF DdnsInv, WorldOK, DdnsCountsOK
<1>7. SyncsOK'
  BY <1>1, <1>2, <1>3 DEF DdnsInv, SyncsOK
<1>8. FlagInv'
  BY <1>1, <1>4 DEF FlagInv
<1>9. CountsInv'
  <2>1. \A d \in Syncers : sync[d].at # "count"
    BY <1>1 DEF DdnsInv, FlagInv
  <2> QED BY <1>1, <1>4, <2>1 DEF DdnsInv, CountsInv
<1> QED BY <1>6, <1>7, <1>8, <1>9 DEF DdnsInv

LEMMA SyncDroppedStep == ASSUME DdnsInv, NEW c \in Askers, SyncDropped(c) PROVE DdnsInv'
<1>1. /\ c \in Syncers /\ sync[c].at # "idle" /\ Troubled /\ abandoned' = TRUE
      /\ sync' = [sync EXCEPT ![c] = NoSync]
      /\ UNCHANGED <<settings, address, syncing, failureCounts, lastIp, failing, tardy>>
  BY DEF SyncDropped, Step, Syncers
<1>2. /\ zone' \in [KindSet \X Domains -> Known]
      /\ pending' \subseteq [record : KindSet \X Domains, ip : Addresses, create : BOOLEAN]
  <2>1. CASE sync[c].at = "put"
    BY <1>1, <2>1, UnansweredKeeps DEF SyncDropped, Step
  <2>2. CASE sync[c].at # "put"
    BY <2>2 DEF SyncDropped, Step, DdnsInv, WorldOK
  <2> QED BY <2>1, <2>2
<1>3. NoSync \in SyncType /\ NoSync.at = "idle" /\ SyncOK(NoSync, zone', tardy)
  BY NoSyncIs DEF DdnsInv, WorldOK
<1>4. \A d \in Syncers : sync'[d] = IF d = c THEN NoSync ELSE sync[d]
  BY <1>1 DEF DdnsInv, SyncsOK
<1>5. \A d \in Syncers : sync'[d].at = "idle" /\ SyncOK(sync'[d], zone', tardy)
  <2> SUFFICES ASSUME NEW d \in Syncers
               PROVE  sync'[d].at = "idle" /\ SyncOK(sync'[d], zone', tardy)
    OBVIOUS
  <2>1. CASE d = c
    BY <1>3, <1>4, <2>1
  <2>2. CASE d # c
    <3>1. sync[d].at = "idle" /\ SyncOK(sync[d], zone, tardy)
      BY <1>1, <2>2 DEF DdnsInv, FlagInv, SyncsOK
    <3> QED BY <1>4, <2>2, <3>1, WriteKeepsIdle
  <2> QED BY <2>1, <2>2
<1>6. SyncsOK'
  <2>1. sync' \in [Syncers -> SyncType]
    BY <1>1, <1>3 DEF DdnsInv, SyncsOK
  <2> QED BY <1>1, <1>5, <2>1 DEF SyncsOK
<1>7. WorldOK'
  BY <1>1, <1>2 DEF DdnsInv, WorldOK
<1>8. DdnsCountsOK'
  <2>1. troubles' \in 0..MaxTroubles
    BY <1>1, DdnsAssumption DEF Troubled, DdnsInv, DdnsCountsOK
  <2> QED BY <1>1, <2>1 DEF DdnsInv, DdnsCountsOK
<1>9. FlagInv' /\ CountsInv'
  BY <1>1, <1>5 DEF FlagInv, CountsInv
<1> QED BY <1>6, <1>7, <1>8, <1>9 DEF DdnsInv

(* What changes neither the syncs nor the zone.                             *)
LEMMA OutsideStep ==
  ASSUME DdnsInv, WorldOK', troubles' \in 0..MaxTroubles,
         UNCHANGED <<zone, syncing, sync, failureCounts, failing, tardy, abandoned>>
  PROVE  DdnsInv'
<1>1. DdnsCountsOK' /\ SyncsOK'
  BY DEF DdnsInv, DdnsCountsOK, SyncsOK
<1>2. FlagInv' /\ CountsInv'
  BY DEF DdnsInv, FlagInv, CountsInv
<1> QED BY <1>1, <1>2 DEF DdnsInv

LEMMA SetPlanStep == ASSUME DdnsInv, NEW p \in Plans, SetPlan(p) PROVE DdnsInv'
<1>1. WorldOK'
  BY DEF SetPlan, DdnsInv, WorldOK
<1>2. troubles' \in 0..MaxTroubles
  BY DdnsAssumption DEF SetPlan, Troubled, DdnsInv, DdnsCountsOK
<1> QED BY <1>1, <1>2, OutsideStep DEF SetPlan

LEMMA AddressChangesStep ==
  ASSUME DdnsInv, NEW k \in KindSet, NEW a \in Addresses, AddressChanges(k, a) PROVE DdnsInv'
<1>1. WorldOK'
  BY DEF AddressChanges, DdnsInv, WorldOK
<1>2. troubles' \in 0..MaxTroubles
  BY DdnsAssumption DEF AddressChanges, Troubled, DdnsInv, DdnsCountsOK
<1> QED BY <1>1, <1>2, OutsideStep DEF AddressChanges

LEMMA WrittenLateStep == ASSUME DdnsInv, NEW w \in pending, WrittenLate(w) PROVE DdnsInv'
<1>1. /\ w \in [record : KindSet \X Domains, ip : Addresses, create : BOOLEAN]
      /\ pending' = pending \ {w}
      /\ UNCHANGED <<settings, address, syncing, sync, failureCounts, lastIp, failing, abandoned,
                     troubles>>
  BY DEF DdnsInv, WorldOK, WrittenLate
<1>2. w.record \in KindSet \X Domains /\ w.ip \in Addresses
  BY <1>1
<1>3. zone \in [KindSet \X Domains -> Known] /\ tardy \subseteq KindSet \X Domains
  BY DEF DdnsInv, WorldOK
<1>4. /\ zone' \in [KindSet \X Domains -> Known] /\ tardy' \subseteq KindSet \X Domains
      /\ tardy \subseteq tardy'
      /\ \A r \in KindSet \X Domains : zone'[r] = zone[r] \/ r \in tardy'
  <2>1. CASE UNCHANGED <<zone, tardy>>
    BY <1>3, <2>1
  <2>2. CASE zone' = [zone EXCEPT ![w.record] = w.ip] /\ tardy' = tardy \cup {w.record}
    BY <1>2, <1>3, <2>2 DEF Known
  <2> QED BY <2>1, <2>2 DEF WrittenLate
<1>5. \A c \in Syncers : SyncOK(sync[c], zone', tardy')
  BY <1>4, LateKeepsSync DEF DdnsInv, SyncsOK
<1>6. SyncsOK'
  BY <1>1, <1>5 DEF DdnsInv, SyncsOK
<1>7. WorldOK'
  BY <1>1, <1>4 DEF DdnsInv, WorldOK
<1>8. DdnsCountsOK'
  BY <1>1 DEF DdnsInv, DdnsCountsOK
<1>9. FlagInv' /\ CountsInv'
  BY <1>1 DEF DdnsInv, FlagInv, CountsInv
<1> QED BY <1>6, <1>7, <1>8, <1>9 DEF DdnsInv

LEMMA DdnsRestartsStep == ASSUME DdnsInv, DdnsRestarts PROVE DdnsInv'
<1>1. /\ syncing' = FALSE /\ sync' = [c \in Syncers |-> NoSync]
      /\ failureCounts' = [key \in Keys |-> 0] /\ failing' = failureCounts'
      /\ lastIp' = [k \in KindSet |-> NoAddress] /\ abandoned' = FALSE
      /\ UNCHANGED <<settings, address, tardy>>
  BY DEF DdnsRestarts
<1>2. /\ zone' \in [KindSet \X Domains -> Known]
      /\ pending' \subseteq [record : KindSet \X Domains, ip : Addresses, create : BOOLEAN]
  <2>1. CASE \A c \in Syncers : ~Step(c, "put") /\ UNCHANGED <<zone, pending>>
    <3>1. "loop" \in Syncers
      BY DEF Syncers
    <3> QED BY <2>1, <3>1 DEF DdnsInv, WorldOK
  <2>2. CASE \E c \in Syncers : Step(c, "put") /\ Unanswered(c)
    BY <2>2, UnansweredKeeps DEF Step
  <2> QED BY <2>1, <2>2 DEF DdnsRestarts
<1>3. WorldOK'
  BY <1>1, <1>2 DEF DdnsInv, WorldOK, Known
<1>4. DdnsCountsOK'
  <2>1. troubles' \in 0..MaxTroubles
    BY DdnsAssumption DEF DdnsRestarts, Troubled, DdnsInv, DdnsCountsOK
  <2>2. failureCounts' \in [Keys -> Nat] /\ failing' \in [Keys -> Nat]
    BY <1>1
  <2> QED BY <1>1, <2>1, <2>2 DEF DdnsCountsOK
<1>5. NoSync \in SyncType /\ NoSync.at = "idle" /\ SyncOK(NoSync, zone', tardy)
  BY NoSyncIs DEF DdnsInv, WorldOK
<1>6. SyncsOK' /\ \A c \in Syncers : sync'[c].at = "idle"
  BY <1>1, <1>5 DEF SyncsOK
<1>7. FlagInv' /\ CountsInv'
  BY <1>1, <1>6 DEF FlagInv, CountsInv
<1> QED BY <1>3, <1>4, <1>6, <1>7 DEF DdnsInv

LEMMA DdnsStays == ASSUME DdnsInv, UNCHANGED ddns PROVE DdnsInv'
<1>1. UNCHANGED <<settings, address, zone, pending, syncing, sync, failureCounts, lastIp, failing,
                  tardy, abandoned, troubles>>
  BY DEF ddns
<1>2. WorldOK' /\ troubles' \in 0..MaxTroubles
  BY <1>1 DEF DdnsInv, WorldOK, DdnsCountsOK
<1> QED BY <1>1, <1>2, OutsideStep

LEMMA DdnsInvStep == ASSUME DdnsInv, DdnsNext PROVE DdnsInv'
<1>1. CASE \E c \in Syncers :
             \/ Begin(c) \/ ReadIp(c) \/ List(c) \/ Put(c) \/ PutFails(c)
             \/ CountResult(c) \/ EndSync(c)
  BY <1>1, BeginStep, ReadIpStep, ListStep, PutStep, PutFailsStep, CountResultStep, EndSyncStep
<1>2. CASE \E c \in Askers : SyncDropped(c)
  BY <1>2, SyncDroppedStep
<1>3. CASE \E p \in Plans : SetPlan(p)
  BY <1>3, SetPlanStep
<1>4. CASE \E k \in KindSet, a \in Addresses : AddressChanges(k, a)
  BY <1>4, AddressChangesStep
<1>5. CASE \E w \in pending : WrittenLate(w)
  BY <1>5, WrittenLateStep
<1>6. CASE DdnsRestarts
  BY <1>6, DdnsRestartsStep
<1> QED BY <1>1, <1>2, <1>3, <1>4, <1>5, <1>6 DEF DdnsNext

LEMMA DdnsInvAlways == RemoteSpec => []DdnsInv
<1>1. RemoteInit => DdnsInv
  BY DdnsAtInit DEF RemoteInit
<1>2. DdnsInv /\ [RemoteNext]_<<area, vars, hubLife, ddns, simCard, callLog, simRecords,
                                routing, cellScan>> => DdnsInv'
  BY DdnsInvStep, DdnsStays DEF RemoteNext
<1> QED BY <1>1, <1>2, PTL DEF RemoteSpec

LEMMA OneSyncAtATime ==
  ASSUME DdnsInv
  PROVE  Cardinality({c \in Syncers : ~Step(c, "idle")}) <= 1
<1> DEFINE active == {c \in Syncers : ~Step(c, "idle")}
<1>1. \A c, d \in active : c = d
  BY DEF DdnsInv, FlagInv, Step
<1>2. CASE active = {}
  BY <1>2, FS_EmptySet
<1>3. CASE active # {}
  <2>1. PICK c : c \in active
    BY <1>3
  <2>2. active = {c}
    BY <1>1, <2>1
  <2>3. Cardinality(active) = 1
    BY <2>2, FS_Singleton
  <2> QED BY <2>3
<1> QED BY <1>2, <1>3

(* A result without an error is true, syncs do not overlap, and an alert    *)
(* tells the number of failures in a row, whatever is dropped, restarted or *)
(* written late.  (sync_inner, sync_record, update_failure_count)           *)
THEOREM SyncsTellTheTruth == RemoteSpec => []SyncedIsTrue
<1>1. DdnsInv => SyncedIsTrue
  <2> SUFFICES ASSUME DdnsInv PROVE SyncedIsTrue
    OBVIOUS
  <2>1. ASSUME NEW c \in Syncers, Step(c, "count"), sync[c].ok,
               NEW n \in {DomainsOf(c)[i] : i \in DOMAIN DomainsOf(c)}
        PROVE  zone[<<KindOf(c), n>>] = sync[c].ip \/ <<KindOf(c), n>> \in tardy
    <3>1. SyncOK(sync[c], zone, tardy) /\ sync[c].at = "count"
      BY <2>1 DEF DdnsInv, SyncsOK, Step
    <3>2. NamesOf(sync[c]) \in Seq(Domains)
      BY <3>1, SyncParts DEF SyncOK
    <3>3. DomainsOf(c) = NamesOf(sync[c]) /\ KindOf(c) = Head(sync[c].todo)
      BY DEF DomainsOf, KindOf, NamesOf
    <3>4. PICK i \in DOMAIN NamesOf(sync[c]) : n = NamesOf(sync[c])[i]
      BY <2>1, <3>3
    <3>5. i \in 1..Len(NamesOf(sync[c]))
      BY <3>2, <3>4
    <3>6. TrueOf(sync[c], n, zone, tardy)
      BY <2>1, <3>1, <3>4, <3>5 DEF SyncOK
    <3> QED BY <3>3, <3>6 DEF TrueOf
  <2> DEFINE active == {c \in Syncers : ~Step(c, "idle")}
  <2>2. Cardinality(active) <= 1
    BY OneSyncAtATime
  <2>3. (active # {} => syncing) /\ (active = {} => ~syncing \/ abandoned)
    BY DEF DdnsInv, FlagInv, Step
  <2>4. abandoned \/ (\E c \in Syncers : Step(c, "count")) \/ failureCounts = failing
    BY DEF DdnsInv, CountsInv, Step
  <2> QED BY <2>1, <2>2, <2>3, <2>4 DEF SyncedIsTrue
<1> QED BY <1>1, DdnsInvAlways, PTL

-----------------------------------------------------------------------------
(* All parts.                                                               *)
LEMMA PartsTyped ==
  ASSUME HubInv, ApduInv, CallInv, CellInv, DdnsInv, RoutingInv
  PROVE  /\ HubTypeOK /\ ApduTypeOK /\ CallTypeOK /\ CellTypeOK /\ DdnsTypeOK
         /\ RoutingTypeOK
<1>1. HubTypeOK /\ CellTypeOK
  BY DEF HubInv, CellInv
<1>2. ApduTypeOK
  BY DEF ApduInv, SessionsOK, ArbiterOK, LinesOK, SessionType, ApduTypeOK
<1>3. CallTypeOK
  <2>1. /\ voice \in [Paths -> Voices] /\ lastCall \in 0..MaxVoice
        /\ voiceLock \in Phones \cup {"free"} /\ voiceAsks \in 0..MaxVoiceAsks
        /\ spoken \subseteq 1..MaxVoice
        /\ rows \in Seq(CallRowType) /\ Len(rows) <= MaxRows
        /\ tracked \in [Paths -> [id : 0..MaxRows, answered : BOOLEAN]]
        /\ phone \in [Phones -> PhoneType]
    BY DEF CallInv, VoiceTypes, LogTypes
  <2>2. ASSUME NEW p \in Phones
        PROVE  /\ phone[p].op \in {"none", "dial", "answer", "hangup", "hangupAll", "list"}
               /\ phone[p].step \in {"rest", "look", "act", "row", "track", "log"}
               /\ phone[p].path \in Paths /\ phone[p].no \in 0..MaxVoice
               /\ phone[p].id \in 0..MaxRows
               /\ \A c \in phone[p].seen : c.path \in Paths /\ c.no \in 0..MaxVoice
    BY <2>1 DEF PhoneType, ShownType
  <2> QED BY <2>1, <2>2 DEF CallTypeOK, CallRowType
<1>4. DdnsTypeOK
  <2>1. ASSUME NEW c \in Syncers
        PROVE  /\ sync[c] \in SyncType
               /\ sync[c].at \in {"read", "list", "put", "count"} => sync[c].todo # << >>
               /\ sync[c].at \in {"list", "put"} => sync[c].left # << >>
    BY DEF DdnsInv, SyncsOK, SyncOK
  <2>2. WorldOK /\ DdnsCountsOK
    BY DEF DdnsInv
  <2> QED BY <2>1, <2>2 DEF SyncType, WorldOK, DdnsCountsOK, DdnsTypeOK
<1>5. RoutingTypeOK
  <2>1. RouterOK
    BY DEF RoutingInv
  <2>2. ASSUME NEW e \in Routed
        PROVE  /\ route[e].step \in {"none", "context", "rules", "sends", "over", "lost"}
               /\ route[e].kind \in RoutedKinds /\ route[e].only \in Rules \cup {NoRule}
               /\ route[e].plan \in Schemes /\ route[e].left \subseteq Rules
               /\ route[e].todo \subseteq Targets /\ rowsOf[e] \subseteq RowType
    BY <2>1 DEF RouterOK, RouteType
  <2> QED BY <2>1, <2>2 DEF RouterOK, RowType, RowStatuses, LaterType, RoutingTypeOK
<1> QED BY <1>1, <1>2, <1>3, <1>4, <1>5

AreaOK == area \in Areas

(* The queue of Remote behaves as the queue does alone, so that what is     *)
(* proved of NotificationQueue is true of Remote: it implements it.         *)
THEOREM RemoteRunsTheQueue == RemoteSpec => Spec
<1>1. RemoteInit => Init
  BY DEF RemoteInit
<1>2. [RemoteNext]_<<area, vars, hubLife, ddns, simCard, callLog, simRecords, routing,
                     cellScan>> => [Next]_vars
  BY DEF RemoteNext
<1> QED BY <1>1, <1>2, PTL DEF RemoteSpec, Spec

(* RemoteTypeOK: the variables of all parts keep their types, in the one    *)
(* that acts and in those that rest.                                        *)
THEOREM PartsKeepTheirTypes == RemoteSpec => []RemoteTypeOK
<1>1. RemoteInit => AreaOK
  BY DEF RemoteInit, AreaOK
<1>2. AreaOK /\ [RemoteNext]_<<area, vars, hubLife, ddns, simCard, callLog, simRecords,
                                routing, cellScan>> => AreaOK'
  BY DEF RemoteNext, AreaOK
<1>3. RemoteSpec => []AreaOK
  BY <1>1, <1>2, PTL DEF RemoteSpec
<1>4. RemoteSpec => []TypeOK
  BY RemoteRunsTheQueue, TypeCorrect, PTL
<1>5. /\ AreaOK /\ TypeOK /\ SimTypeOK
      /\ HubInv /\ ApduInv /\ CallInv /\ CellInv /\ DdnsInv /\ RoutingInv
      => RemoteTypeOK
  BY PartsTyped DEF RemoteTypeOK, AreaOK
<1> QED BY <1>3, <1>4, <1>5, SimTypesAlways, HubInvAlways, ApduInvAlways, CallInvAlways,
           CellInvAlways, DdnsInvAlways, RoutingInvAlways, PTL
=============================================================================
