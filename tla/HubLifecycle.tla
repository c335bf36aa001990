---------------------------- MODULE HubLifecycle ----------------------------
(***************************************************************************)
(* What runs for a Hub follows its settings: a runtime that registers and  *)
(* keeps a session, a task for the local fallback, or an mDNS publisher by *)
(* which a Hub finds the device.  Settings are saved, provisioned by a Hub *)
(* and unbound by requests that overlap and may be dropped at any await,   *)
(* and unbound by a command of the Hub, which takes effect 3 s later.      *)
(* apply_config stops what runs and starts what the settings ask for,      *)
(* under a lock of its own; a runtime it aborts ends at its next await.    *)
(*                                                                         *)
(* The process may start with any store that a stop can have left behind,  *)
(* so that a restart is another behaviour.                                 *)
(***************************************************************************)
EXTENDS Naturals, Functions

CONSTANTS
  Hubs,      \* the Hubs, by their address
  Offered,  \* the settings users save
  Callers,   \* requests
  MaxSaves   \* bound on requests, drops and failing writes

NoHub       == "no hub"
HubSettings == [enabled : BOOLEAN, url : Hubs \cup {NoHub}, fallback : BOOLEAN]

ASSUME HubAssumption ==
  /\ NoHub \notin Hubs
  /\ Offered \subseteq HubSettings
  /\ {"free", "start"} \cap Callers = {}
  /\ MaxSaves \in Nat

VARIABLES
  hub,          \* the settings in ConfigManager
  caller,       \* what each request does, and the start of the process
  provisioning, \* who holds this lock
  lifecycle,    \* who holds this one
  activeKey, generation,
  runtime,      \* runtime_task, by its generation; 0: none
  fallback,     \* there is a fallback_task
  publisher,    \* mDNS is published
  tasks,        \* runtimes that have not ended, by generation
  saved,        \* the AgentConfig in the store
  agentShown,   \* agent_id in HubRuntimeStatus
  cut,          \* history: the last application was dropped, or its start failed
  unapplied,    \* history: the last settings were not applied by themselves
  orphaned,     \* history: an aborted runtime was not waited for
  saves

running == <<activeKey, generation, runtime, fallback, publisher>>
hubLife == <<hub, caller, provisioning, lifecycle, running, tasks, saved, agentShown, cut,
             unapplied, orphaned, saves>>

-----------------------------------------------------------------------------
Appliers == Callers \cup {"start"}

\* An AgentConfig: token is the secret that new_agent_config made for a Hub,
\* agent the identity and enrollment the token a Hub gave out.
Configs  == [url : Hubs, token : Hubs, agent : Hubs \cup {NoHub}, enrollment : Hubs \cup {NoHub}]
NoConfig == [url |-> NoHub]
NoKey    == [url |-> "none"]

IdleCaller == [at |-> "idle", want |-> NoKey, token |-> NoHub, ask |-> "save", config |-> NoConfig]

HubTypeOK ==
  /\ hub \in HubSettings
  /\ caller \in [Appliers -> [at : {"idle", "order", "queue", "lock", "join", "ends", "reset",
                                   "announce", "forget"},
                             want : HubSettings \cup {NoKey}, token : Hubs \cup {NoHub},
                             ask : {"save", "provision", "unbind", "command"},
                             config : Configs \cup {NoConfig}]]
  /\ {provisioning, lifecycle} \subseteq Appliers \cup {"free"}
  /\ activeKey \in HubSettings \cup {NoKey}
  /\ {generation, runtime} \subseteq Nat
  /\ {fallback, publisher, cut, unapplied, orphaned} \subseteq BOOLEAN
  /\ DOMAIN tasks \subseteq 1..generation
  /\ \A g \in DOMAIN tasks :
       tasks[g] \in [config : Configs, at : {"wait", "answered", "tell", "write"}, aborted : BOOLEAN]
  /\ saved \in Configs \cup {NoConfig}
  /\ agentShown \in Hubs \cup {NoHub}
  /\ saves \in 0..MaxSaves

\* initialize: the settings of the file are applied before there are requests.
HubInit ==
  /\ hub \in Offered
  /\ caller = [c \in Appliers |-> IF c = "start"
                                   THEN [IdleCaller EXCEPT !.at = "lock", !.want = hub]
                                   ELSE IdleCaller]
  /\ provisioning = "free" /\ lifecycle = "free"
  /\ activeKey = NoKey /\ generation = 0 /\ runtime = 0
  /\ fallback = FALSE /\ publisher = FALSE
  /\ tasks = << >>
  /\ saved \in {NoConfig} \cup {k \in Configs :
                 k.token = k.url /\ k.agent \in {k.url, NoHub} /\ k.enrollment = NoHub}
  /\ agentShown = NoHub
  /\ cut = FALSE /\ unapplied = FALSE /\ orphaned = FALSE
  /\ saves = 0

Started        == caller["start"] = IdleCaller
Pay            == saves < MaxSaves /\ saves' = saves + 1
CallerAt(c, s) == caller[c].at = s
MoveTo(c, s)   == caller' = [caller EXCEPT ![c].at = s]

\* The settings of this request are set and not yet applied.
Applying(c) == caller[c].at \in {"lock", "join", "ends", "reset", "announce"}

\* A Hub has commanded to unbind: this sleeps, or waits for provisioning.
Scheduled(c) == CallerAt(c, "queue") /\ caller[c].ask = "command"

\* Requests that unbind
Unbinding == {"unbind", "command"}

-----------------------------------------------------------------------------
(* save_hub_settings, provision, unbind *)

\* set_hub_config changes the memory also when the file cannot be written;
\* the request ends there with an error.
Sets(c, s) ==
  /\ hub' = s
  /\ \/ /\ caller' = [caller EXCEPT ![c].at = "lock", ![c].want = s]
        /\ unapplied' = (\E d \in Appliers \ {c} : Applying(d))
     \/ /\ caller' = [caller EXCEPT ![c] = IdleCaller]
        /\ unapplied' = TRUE

SaveSettings(c, s) ==
  /\ CallerAt(c, "idle") /\ Started
  /\ Pay
  /\ Sets(c, s)
  /\ UNCHANGED <<provisioning, lifecycle, running, tasks, saved, agentShown, cut, orphaned>>

\* A Hub offers its token, or the user unbinds: these wait for each other.
Asks(c, what, h) ==
  /\ CallerAt(c, "idle") /\ Started
  /\ Pay
  /\ caller' = [caller EXCEPT ![c] = [IdleCaller EXCEPT !.at = "queue", !.ask = what, !.token = h]]
  /\ UNCHANGED <<hub, provisioning, lifecycle, running, tasks, saved, agentShown, cut, unapplied,
                 orphaned>>

\* validate_provision_request
Unbound == hub.enabled /\ hub.url = NoHub /\ agentShown = NoHub

Provision(c) ==
  /\ CallerAt(c, "queue") /\ caller[c].ask = "provision" /\ provisioning = "free"
  /\ IF Unbound
     THEN Sets(c, [hub EXCEPT !.enabled = TRUE, !.url = caller[c].token])
     ELSE caller' = [caller EXCEPT ![c] = IdleCaller] /\ UNCHANGED <<hub, unapplied>>
  /\ provisioning' = IF caller'[c] = IdleCaller THEN "free" ELSE c
  /\ UNCHANGED <<lifecycle, running, tasks, saved, agentShown, cut, orphaned, saves>>

\* A Hub commands hub_unbind in a session.  Its task outlives the runtime.
Commands(c) ==
  /\ CallerAt(c, "idle") /\ Started
  /\ \E g \in DOMAIN tasks : ~tasks[g].aborted /\ tasks[g].config.agent # NoHub
  /\ Pay
  /\ caller' = [caller EXCEPT ![c] = [IdleCaller EXCEPT !.at = "order", !.ask = "command"]]
  /\ UNCHANGED <<hub, provisioning, lifecycle, running, tasks, saved, agentShown, cut, unapplied,
                 orphaned>>

\* The settings say unbound at once; a task of its own calls unbind after 3 s.
Obeys(c) ==
  /\ CallerAt(c, "order")
  /\ hub' = [hub EXCEPT !.enabled = TRUE, !.url = NoHub]
  /\ \/ MoveTo(c, "queue") /\ UNCHANGED unapplied
     \/ caller' = [caller EXCEPT ![c] = IdleCaller] /\ unapplied' = TRUE
  /\ UNCHANGED <<provisioning, lifecycle, running, tasks, saved, agentShown, cut, orphaned, saves>>

Unbind(c) ==
  /\ CallerAt(c, "queue") /\ caller[c].ask \in Unbinding /\ provisioning = "free"
  /\ Sets(c, [hub EXCEPT !.enabled = TRUE, !.url = NoHub])
  /\ provisioning' = IF caller'[c] = IdleCaller THEN "free" ELSE c
  /\ UNCHANGED <<lifecycle, running, tasks, saved, agentShown, cut, orphaned, saves>>

\* After apply_config, unbind clears the identity that is shown.
Forget(c) ==
  /\ CallerAt(c, "forget")
  /\ agentShown' = NoHub
  /\ provisioning' = "free"
  /\ caller' = [caller EXCEPT ![c] = IdleCaller]
  /\ UNCHANGED <<hub, lifecycle, running, tasks, saved, cut, unapplied, orphaned, saves>>

-----------------------------------------------------------------------------
(* apply_config *)

\* It returns: the lock is free, and who called it goes on.
Returns(c) ==
  /\ lifecycle' = "free"
  /\ caller' = [caller EXCEPT ![c] = IF @.ask \in Unbinding THEN [@ EXCEPT !.at = "forget"]
                                                   ELSE IdleCaller]
  /\ provisioning' = IF caller[c].ask = "provision" THEN "free" ELSE provisioning

\* Mutant: settings of the same Hub count as the same.
SameHub(c) == activeKey.url = caller[c].want.url /\ caller[c].ask # "provision"

\* lifecycle_key, and no token
Same(c) == activeKey = caller[c].want /\ caller[c].ask # "provision"

Enter(c) ==
  /\ CallerAt(c, "lock") /\ lifecycle = "free"
  /\ IF Same(c)
     THEN Returns(c) /\ UNCHANGED <<running, tasks>>
     ELSE /\ lifecycle' = c
          /\ generation' = generation + 1
          /\ runtime' = 0
          /\ IF runtime = 0
             THEN tasks' = tasks /\ MoveTo(c, "ends")
             ELSE tasks' = [tasks EXCEPT ![runtime].aborted = TRUE] /\ MoveTo(c, "join")
          /\ UNCHANGED <<provisioning, activeKey, fallback, publisher>>
  /\ UNCHANGED <<hub, saved, agentShown, cut, unapplied, orphaned, saves>>

\* The aborted runtime has ended.  One that an earlier, dropped application
\* aborted is not waited for.
Joined(c) ==
  /\ CallerAt(c, "join")
  /\ generation - 1 \notin DOMAIN tasks
  /\ MoveTo(c, "ends")
  /\ UNCHANGED <<hub, provisioning, lifecycle, running, tasks, saved, agentShown, cut, unapplied,
                 orphaned, saves>>

\* Aborting the fallback task, and then waiting for its end
StopFallback(c) ==
  /\ CallerAt(c, "ends")
  /\ fallback' = FALSE
  /\ IF fallback THEN UNCHANGED caller ELSE MoveTo(c, "reset")
  /\ IF fallback
     THEN UNCHANGED <<publisher, activeKey>>
     ELSE publisher' = FALSE /\ activeKey' = caller[c].want
  /\ UNCHANGED <<hub, provisioning, lifecycle, generation, runtime, tasks, saved, agentShown, cut,
                 unapplied, orphaned, saves>>

\* Mutant: the identity of another Hub is kept.
ReviseUrl(k, c) ==
  IF k = NoConfig
  THEN [url |-> caller[c].want.url, token |-> caller[c].want.url, agent |-> NoHub,
        enrollment |-> caller[c].token]
  ELSE [k EXCEPT !.url = caller[c].want.url]

\* load_config or new_agent_config, and what a new address or token changes
Revise(k, c) ==
  IF k.url # caller[c].want.url
  THEN [url |-> caller[c].want.url, token |-> caller[c].want.url, agent |-> NoHub,
        enrollment |-> caller[c].token]
  ELSE IF caller[c].token # NoHub
       THEN [k EXCEPT !.enrollment = caller[c].token, !.agent = NoHub]
       ELSE k

\* The new status, and what is started before the next await: the fallback
\* task, the publisher, the store.  mDNS and the store may fail.
Reset(c) ==
  /\ CallerAt(c, "reset")
  /\ agentShown' = NoHub
  /\ LET s == caller[c].want
     IN  /\ fallback' = (s.enabled /\ s.fallback)
         /\ CASE ~s.enabled -> Returns(c) /\ cut' = FALSE /\ UNCHANGED <<publisher, saved, saves>>
              [] s.enabled /\ s.url = NoHub ->
                   /\ Returns(c)
                   /\ \/ publisher' = TRUE /\ cut' = FALSE /\ UNCHANGED saves
                      \/ publisher' = FALSE /\ cut' = TRUE /\ Pay
                   /\ UNCHANGED saved
              [] s.enabled /\ s.url # NoHub ->
                   /\ \/ /\ saved' = Revise(saved, c)
                         /\ caller' = [caller EXCEPT ![c].at = "announce", ![c].config = saved']
                         /\ UNCHANGED <<lifecycle, provisioning, cut, saves>>
                      \/ Returns(c) /\ cut' = TRUE /\ Pay /\ UNCHANGED saved
                   /\ UNCHANGED publisher
  /\ UNCHANGED <<hub, activeKey, generation, runtime, tasks, unapplied, orphaned>>

\* The status tells of the identity, and the runtime is spawned.
Announce(c) ==
  /\ CallerAt(c, "announce")
  /\ agentShown' = caller[c].config.agent
  /\ tasks' = [g \in DOMAIN tasks \cup {generation} |->
                 IF g = generation
                 THEN [config |-> caller[c].config, at |-> "wait", aborted |-> FALSE]
                 ELSE tasks[g]]
  /\ runtime' = generation
  /\ cut' = FALSE
  /\ Returns(c)
  /\ UNCHANGED <<hub, activeKey, generation, fallback, publisher, saved, unapplied, orphaned, saves>>

\* The client of a request goes away.  A command has none.
Dropped(c) ==
  /\ ~CallerAt(c, "idle") /\ caller[c].ask # "command"
  /\ Pay
  /\ caller' = [caller EXCEPT ![c] = IdleCaller]
  /\ provisioning' = IF provisioning = c THEN "free" ELSE provisioning
  /\ lifecycle' = IF lifecycle = c THEN "free" ELSE lifecycle
  /\ cut' = (cut \/ lifecycle = c)
  /\ unapplied' = (unapplied \/ Applying(c))
  /\ orphaned' = (orphaned \/ CallerAt(c, "join"))
  /\ UNCHANGED <<hub, running, tasks, saved, agentShown>>

-----------------------------------------------------------------------------
(* AgentRuntime::run_forever and the callbacks of SimAdminExecutor.  An     *)
(* aborted one finishes what it does between two awaits.                    *)

\* The Hub answers: it registers the device or approves it, or opens a session.
Answered(g) ==
  /\ tasks[g].at = "wait" /\ ~tasks[g].aborted
  /\ tasks' = [tasks EXCEPT ![g].at = "answered",
                            ![g].config.agent = tasks[g].config.url,
                            ![g].config.enrollment =
                              IF tasks[g].config.agent = NoHub THEN NoHub ELSE @]
  /\ UNCHANGED <<hub, caller, provisioning, lifecycle, running, saved, agentShown, cut, unapplied,
                 orphaned, saves>>

\* save_config; if it fails, the session ends and the next one starts.
SavesConfig(g) ==
  /\ tasks[g].at = "answered"
  /\ \/ /\ saved' = tasks[g].config
        /\ tasks' = [tasks EXCEPT ![g].at = "tell"]
        /\ UNCHANGED saves
     \/ Pay /\ tasks' = [tasks EXCEPT ![g].at = "wait"] /\ UNCHANGED saved
  /\ UNCHANGED <<hub, caller, provisioning, lifecycle, running, agentShown, cut, unapplied, orphaned>>

\* agent_config_changed: is_current_generation, and then the status
Tells(g) ==
  /\ tasks[g].at = "tell"
  /\ tasks' = [tasks EXCEPT ![g].at = IF g = generation THEN "write" ELSE "wait"]
  /\ UNCHANGED <<hub, caller, provisioning, lifecycle, running, saved, agentShown, cut, unapplied,
                 orphaned, saves>>

Writes(g) ==
  /\ tasks[g].at = "write"
  /\ agentShown' = tasks[g].config.agent
  /\ tasks' = [tasks EXCEPT ![g].at = "wait"]
  /\ UNCHANGED <<hub, caller, provisioning, lifecycle, running, saved, cut, unapplied, orphaned, saves>>

Ended(g) ==
  /\ tasks[g].aborted /\ tasks[g].at # "answered"
  /\ tasks' = Restrict(tasks, DOMAIN tasks \ {g})
  /\ UNCHANGED <<hub, caller, provisioning, lifecycle, running, saved, agentShown, cut, unapplied,
                 orphaned, saves>>

HubNext ==
  \/ \E c \in Callers :
       \/ \E s \in Offered : SaveSettings(c, s)
       \/ \E h \in Hubs : Asks(c, "provision", h)
       \/ Asks(c, "unbind", NoHub)
       \/ Commands(c) \/ Obeys(c)
       \/ Provision(c) \/ Unbind(c) \/ Forget(c)
       \/ Dropped(c)
  \/ \E c \in Appliers : Enter(c) \/ Joined(c) \/ StopFallback(c) \/ Reset(c) \/ Announce(c)
  \/ \E g \in DOMAIN tasks :
       Answered(g) \/ SavesConfig(g) \/ Tells(g) \/ Writes(g) \/ Ended(g)

-----------------------------------------------------------------------------
\* What a device holds or presents for a Hub was made for that Hub: its secret,
\* its identity and the enrollment token, in the store and in each runtime, over
\* any sequence of settings, offers and requests that are cut off.
\* (apply_config, register_or_claim)
SecretsStayHome ==
  \A k \in {saved} \cup {tasks[g].config : g \in DOMAIN tasks} :
    k # NoConfig => {k.token, k.agent, k.enrollment} \subseteq {k.url, NoHub}

\* What runs is what the settings ask for.  There is one runtime at most, and
\* none beside a publisher.  Between two applications, unless one was cut or
\* could not start what it had to: runtime, fallback task and publisher are
\* those of active_key, and the identity shown is the one of the runtime, if no
\* aborted runtime was left to itself.  Settings that no other request and no
\* error met are those that run, except while a Hub's command to unbind sleeps:
\* for these 3 s the settings say unbound and what ran before goes on.
\* (apply_config, save_hub_settings, agent_config_changed, hub_unbind)
LifecycleAgrees ==
  /\ \A g, h \in DOMAIN tasks : tasks[g].aborted \/ tasks[h].aborted \/ g = h
  /\ publisher => runtime = 0
  /\ lifecycle = "free" /\ ~cut /\ activeKey # NoKey =>
       /\ fallback = (activeKey.enabled /\ activeKey.fallback)
       /\ publisher = (activeKey.enabled /\ activeKey.url = NoHub)
       /\ (runtime # 0) = (activeKey.enabled /\ activeKey.url # NoHub)
       /\ runtime # 0 =>
            /\ runtime = generation /\ ~tasks[runtime].aborted
            /\ tasks[runtime].config.url = activeKey.url
            /\ agentShown # NoHub /\ ~orphaned => agentShown = activeKey.url
  /\ ~unapplied /\ ~(\E c \in Appliers : Applying(c) \/ Scheduled(c)) => activeKey = hub
=============================================================================
