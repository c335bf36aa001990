# SimAdmin: a TLA+ model of the device service

SimAdmin is a daemon that manages the cellular modem of a small Linux device: a
Rust process (tokio, many worker threads) with a SQLite database, a JSON
configuration, an HTTP interface and a web frontend. It receives SMS, forwards
events to notification channels, keeps the data connection up, manages eSIM
profiles, runs automation, updates itself, and can be managed by a SimAdminHub,
to which it keeps a WebSocket session. The Hub, ModemManager, NetworkManager,
lpac, the DNS providers and the modem are programs of their own. They are
external here, modelled from what the code in `src/` sends to them and does with
their answers.

Contents: 1 Inventory, 2 Modules, 3 Runs, 4 Findings and known limits, 5 Proofs,
6 Plan, 7 Not modelled.

## 1. Inventory

| Component | Source (under `src/`) | State it keeps | Operations | Hard parts |
|---|---|---|---|---|
| Notification queue | `backend/src/notification.rs`, `notification_queue.rs`, `db.rs` | `notification_queue`, `notification_logs` | direct delivery, enqueue, worker tick, claim, send, mark, operator's retry / delete / clear | overlapping tasks, marks that test no status, a limiter that checks and then sends, a stop while "sending" |
| Routing rules | `notification.rs`, `crates/simadmin-notify`, `ota.rs`, `device_network.rs` | settings, log rows, `notification_status`, `last_notified_version` | match, quiet hours, send or queue, tell unmatched events | settings edited, and other events routed, while a send is awaited |
| Command ledger | `crates/simadmin-agent/src/lib.rs`, `hub_agent.rs` | `command_ledger`, `agent_outbox` | accept, execute, finish, report, refuse, open | resends, lost acks, restarts, a runtime replaced under its tasks |
| Agent session and outbox | the same, sync columns of `db.rs` | `agent_outbox`, `delivered_items`, `agent_dead_letters`, `hub_instance_id` | session start, business tick, flush, retry tick, ack, error | three stores written one after the other, change of Hub, refused items |
| Hub fallback | `hub_agent.rs`, `notification.rs`, `db.rs` | `hub_notification_events`, `HubRuntimeStatus` | queue event, ack, fallback tick, SessionGuard, apply_config | three tasks, a stale list, a late offline report, stops after the claim |
| Hub settings | `hub_agent.rs` | `HubConfig`, two locks, generation, runtime and fallback tasks, mDNS publisher, `AgentConfig` | save, provision, unbind, apply_config, register | requests dropped at any await, aborted runtimes that still run, secrets of a former Hub |
| Cellular control | `modem_manager.rs`, `handlers.rs`, `serial.rs` | modem state, data switch (twice), airplane, autoconnect, restart flag, watchdog's counters | data switch, airplane, roaming, APN, restart, register, profile switch, watchdog, start | what is read before the lock is stale behind it; the radio cycle takes no lock |
| SMS listener | `sms_listener.rs`, `db.rs` | `sms_messages`, scans, delayed deletes | signal, poll, scan, store, delete, rebind | signal and scan meet; object numbers are given again |
| Calls | `modem_manager.rs`, `handlers.rs`, `db.rs` | `active_calls`, `call_history` | dial, answer, hang up, hang up all, list | nobody listens to the modem; paths of AT lines are reused |
| SIM records | `modem_manager.rs`, `handlers.rs`, `db.rs` | `own_number_cache`, `smsc_cache`, `esim_euicc_cache`, `esim_profile_cache` | listing, SIM info, background refresh, manual entries, rename, delete | identity and data are read at different times |
| Cell list | `modem_manager.rs` | none | qmicli, GetCellInfo, mmcli and AT merged | the answers are of different moments and lack fields |
| Automation, status reports | `automation/`, `device_status.rs` | tasks, log, minutes and times in memory | tick, evaluate, run, log, report | a run is remembered when it ends; authority moves between Hub and device |
| Configuration, backup | `config.rs`, `backup.rs` | `AppConfig`, `config.json`, tables, snapshots | setters, save, restore, clear | two stores, a file truncated in place |
| OTA update | `ota.rs` | staging directory, installed files | upload, validate, apply, cancel | several files replaced one after the other |
| eSIM, lpac | `esim.rs`, `handlers.rs` | lpac tree and lock, profiles, notifications | repair; enable, download, notify | rename, probe and roll-back; calls that act after their timeout |
| System events | `system_event.rs`, `system_event_monitor.rs` | alarm counters, login failures | sample, emit | hysteresis, windows, cool-down |
| DDNS | `device_network.rs` | running flag, last addresses, failure counts | loop, sync, reset | requests dropped with the flag set, answers that come late |
| SIM sessions | `crates/simadmin-device-runtime` | QMI client id, channel, arbiter | open, APDU, close, release, retry | late answers accepted by kind only |
| Authentication | `auth.rs`, `crates/simadmin-auth` | password hash, sessions | set up, log in, log out | sequential |
| SMS core, protocol crates, AT/MBIM, frontend, scripts | see `PROJECT.json` | little | parsing, I/O, presentation | not state machines, or not reached |

How they interact. An event (an SMS from the listener, a system event, a result
of DDNS or automation, a version, a status report) enters `NotificationSender`.
If the device is managed by a Hub, events are written to
`hub_notification_events` and the agent is woken; SMS are sent from
`sms_messages`, and are pushed locally at once when the Hub is offline. The
agent's session moves rows through `agent_outbox` to the Hub; its `message_ack`
marks them synced and, for an event the Hub did not handle, calls back into
`NotificationSender`. Without a session for long enough the fallback task does
so. A local delivery goes to the channels directly or through
`notification_queue`. Hub commands come the other way: session, ledger,
execution task, outbox. Requests of the user, of the Hub and the watchdog meet in
the modem behind `DBUS_LOCK`. Backup and OTA end in a restart of the service.

What each component is exposed to is in the `hazards` of `PROJECT.json`, line by
line, with the properties that would notice.

## 2. Modules

| Module | Models | Checked by | Proved in |
|---|---|---|---|
| `NotificationQueue` | a channel's deliveries and their queue | `queue_drains`, `remote` | `NotificationQueue_proofs` |
| `CommandOutcome` | what the agent promises of a command (abstract) | through `CommandLedger` | through `CommandLedger_proofs` |
| `CommandLedger` | commands over link, ledger, outbox and tasks | `command_link` | `CommandLedger_proofs` |
| `AgentLink` | items from the device database to a Hub that may change | `link_move` | `AgentLink_proofs` |
| `HubFallback` | who pushes an event, Hub or device | `fallback_handover` | `HubFallback_proofs` |
| `CellularControl` | everybody who moves the modem | `cellular_*` (3) | `CellularControl_proofs` |
| `SmsIngest` | messages from the modem's store to the tables | `sms_ingest` | `SmsIngest_proofs` |
| `Schedules` | the automation loop and the report loop | `schedules`, `schedules_period` | `AgentLink_proofs` |
| `ConfigBackup`, `OtaUpdate`, `LpacTree`, `EsimProfiles`, `Alarms` | settings and restore, updates, repair of lpac, eSIM profiles, alarms | composed in `Maintenance` | `Maintenance_proofs` |
| `HubLifecycle`, `Ddns`, `ApduSession`, `CallLog`, `SimRecords`, `Routing`, `CellScan` | what runs for a Hub, dynamic DNS, sessions on the SIM, calls, SIM caches, rules and channels, the list of cells | composed with `NotificationQueue` in `Remote` | `Remote_proofs` (`Routing` in `NotificationQueue_proofs`) |

**Composition.** `Maintenance` and `Remote` put parts side by side. Where parts
meet, they step together: in `Maintenance` updates and restorations interleave,
and the restart at the end of an update stops both. Where they share no state, a
product of their states would show nothing a sum does not: a variable `area`,
fixed in the initial state, says which part moves, and the others keep their
initial values. All initial states of the moving part are there; the others' are
narrowed to one. The initial values of the resting parts satisfy their
invariants, so that each invariant is checked in its own area.

Four modules end where another begins, and keep its part abstract. `CommandLedger`
and `AgentLink` share the outbox: the first leaves open when an envelope is sent,
the second models attempt counts, flushes and retries exactly. `HubFallback` ends
where a local delivery begins (`routed`); `Routing` begins there, and leaves what
it could not send to `NotificationQueue`.

### NotificationQueue
A row is identified with the delivery that may create it. `row` is the table,
`task` the tasks spawned by `run_queue_worker` with the `attempt_count` they
loaded, `direct` the delivery made while an event is routed, `logged` the success
entries inside the rate-limit window. Each database call or await of
`process_notification_queue_item` is an action: `Claim` / `ClaimLost` (the
compare-and-set of `mark_notification_queue_sending`), `ChannelGone`, `Deferred`,
`StartSend`, `SendSucceeds`, `MarkSent`, `RecordSuccess`, `SendFails`,
`SendFailsForGood`. Only the claim tests the status; the other marks overwrite it,
as in `db.rs`. Time is abstract: a row becomes due, an entry leaves the window
(which covers the cleanup of the log by size). `DbFaults` lets any write of a
task fail (the code logs and goes on).

### CommandLedger and CommandOutcome
An action is a whole message in `handle_server`: `Refuse`, `AcceptNew`,
`AcceptRunning`, `AcceptSettled`, each ending in a flush that may fail.
`AcceptNew` is the transaction of `accept_command`, the flush and the spawn, in
this order, so that a failing flush leaves a running row and no task. The
execution task is `Execute` / `ExecuteFails` / `ExecuteExpired`, `Record`
(`finish_command`), `Report` (`enqueue_command_result`) and `StoreFails`.
`OpenStore` is the update of `AgentStore::open`; `Restart` also stops the tasks,
`ReplaceRuntime` (a second `apply_config`) does not. `CommandOutcome` is the
promise: one action at most, one outcome for good, and nothing else told.

### AgentLink
`status`, `delivered`, `outbox` (with `sent` for `attempt_count > 0`) and `dead` are
the four places where an item leaves traces; `known` is the saved
`hub_instance_id`. A session with a new Hub starts with `ClearDelivered`,
`ResetSync`, `AdoptHub`; an accepting ack is `AckMarksSynced`,
`AckMarksDelivered`, `AckRemoves`; the session may end after each. A failed flush
sends a part and marks nothing. The envelopes of one business tick are queued in
one step. Status batches, `config_sync`, `binding_sync` and registration are not
in this module.

### HubFallback
`sync`, `fallback` and `old` are the event table; `online` and `since` the shared
status; `envelope` the flag an envelope was made with; `agent` where
`handle_message_ack` is between its database calls; `due` and `task` the fallback
task's list and the event it delivers; `guards` the detached tasks of dropped
SessionGuards. `Restart` is a restart, or an `apply_config` that replaces both
tasks.

### CellularControl
`radio`, `profile` and `stuck` are the modem and NetworkManager's profile;
`dataOff`, `dataConfig`, `autoconnect`, `airplane` and `running` the code's flags in
memory and configuration. `job` is what each of the requests, the start's task and
the watchdog does, and `lock` who holds `DBUS_LOCK`: a job does one step per call
of the modem and per flag, in the handler's order, and holds the lock where
`with_serial` does. The watchdog's tick (`Watch`) has the branches of
`data_connection_watchdog` with their counters (`seen`, `missing`) and cool-downs
(`cool`); its radio cycle runs without the lock. A modem that is changing its state
(`stuck`) is waited for and then not switched off, except by the watchdog, which
forces it with AT+CFUN=4. Requests may be cancelled by their clients at awaits, and
the process restarts.

### SmsIngest
`store` is what the modem holds by object number, `listener` the one task that
finds the modem, scans, reads and stores; `signals` waits in its stream.
The order of the three duplicate checks of `process_sms_path` and of store, forward
and delayed delete is kept. A message without a timestamp has its path in its
marker; one with a timestamp is looked for a second time under its parts
(`SameSecond`), before it is stored. ModemManager may be restarted and number anew; the modem may come back
under another path.

### Schedules
The clock counts half minutes. `auto` and `report` are the two loops with the
entries they have yet to evaluate, `runs` the detached runs, `logs` the table,
`marked` and `due` what the loops remember in memory. A loop that is ready to
evaluate does so before more time passes: the code's sleep is 30 s and evaluation
takes far less, while a report takes as long as it likes. The lists to evaluate are
sets, taken in the order of the configuration. The names of its specification are
its own (`SchedulesSpec`, `link` for the Hub's link), as its proofs stand beside those
of `AgentLink`, for whose Hub these loops stand in.

### Maintenance: ConfigBackup, OtaUpdate, LpacTree, EsimProfiles, Alarms
`ConfigBackup` has a thread per request; a setter changes `memory` under the lock
and then saves under another (`save`, `write`); a restore writes a snapshot, cleans
the directory up, imports, replaces. `OtaUpdate` unpacks an upload part by part in the
order of the package, so that a stop may leave a partial web directory, which
`Validated` takes, as the code does; it replaces the binary, the web directory
(removed and copied), the meta file, and clears the staging, a step each. `LpacTree` follows a candidate from download to probe, with the two renames
and the roll-back. `EsimProfiles` has a step per lpac call; a call that timed out
may act later. `Alarms` compares the incremental counters of `AlarmCounter` and
the trimmed list of login failures with a definition over the whole history.

### Remote: HubLifecycle, Ddns, ApduSession
`HubLifecycle` has `save_hub_settings`, `provision` and unbinding step by step
through `provisioning` and `lifecycle` locks, `apply_config` with what it stops and
starts, and each runtime up to its registration; an aborted runtime goes on until
its next await. The Hub's command to unbind (`Commands`, `Obeys`) saves the unbound
settings, sleeps and then calls `unbind`, in a task that outlives the runtime. `Ddns` syncs one domain after the other; the provider may write
without an answer, or after it was due. `ApduSession` is one user's connection to
qmi-proxy each: requests out, answers in, in order, also when the session has
stopped to wait; a closed connection's requests are `stray`. `LeavesOpen` is the
function without retries when its APDU cannot be built. (That it keeps its client id
as well is left out: ids are not in the model.)

### Remote: CallLog, SimRecords, Routing, CellScan
`CallLog` has the modem's calls (`voice`) and the requests step by step under
`DBUS_LOCK`, with `active_calls` and the table. In `SimRecords` lpac reads the card
in the slot (`chip`), ModemManager tells the SIM it uses (`sim`) later; a viewer
reads, waits and writes. Numbers and centres come from the SIM ModemManager shows or,
by an AT command, from the SIM the modem uses, which may be another one meanwhile. The
rows that a live listing told, and that nothing has touched since, are `fresh`; who
writes a row that was read before a change takes it out of `fresh`. `Routing` has a
task per event, which fixes settings at its start and awaits each send; `rowsOf` are
the log rows of that routing and `later` those that the queue's worker adds. An answer
may be lost and the operator may retry, both of which send again (`again`). `CellScan`
asks qmicli, ModemManager, mmcli and AT in the code's order; a field of a record is the
cell it is said of, so that a wrong field shows. `QmiBand` falls back to the serving
cell's band as the parser does.

## 3. Runs

Bounds of the checking are named in the cfg; `Limit`, `BatchLimit`, `MaxAttempts`,
`MaxMessages`, `MaxFiles`, `MaxTries`, `Attempts`, `MaxExchanges`, the watchdog's
`...After` and the alarm's limits are the code's constants made small.

| Run | Instance | Distinct states | Shows |
|---|---|---|---|
| `remote` | `Remote`: 1 row and 2 tasks with retries, restarts, failing writes; 2 Hubs, 2 callers, 3 saves; 2 domains, 3 troubles; 2 SIM users, 2 channels; 2 calls; 2 cards, 3 profiles; 2 events, 2 rules, 2 channels, 4 sets of settings; 3 cells | 1 945 524 | `DeliveryBound`, `ExclusiveClaim`, `OutcomeIsFinal`; `SecretsStayHome`, `LifecycleAgrees`; `SyncedIsTrue`; `SessionsKeepApart`; `CallsTrue`; `ListingTrue`, `RecordsOwn`; `RoutedAsPlanned`; `CellsTold` |
| `queue_drains` | 2 rows, a window of 1, 1 restart, channel flaps, fair | 47 694 | `QueueDrains` |
| `command_link` | 1 command, 2 receipts, 1 lost session, 1 restart or replacement, store faults, fair | 265 430 | `AtMostOnce`, `OneOutcome`; refinement `ImplementsOutcome`; `ResultsArrive` |
| `link_move` | 1 SMS, 1 refused item, 2 Hubs, 2 lost sessions, 2 moves, fair | 239 786 | `SyncedIsHeld`, `SmsReachesHub` |
| `fallback_handover` | 2 events, 1 lost session, 1 restart, fair | 278 046 | `RoutedOnce`, `SettledIsPushed`, `EventIsPushed` |
| `cellular_overlap` | 2 requests of any of 14 kinds, watchdog, start; 2 requests and faults together | 1.4 million | `SwitchAgrees`, `RadioOffHasReason` |
| `cellular_recovers` | 1 request, 1 fault, fair | 103 000 | `CellularSettles` |
| `cellular_user_off` | data switch, watchdog, start | violated | `UserOffHolds` |
| `sms_ingest` | 2 messages, one untimed, 3 of messages and faults together, fair | 120 621 | `IngestedOnce`, `DeletedIsStored`, `StoredAndCleared` |
| `schedules` | a fixed and a periodic entry in each loop, 2.5 minutes, 1 fault | 4.0 million | `FixedOnce`, `PeriodAfterEnd` |
| `schedules_period` | 1 periodic task, no fault | violated | `OncePerPeriod` |
| `maintenance` | 2 threads, 2 sections, 2 tables, 2 packages; 3 candidates; 2 profiles, 3 notifications; 7 samples; 6 failed logins | 4.4 million | `FileIsCurrent`, `SnapshotCovers`, `UpdateResumable`, `TreeNotLost`, `NotificationsKept`, `AlarmsExact` |

The type invariants are `TypeOK` and `RemoteTypeOK`; in four modules `TypeOK`
(`SchedulesTypeOK`) is a conjunct of `SyncedIsHeld`, `SwitchAgrees`, `IngestedOnce` and
`FixedOnce`.

**Why the bounds are enough.** Two tasks on one row are what a claim has to keep
apart, and two retries let a row be retried while a task of its first retry is
still under way; rows meet only in the limiter and in the batch, for which two
rows and a batch of one suffice. Two receipts of a command cover each order of a
resend; commands share only the outbox, a set. Three envelopes per item allow a
resend after each of two moves. Two events make a due list that goes stale while
the first is delivered. Two requests beside the watchdog cover each pair that can
meet at the lock; a third would wait behind it. The counters of the watchdog are
small, but each threshold is reached, passed and reset. Two messages can take each
other's number once. Two and a half minutes have a named minute with both ticks in
it, and a period after a run that is longer than a tick. Two threads and two
sections show a lost update of the settings; `MaxFiles = 1` makes the cleanup of
snapshots happen at once. Two Hubs and a third save show a secret on its way
there and back. Two events overlap in every await of a route. Two cells share a
physical identity, two a channel, one channel is in no table. With one SMS
`link_move` does not show what 100 refused SMS do to newer ones (hazard at
`db.rs:991`).

All cfgs say `CHECK_DEADLOCK FALSE`: requests and faults are bounded, and a system
that nobody asks anything may rest.

**Symmetry** is used in `remote`, `maintenance` and `cellular_overlap` (users,
threads, profiles, requests), which check no liveness; no definition tells these
elements apart.

### Fairness
*Queue:* weak fairness of the worker, its tasks, the direct deliveries and the
passing of time: the worker loops on an interval, tokio polls every ready task,
channel clients have timeouts. The operator and the channel owe nothing; a send may
always fail.
*Commands:* weak fairness of the reconnect (`run_forever`), of messages, tasks and
the Hub's processing; sessions end a bounded number of times.
*AgentLink:* strong fairness of the two timers that other work can disable again
and again (arms of one `select!`), and of a Hub that is sent items again and again:
it accepts in the end, without which no agent could promise delivery.
*HubFallback:* timers and tasks run, a Hub that is sent an event again and again
answers; no fairness makes a session start.
*CellularControl:* strong fairness of each process's steps, as the lock (a fair
tokio mutex) is taken and given back by others; weak fairness of the watchdog's
loop, its cool-downs and the modem's reappearance; strong fairness of a modem that
is not stuck, which a cycle may interrupt: it finds its network in the end.
*SmsIngest:* weak fairness of the listener and the delayed deletes, strong fairness
of the poll, which other arms of the `select!` may overtake.

## 4. Findings and known limits

Two runs are expected to fail; `PROJECT.json` quotes the text each contradicts.

1. `UserOffHolds`: the watchdog reads the user's switch before it waits for the
   lock, and repairs a modem that is still connected without reading it: data comes
   back after the user switched it off.
2. `OncePerPeriod`: a periodic task is remembered by a log row written when its run
   has ended, so that a run longer than a tick is started again.

The models contain more that the code does and that its properties name as
exceptions. Where a text of the repository says otherwise, it is named.

*Queue and routing.* The rate limit counts sends that are finished, so that
concurrent ones pass together. A row in "sending" survives a restart and is loaded
by nobody. A send whose answer is lost, and an operator's retry of it, reach the
channel again. The queue's worker adds rows of its own to `notification_logs` beside
the failed row of the routing; a message whose send was only queued keeps
`notification_status` "failed" after the queue has sent it; a stop leaves it pending. A version that only
the queue sent, or whose state could not be saved, is announced again. Two rules
that pick one channel send twice, by design.
*Hub.* A command executed before is refused as "expired before execution" on a late
resend. A flush that fails after the acceptance is committed loses the execution.
Hub and device may both push an event. A dropped `apply_config` leaves `active_key`
set with nothing running, and the same settings saved again return early; likewise
a failed store or mDNS start is not retried. For the 3 s between the Hub's command to
unbind and the call of `unbind` the settings say unbound, while what ran goes on
(`LifecycleAgrees` excepts exactly a caller that is `Scheduled`). Overlapping saves can leave settings
that are not those that run; provisioning can overwrite settings saved between its
read and its write; restored Hub settings are not applied before a restart.
*Cellular.* A data switch that is dropped while its event is emitted does not sync
autoconnect.
*Calls.* A row stays open if the other side hangs up. Dialling one number or
answering one call twice makes a second row and orphans the first. A reused AT line
gives a later call an old record. `ATA` answered by "NO CARRIER" counts as answered.
*SIM records.* A refresh caches under the identity read before a SIM change and may
overwrite a manual entry. The values of the modem, and any SMS's centre, overwrite
manual entries. A forced refresh is skipped while another runs. After a swap a
cached listing gives the new SIM's number to the old card's active profile, a
listing that could not read the eUICC attributes profiles to the last card. A
download is attributed to the card listed last. While ModemManager still shows the
former SIM, the modem answers AT+CNUM and AT+CSCA for the new one, and the answer is
kept under the former; `RecordsOwn` excepts such a SIM (`doubt`).
*eSIM list.* A cached listing or a rename that read a profile's row before a deletion
writes the row again afterwards, and the profile is listed although it is gone. Here
the code disagrees with `docs/changelog.md:22-23`, by which deleted profiles do not
reappear: the deletion clears the rows, but nothing orders it with a listing that
is under way. `ListingTrue` names this as its exception, row by row; it says nothing
of such a row until a live listing that nothing crossed.
*Cells.* A cell with the serving cell's physical identity on another frequency is
marked serving (qmicli); without the serving one in the list the first is. A
reselection between two questions mixes two cells in one record. Neighbours may be
listed twice, by ModemManager and by AT; one without a channel gets the serving
band, and so does one of qmicli whose channel has no band label.
*Maintenance.* An upload that a stop cuts off while the web directory is unpacked, or
that is applied before it is unpacked, passes `validate_ota_package`, which only asks
whether the directory exists; what is installed then is a binary and a meta file that
agree beside an incomplete web directory, with nothing staged to apply again
(`halved`). A restored component that is not among the default ones is in no
snapshot (compare `docs/changelog.md:263`). A download may take another's
new profile for its own; a refused one binds its matching id to the first
profile without an SM-DP+ address; the previous profile's disable notification may
be left silently. lpac outlives its timeout while the lock is free. Repairs that are
stopped leave `.lpac-new-` and `.lpac-old-` directories. A restart forgets an active
alarm.
*DDNS.* A dropped request leaves the running flag set until the next start;
`last_ipv4` is set even when the update failed; a late create may leave a second
record; a recovery after failures raises no event.
*SIM sessions.* A channel that is opened after the session stopped to wait is never
closed; the function that does not retry keeps its client id when the open is
refused, and channel and client id when the APDU cannot be built after the open.

## 5. Proofs

TLAPS proves, for all values of the constants that satisfy the named assumptions
(`ConstantsAssumption`, `HubAssumption`, `SimAssumption` and so on, in the module that
declares them):

*NotificationQueue.* `TypeCorrect`.
`DeliveriesBounded`: `DeliveryBound` is not inductive, since it says nothing of what
may still be sent. `DeliveryBudget` counts that: acknowledged sends, plus the direct
delivery still to come, plus one for a claimable row, plus the tasks in flight,
never exceed one more than the operator's retries; each action moves a unit between
these terms or drops it. The cardinality of the tasks in flight is followed by
lemmas on adding and removing a slot. `ClaimsExclusive` adds that an unretried row
has one holder at most, and shows "sending" or the operator's cancel while it has
one. `OutcomesFinal` is an action property and follows from it: no holder is left
to overwrite an outcome. These are theorems of `NotificationQueue!Spec`;
`RemoteRunsTheQueue` shows that `RemoteSpec` implements it, a step of another area
being a stutter, so that they hold of the composition as well.

*CommandLedger.* `TypeCorrect`; `ExecutesAtMostOnce` from `CommandsInOrder`, the life
of a command: no task without a row, one task per command, no effect while the task
is only spawned. It is inductive with the type invariant. `OutcomesAgree` needs it
for the report of a task. `KeepsPromise` is the refinement: initial states map to
initial states and every step to a step of `CommandOutcome` or a stutter, under the
three invariants.

*HubFallback.* `TypeCorrect`. `RoutesOnce` and `SettledEventsArePushed` from one
inductive invariant: a claimed event has one owner (`ClaimInv`), what was claimed is
routed, in somebody's hands, or lost (`AccountInv`), the Hub's answers agree with
what it did (`TakenInv`), and an ack that settles is backed by a push
(`SettleInv`).

*AgentLink.* `SyncedItemsAreHeld`: `SyncedIsHeld` says nothing of answers under way.
`LoopInv`: only a session with the Hub that `known` names is in its loop, and outside
the loop nothing is on the wire; `AnswerInv`: an accepting answer under way is of an
item this Hub holds, and an ack being handled has marked its item; `ChangeInv`: the
order of the steps at a change of Hub. Without `ChangeInv` a stop between
`ClearDelivered` and `AdoptHub` would leave an SMS synced for the new Hub.

*Schedules* (in `AgentLink_proofs`; theorems of `SchedulesSpec`). `FixedEntriesStartOnce`:
that no minute was missed follows from what holds within one. An entry without an
excuse is enabled, and if its loop came by since the minute began it is still to be
evaluated or was started (`TaskInv`, `RuleInv`); at the end of the minute nothing is left
to evaluate and the loop did come by, by the half minute it sleeps. A minute is marked
exactly when the entry was started in it, unless the service restarted (`MarkInv`).
`PeriodsFollowEnds`: unless its end is forgotten, the log has a row of the task at that
end or later, and `due` is the end of a rule (`PeriodInv`). The cleanup keeps this because
the rows are in the order of time and it takes the front (`CleanupTakesTheFront`,
`CleanupKeepsLatest`).

*SmsIngest.* `MessagesIngestedOnce` and `DeletedWasStored`. A row of a message with a
timestamp is found again by its marker under no path (`OnceInv`), whatever number the
message has by then; markers and delayed deletes stand for stored messages
(`StoredInv`). The numbers of messages are any naturals: `rows` counts in `Nat`.

*CellularControl.* `ConfigurationIsObeyed`: unless two switches crossed, flag and
configuration agree with no switch between its two writes, or disagree with exactly
one, which saved last (`SwitchInv`). `CyclesLeaveRadioOn`: a radio that a cycle put
off has a task at its `dark` step (`DarkInv`), so that it is not off once all are
idle. Both need the type of the lock: held only inside a section.

*Maintenance.* Each part has its own invariant, kept by its steps and untouched by the
others', except that a restart stops the settings' and the update's requests. `TreeIsNotLost` (`LpacInv`): the old tree is under
another name only from the rename to the probe. `UpdatesResume` (`ResumeInv`): while
nobody disturbs the staging directory, it holds what the update validated, and each
installed part is of it; or the package was applied in part (`LeftHalf`). `FileHoldsMemory` (`SavingInv`): the text being written is the
memory, because whoever changes the memory waits for the saves that write. `ReplacedIsInSnapshot` (`CoverInv`): each
default component that a restore has still to replace is in a snapshot as it is now,
or was changed since; the cleanup by number keeps the newest, among them the
restore's own. `NotificationsAreKept` (`EsimInv`): what was on the card before a
request's work is in its snapshot, what its operation wrote is not, and bears its
name; what is left of a delivery holds all that is due, or its failure will be told.
`AlarmsAreExact` (`AlarmInv`, `LoginsInv`): `AlarmsExact` says of all samples so far whether
the condition is on, while a counter only has the run of bad or good samples at their
end; `RunOf` ties the counter to that run, and the run decides whether
the definition changes at the next sample. The list of failed logins is the newest
failures, and each that was dropped is out of the window of the last (`WindowInv`), so
that its length is the number of failures in the window whenever an alert is decided
(`AlertsInv`). `PartsKeepTheirTypes`: `TypeOK`, with the profiles that a card may hold
(`CardInv`) and a bound on the tries of a delivery (`TriesInv`).

*Remote.* A resting part keeps its invariant, so each theorem about `RemoteSpec` comes
from the steps of one part.
- `SecretsKeepToTheirHub` (`SecretsInv`): a token waiting to be applied is of the Hub
  that is applied. `WhatRunsIsAskedFor` (`RuntimeInv`, `KeyInv`, `ApplyInv`): all
  runtimes but the one of this generation are aborted; from the reset on, what runs
  becomes what `active_key` asks for; the settings are applied, or one caller is on its
  way with them, or a Hub's command sleeps, or they met others or an error (`unapplied`). The lock is held by exactly the caller past it.
- `SessionsAreApart`: requests and answers of a connection are numbered and in order
  (`OrderInv`), an answer of the awaited kind is therefore the awaited one, also when
  late answers come first; no two claims (work, closing request, answer under way)
  on one channel (`ApartInv`), an open channel belongs to who claims it (`OwnerInv`),
  or leaked (`LeakInv`), in one of the three ways `leaked` names.
- `HistoryTellsTheCalls`: `CallsTrue` speaks of rows and entries (an entry has an open
  row of its own; a row of a ModemManager call that ended as answered is of one that
  was active), not of how many rows a call has. What breaks it is a request that still holds an old entry. `CallInv` says what each request may know at
  each step (`JobsOK`), of which call a row and an entry are (`RowsOK`, `EntriesOK`), and
  that no two requests are about to track one row (`TracksApart`).
- `CellsAreToldApart` (`MixInv`): at each stage of the mixing, what a record has so far
  is of one cell, or is what the named exception allows.
- `RecordsAreOwn` (`ViewersOK`): what a request read of a SIM and has not written yet is
  of the identity it will write it under, or the identity is in `doubt`.
- `ListingsTellTheCard` (`ListInv`): the fresh rows are true of the card (`RowsTrue`), and
  the SIM that ModemManager shows is, if its row is fresh, the enabled profile or on no
  inserted card. This is only inductive with what a task holds that nothing
  crossed (`ReadsTrue`): what it read of card or rows is still true, a new name is on the
  card before it is in a row, and a deleted row's profile is not on the card.
- `SyncsTellTheTruth` (`DdnsInv`): of a synchronisation without an error so far, the
  domains before those it has left hold the address (`DoneSoFar`); the flag is that of
  the one that runs, or of one that was dropped (`FlagInv`); a count equals the failures
  in a row, or lacks the one about to be counted (`CountsInv`).
- `EventsAreRoutedAsPlanned` (`RoutingInv`, in `NotificationQueue_proofs`): the rows of an
  event are those of the rules it is done with, and of the channels the present rule is
  done with (`RowsSoFar`); pushes and waiting rows of a channel do not exceed the rules
  that served it (`Served`), the lost answers and the retries; what the queue holds or
  wrote follows a row of failure (`QueueOK`); two versions are only raised when the first was lost or
  not delivered (`AnnouncedInv`). The sets involved grow by one element at a time, which
  lemmas on cardinalities follow.
- `PartsKeepTheirTypes`: `RemoteTypeOK`, from the invariants of the parts, with the
  queue's part from `RemoteRunsTheQueue`, and for the SIM records that one background
  refresh at most is under way (`RefreshInv`) and that the enabled profile of a card is on
  it (`EnabledInv`).

The proofs asked for these corrections, none of which changed what the runs reach:
`CellAssumption` says that the null value is no tower, channel, band or identity,
`SimAssumption` that "absent" is no card, `AuthorsAssumption` that no request has the
name of another author of notifications; `RoutingAssumption` takes finite sets of rules
and channels, `DdnsAssumption` at least one address; `SmsIngest`'s rows count in `Nat`;
`HubLifecycle` and `ApduSession` write their extended functions out, and `Ddns` the list
of the kinds that are on; `Alarms` takes the front of its list off, as the code's loop
does, where it had a filter, `EsimProfiles` says without a cardinality that one
profile at most is enabled, and `Schedules` takes what is left to evaluate as a set, old
rows off the front, and a task as due when all its rows are old enough.

**Only model-checked.**
- All liveness (`QueueDrains`, `ResultsArrive`, `SmsReachesHub`, `EventIsPushed`,
  `CellularSettles`, `StoredAndCleared`): the prover handles neither fairness nor
  ENABLED.

Every other property of a passing run is stated by a theorem.

No module declares a RECURSIVE operator.

## 6. Plan

Modelled, in the order of what a user would lose: messages and commands, the
connection, the settings and the installation, then records and lists. Proved, in
the order of what the invariants ask for: what each module promises. What section 5
leaves to TLC needs fairness.

## 7. Not modelled

- **SMS core** (`crates/simadmin-sms-core`): the backend does not reach its
  assembler; parts are assembled by ModemManager (`SmsIngest.Assemble`).
  Estimation and verification codes are text functions.
- **Authentication**: sequential checks over one table.
- **Templates and the senders of the channels**: formatting and one HTTP request.
- **Radio mode, bands, cell lock, USSD, operator scans**: one call each, without
  state in the program.
- **Backup**: the archive format, merging of rows, cleanup by age, S3 and WebDAV,
  sessions after a restore of the passwords. **Configuration**: migrations of older
  formats. **Database**: retention by age, conversations and statistics.
- **AT and MBIM transports**, the encoding of frames, the fate of client ids.
  (`ApduSession` models the crate's QMI sessions, which the backend does not call.)
- **SIM records under partial identities** (`imsi:`, `operator:` keys).
- **WLAN** (nmcli): one call per request. **DDNS**: the choice of an interface.
- **Routing**: failing writes and the cleanup of its log.
- **Releases**: download and choice of a version.
- **HTTP handlers** without state, **frontend**, **installation scripts**, **modem
  recovery assets**, **protocol crates**, **small helpers**.

`PROJECT.json` lists each with its reason.
