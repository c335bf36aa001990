----------------------------- MODULE SmsIngest -----------------------------
(***************************************************************************)
(* How received messages get from the modem's store into sms_messages and  *)
(* to the notification queue.  One listener task reads them: at an Added   *)
(* signal (live), and by scans of everything the modem holds (reconcile),  *)
(* at its start, every 15 seconds, on request and when the modem comes     *)
(* back under another path.  A row's marker keeps a message from being     *)
(* stored twice.  Each message that was dealt with is deleted from the     *)
(* modem five seconds later by a detached task that knows only its path.   *)
(*                                                                         *)
(* ModemManager numbers the objects of messages as it creates them and     *)
(* starts again from 0 when it is restarted.  It is external.              *)
(***************************************************************************)
EXTENDS Naturals, FiniteSets

CONSTANTS
  Msgs,      \* messages, each with another marker
  Untimed,   \* those without a timestamp: their marker holds the path
  Legacy,    \* those whose sender and text are in a row without a marker
  MaxPath,   \* bound on the numbers of objects
  MaxFaults, \* bound on faults, restarts, requested scans and user deletions
  MaxEvents  \* bound on messages and faults together

ASSUME ConstantsAssumption ==
  /\ IsFiniteSet(Msgs)
  /\ Untimed \subseteq Msgs
  /\ Legacy \subseteq Msgs
  /\ MaxPath \in Nat
  /\ MaxFaults \in Nat
  /\ MaxEvents \in Nat

VARIABLES
  store,     \* the message of each object of the modem
  partial,   \* objects of which parts are still missing
  next,      \* number of the next object
  path,      \* object path of the modem: it has one of two
  listener,  \* what the listener task does
  signals,   \* Added signals in its stream
  resync,    \* a scan was requested
  deletes,   \* detached tasks that will delete an object
  rows,      \* rows of each message in sms_messages
  marks,     \* their markers
  forwarded, \* how often each message was given to the notification queue
  seen,      \* history: messages that arrived
  stored,    \* history: messages that were stored
  purged,    \* history: messages whose row the user deleted
  deleted,   \* history: messages deleted from the modem
  mishit,    \* history: messages deleted in the place of another
  faults

device  == <<store, partial, next, path>>
table   == <<rows, marks>>
history == <<seen, stored, purged, deleted, mishit>>
vars    == <<device, listener, signals, resync, deletes, table, forwarded, history, faults>>

-----------------------------------------------------------------------------
None  == "none"
NoPath == MaxPath + 1
Paths == 0..MaxPath
Modems == {1, 2}

ASSUME NoneAssumption == None \notin Msgs

Objects == {p \in Paths : store[p] # None}

Idle == [at |-> "find", modem |-> 1, todo |-> {}, reading |-> NoPath, msg |-> None,
         live |-> FALSE, forward |-> FALSE, back |-> "listen"]

TypeOK ==
  /\ store \in [Paths -> Msgs \cup {None}]
  /\ partial \subseteq Objects
  /\ next \in 0..MaxPath + 1
  /\ path \in Modems
  /\ listener \in [at : {"find", "scan", "read", "store", "listen"}, modem : Modems,
                   todo : SUBSET Paths, reading : 0..NoPath, msg : Msgs \cup {None},
                   live : BOOLEAN, forward : BOOLEAN, back : {"listen", "find"}]
  /\ listener.msg = None <=> listener.at # "store"
  /\ signals \subseteq Paths
  /\ resync \in BOOLEAN
  /\ deletes \subseteq [modem : Modems, object : Paths, msg : Msgs]
  /\ rows \in [Msgs -> Nat]
  /\ marks \subseteq Msgs \X (0..NoPath)
  /\ forwarded \in [Msgs -> Nat]
  /\ {m \in Msgs : rows[m] > 0} \subseteq stored
  /\ faults \in 0..MaxFaults

Init ==
  /\ store = [p \in Paths |-> None]
  /\ partial = {}
  /\ next = 0
  /\ path = 1
  /\ listener = Idle
  /\ signals = {}
  /\ resync = FALSE
  /\ deletes = {}
  /\ rows = [m \in Msgs |-> 0]
  /\ marks = {}
  /\ forwarded = [m \in Msgs |-> 0]
  /\ seen = {} /\ stored = {} /\ purged = {} /\ deleted = {} /\ mishit = {}
  /\ faults = 0

Fault ==
  /\ faults < MaxFaults
  /\ faults + Cardinality(seen) < MaxEvents
  /\ faults' = faults + 1

-----------------------------------------------------------------------------
(* The modem. *)

\* The stream exists from the end of the initial scan until the loop breaks.
Streaming == listener.at \in {"listen", "read", "store", "scan"} /\ listener.back = "listen"
               /\ listener.modem = path

Arrive(m) ==
  /\ m \notin seen /\ next <= MaxPath
  /\ faults + Cardinality(seen) < MaxEvents
  /\ seen' = seen \cup {m}
  /\ store' = [store EXCEPT ![next] = m]
  /\ partial' \in {partial, partial \cup {next}}
  /\ next' = next + 1
  /\ signals' = IF Streaming THEN signals \cup {next} ELSE signals
  /\ UNCHANGED <<path, listener, resync, deletes, table, forwarded, stored, purged, deleted,
                 mishit, faults>>

Assemble ==
  /\ partial # {}
  /\ partial' = {}
  /\ UNCHANGED <<store, next, path, listener, signals, resync, deletes, table, forwarded, history,
                 faults>>

\* ModemManager is restarted and numbers what the modem holds from 0, in any
\* order; the modem may get another path.
Renumber ==
  /\ Fault
  /\ LET n == Cardinality(Objects) IN
       /\ \E new \in [0..MaxPath -> Msgs \cup {None}] :
            /\ {new[p] : p \in 0..MaxPath} \ {None} = {store[p] : p \in Objects}
            /\ \A p \in 0..MaxPath : new[p] = None <=> p >= n
            /\ store' = new
       /\ next' = n
  /\ partial' = {}
  /\ path' \in Modems
  /\ UNCHANGED <<listener, signals, resync, deletes, table, forwarded, history>>

\* The detached task: it deletes what the path names now.  A path of a modem
\* that is gone deletes nothing.
Delete(d) ==
  /\ deletes' = deletes \ {d}
  /\ \/ /\ d.modem = path /\ d.object \in Objects
        /\ store' = [store EXCEPT ![d.object] = None]
        /\ partial' = partial \ {d.object}
        /\ deleted' = deleted \cup {store[d.object]}
        /\ mishit' = IF store[d.object] = d.msg THEN mishit ELSE mishit \cup {store[d.object]}
        /\ UNCHANGED faults
     \/ /\ ~(d.modem = path /\ d.object \in Objects)
        /\ UNCHANGED <<store, partial, deleted, mishit, faults>>
     \/ Fault /\ UNCHANGED <<store, partial, deleted, mishit>>
  /\ UNCHANGED <<next, path, listener, signals, resync, table, forwarded, seen, stored, purged>>

-----------------------------------------------------------------------------
(* The listener. *)

Keep == UNCHANGED <<device, deletes, table, forwarded, history>>

\* The loop breaks: the stream with its signals is dropped.
Break == [Idle EXCEPT !.modem = listener.modem]

ScanOf(modem, forward, back) ==
  [Idle EXCEPT !.at = "scan", !.modem = modem, !.todo = Objects, !.forward = forward,
               !.back = back]

\* A modem is found: what it holds is stored and not forwarded.  The match rule
\* comes first, the stream after the scan.
Find ==
  /\ listener.at = "find"
  /\ listener' = ScanOf(path, FALSE, "listen")
  /\ signals' = {}
  /\ UNCHANGED <<resync, faults>> /\ Keep

\* scan_current_modem_or_rebind: under another path everything is scanned
\* without forwarding and the listener binds again.
Rescan(forward) ==
  listener' = IF listener.modem = path THEN ScanOf(path, forward, "listen")
              ELSE ScanOf(path, FALSE, "find")

Poll ==
  /\ listener.at = "listen"
  /\ Rescan(TRUE)
  /\ UNCHANGED <<signals, resync, faults>> /\ Keep

Resync ==
  /\ listener.at = "listen" /\ resync
  /\ Rescan(FALSE)
  /\ resync' = FALSE
  /\ UNCHANGED <<signals, faults>> /\ Keep

\* A scan takes the objects it listed one after the other.
ScanNext ==
  /\ listener.at = "scan"
  /\ \/ \E p \in listener.todo :
          /\ \A q \in listener.todo : p <= q
          /\ listener' = [listener EXCEPT !.at = "read", !.todo = @ \ {p}, !.reading = p]
     \/ /\ listener.todo = {}
        /\ listener' = IF listener.back = "find" THEN Break
                       ELSE [Idle EXCEPT !.at = "listen", !.modem = listener.modem]
  /\ UNCHANGED <<signals, resync, faults>> /\ Keep

Live(p) ==
  /\ listener.at = "listen" /\ p \in signals
  /\ listener' = [listener EXCEPT !.at = "read", !.reading = p, !.live = TRUE]
  /\ signals' = signals \ {p}
  /\ UNCHANGED <<resync, faults>> /\ Keep

\* After a message: back to the scan or to the loop.
Resumed == [listener EXCEPT !.at = IF listener.live THEN "listen" ELSE "scan",
                            !.reading = NoPath, !.msg = None, !.live = FALSE]

\* received_sms_at: nothing is read of an object that is gone or not whole.
Read ==
  /\ listener.at = "read"
  /\ listener' =
       IF listener.reading \in Objects \ partial
       THEN [listener EXCEPT !.at = "store", !.msg = store[listener.reading]]
       ELSE Resumed
  /\ UNCHANGED <<signals, resync, faults>> /\ Keep

Mark(m) == <<m, IF m \in Untimed THEN listener.reading ELSE NoPath>>

\* Mutant: the marker is looked up only for live messages.
KnownLive(m) == (listener.live /\ Mark(m) \in marks) \/ (~listener.live /\ m \in Legacy)

\* The checks of process_sms_path; only a scan looks for older rows.
Known(m) == Mark(m) \in marks \/ (~listener.live /\ m \in Legacy)

\* A row of this sender, text and second: a message without a timestamp, which a scan
\* takes to be of now, was stored in the same second.
SameSecond(m) == ~listener.live /\ m \in Untimed /\ rows[m] > 0

ScheduleDelete ==
  deletes' = deletes \cup {[modem |-> listener.modem, object |-> listener.reading,
                            msg |-> listener.msg]}

Forwards == listener.live \/ listener.forward

\* Mutant: a message that is known is left in the modem.
StoreLeavingKnown ==
  /\ listener.at = "store"
  /\ LET m == listener.msg IN
       \/ Known(m) /\ UNCHANGED <<table, forwarded, stored, faults, deletes>>
       \/ /\ ~Known(m)
          /\ rows' = [rows EXCEPT ![m] = @ + 1]
          /\ marks' = marks \cup {Mark(m)}
          /\ stored' = stored \cup {m}
          /\ forwarded' = [forwarded EXCEPT ![m] = IF Forwards THEN @ + 1 ELSE @]
          /\ ScheduleDelete
          /\ UNCHANGED faults
  /\ listener' = Resumed
  /\ UNCHANGED <<device, signals, resync, seen, purged, deleted, mishit>>

\* Mutant: the object is deleted although the row could not be written.
StoreOrNot ==
  /\ listener.at = "store"
  /\ LET m == listener.msg IN
       \/ Known(m) /\ UNCHANGED <<table, forwarded, stored, faults>>
       \/ Fault /\ UNCHANGED <<table, forwarded, stored>>
  /\ ScheduleDelete
  /\ listener' = Resumed
  /\ UNCHANGED <<device, signals, resync, seen, purged, deleted, mishit>>

Store ==
  /\ listener.at = "store"
  /\ LET m == listener.msg IN
       \/ /\ Known(m) \/ SameSecond(m)
          /\ ScheduleDelete
          /\ UNCHANGED <<table, forwarded, stored, faults>>
       \/ /\ ~Known(m)
          /\ rows' = [rows EXCEPT ![m] = @ + 1]
          /\ marks' = marks \cup {Mark(m)}
          /\ stored' = stored \cup {m}
          /\ forwarded' = [forwarded EXCEPT ![m] = IF Forwards THEN @ + 1 ELSE @]
          /\ ScheduleDelete
          /\ UNCHANGED faults
       \/ Fault /\ UNCHANGED <<table, forwarded, stored, deletes>>   \* the database fails
  /\ listener' = Resumed
  /\ UNCHANGED <<device, signals, resync, seen, purged, deleted, mishit>>

-----------------------------------------------------------------------------
\* The stream ends or a scan finds no modem.
Lose ==
  /\ Fault
  /\ listener.at = "listen"
  /\ listener' = Break
  /\ UNCHANGED <<signals, resync>> /\ Keep

\* An eSIM switch or the user asks for a scan.
RequestScan ==
  /\ Fault
  /\ resync' = TRUE
  /\ UNCHANGED <<listener, signals>> /\ Keep

\* The service stops: its tasks and the stream are gone.
Restart ==
  /\ Fault
  /\ listener' = Idle
  /\ signals' = {} /\ resync' = FALSE /\ deletes' = {}
  /\ UNCHANGED <<device, table, forwarded, history>>

\* The user deletes a message.
Purge(m) ==
  /\ Fault
  /\ rows[m] > 0
  /\ rows' = [rows EXCEPT ![m] = 0]
  /\ marks' = {k \in marks : k[1] # m}
  /\ purged' = purged \cup {m}
  /\ UNCHANGED <<device, listener, signals, resync, deletes, forwarded, seen, stored, deleted,
                 mishit>>

Listen == Find \/ Poll \/ Resync \/ ScanNext \/ Read \/ Store \/ \E p \in Paths : Live(p)

Next ==
  \/ \E m \in Msgs : Arrive(m) \/ Purge(m)
  \/ \E d \in deletes : Delete(d)
  \/ Assemble \/ Renumber \/ Listen \/ Lose \/ RequestScan \/ Restart

Spec == Init /\ [][Next]_vars

\* The listener runs, its interval fires, the delayed tasks run, and the modem
\* gets the missing parts of a message.
Fairness ==
  /\ WF_vars(Find \/ Resync \/ ScanNext \/ Read \/ Store \/ \E p \in Paths : Live(p))
  /\ SF_vars(Poll)
  /\ WF_vars(\E d \in deletes : Delete(d))
  /\ WF_vars(Assemble)

FairSpec == Spec /\ Fairness

-----------------------------------------------------------------------------
\* A message with a timestamp has one row and is given to the notification
\* queue at most once, whatever reads it: its signal, a poll, a scan after the
\* modem was renumbered or after a restart; unless the user deleted the row
\* while the modem still held the message.  The state is well typed.
\* (process_sms_path, sms_marker)
IngestedOnce ==
  /\ TypeOK
  /\ \A m \in Msgs \ Untimed : rows[m] <= 1 /\ (m \in purged \/ forwarded[m] <= 1)

\* What is deleted from the modem was stored before, except a message that
\* took the number of another one (mishit) and one whose sender and text are in
\* an older row.  (schedule_sms_delete)
DeletedIsStored == deleted \subseteq stored \cup mishit \cup Legacy

\* A message the modem received is stored in the end, by its signal or by a scan,
\* also when its parts come late and after faults of the database; and what is
\* stored leaves the modem, whose store would fill up, although the delayed delete
\* may fail, be lost, or miss.  (start_sms_listener, process_sms_path)
StoredAndCleared ==
  /\ \A m \in Msgs : m \in seen ~> m \in stored \cup mishit \cup Legacy
  /\ \A m \in Msgs : m \in stored \cup Legacy /\ (\E p \in Paths : store[p] = m)
                        ~> \A p \in Paths : store[p] # m
=============================================================================
