---------------------------- MODULE EsimProfiles ----------------------------
(***************************************************************************)
(* Enabling and downloading eSIM profiles.  The eSIM writes a notification *)
(* for the carrier when a profile is installed, enabled, disabled or       *)
(* deleted.  A request notes which notifications are there, has lpac do    *)
(* its work, and then submits those that are new and of its own profile,   *)
(* and removes them from the eSIM.  Each call of lpac is a step: lpac_lock *)
(* serialises them, but not what lies between two of them.                 *)
(***************************************************************************)
EXTENDS Naturals, FiniteSets, Functions

CONSTANTS
  Profiles,
  Jobs,      \* requests
  MaxTries,  \* calls of lpac to enable a profile: one, and up to three more
  MaxNotes,  \* bound on notifications the eSIM writes
  MaxCalls   \* bound on failing calls, deletions, dropped requests, stops

ASSUME EsimAssumption ==
  /\ MaxTries \in Nat \ {0}
  /\ MaxNotes \in Nat \ {0}
  /\ MaxCalls \in Nat

VARIABLES
  card,      \* the state of each profile
  notes,     \* the notifications on the eSIM
  carrier,   \* those the carrier has got
  written,   \* history: all notifications ever written, with their authors
  job,       \* the requests
  late,      \* what lpac processes nobody waits for any more will do
  calls

esim == <<card, notes, carrier, written, job, late, calls>>

-----------------------------------------------------------------------------
NoProfile  == "no profile"
Earlier    == "earlier"   \* the author of what was there at the start
Nobody     == "nobody"    \* of what no request selects
Operations == {"install", "enable", "disable", "delete"}
Numbers    == 1..MaxNotes
Note(n, op, p) == [seq |-> n, op |-> op, profile |-> p]
Notes      == [seq : Numbers, op : Operations, profile : Profiles]

\* A request's operation is its own: no other author has its name.
ASSUME AuthorsAssumption == {Earlier, Nobody} \cap Jobs = {}

\* before = NoSnapshot: the notifications could not be listed before the work.
NoSnapshot == {0}

Waiting == [at |-> "idle", kind |-> "none", profile |-> NoProfile, before |-> {},
            previous |-> {}, present |-> {}, tries |-> 0, rest |-> {}, failed |-> FALSE]

Steps == {"idle", "previous", "before", "check", "work", "look", "scan", "deliver",
          "process", "remove", "done", "gone"}

Enabled == {p \in Profiles : card[p] = "enabled"}
Present == {p \in Profiles : card[p] # "absent"}

EsimTypeOK ==
  /\ card \in [Profiles -> {"absent", "disabled", "enabled"}]
  /\ \A p, q \in Enabled : p = q
  /\ notes \subseteq Notes /\ carrier \subseteq Notes
  /\ \A w \in written : w.note \in Notes /\ w.by \in Jobs \cup {Earlier, Nobody}
  /\ \A j \in Jobs :
       /\ job[j].at \in Steps
       /\ job[j].kind \in {"none", "enable", "download"}
       /\ job[j].profile \in Profiles \cup {NoProfile}
       /\ job[j].before = NoSnapshot \/ job[j].before \subseteq Numbers
       /\ job[j].previous \subseteq Profiles /\ job[j].present \subseteq Profiles
       /\ job[j].tries \in 0..MaxTries
       /\ job[j].rest \subseteq Notes /\ job[j].failed \in BOOLEAN
  /\ late \subseteq {"enable", "install"} \X Profiles
  /\ calls \in 0..MaxCalls

EsimInit ==
  /\ card \in [Profiles -> {"absent", "disabled", "enabled"}]
  /\ \A p, q \in Enabled : p = q
  /\ notes \in {{}} \cup {{Note(1, op, p)} : op \in {"install", "enable"}, p \in Profiles}
  /\ carrier = {}
  /\ written = {[note |-> n, by |-> Earlier] : n \in notes}
  /\ job = [j \in Jobs |-> Waiting]
  /\ late = {}
  /\ calls = 0

Charge == calls < MaxCalls /\ calls' = calls + 1

Is(j, step) == job[j].at = step

StepsTo(j, step) == job' = [job EXCEPT ![j].at = step]

Gone == [Waiting EXCEPT !.at = "gone"]

\* The request ends with nothing to deliver.
GivesUp(j) == job' = [job EXCEPT ![j] = Gone]

-----------------------------------------------------------------------------
(* The eSIM *)

\* A carrier need not have asked for a notification of an operation: any part
\* of what could be written is.
Write(events, by) ==
  \E asked \in SUBSET events :
    LET next == (Cardinality(written) + 1)..(Cardinality(written) + Cardinality(asked))
    IN  /\ next \subseteq Numbers
        /\ \E number \in Bijection(asked, next) :
             LET new == {Note(number[e], e[1], e[2]) : e \in asked}
             IN  /\ notes' = notes \cup new
                 /\ written' = written \cup {[note |-> n, by |-> by] : n \in new}

\* At most one profile is enabled.
Switch(p, by) ==
  /\ card[p] = "disabled"
  /\ card' = [q \in Profiles |-> IF q = p THEN "enabled"
                                 ELSE IF card[q] = "enabled" THEN "disabled" ELSE card[q]]
  /\ Write({<<"enable", p>>} \cup {<<"disable", q>> : q \in Enabled}, by)

Installs(p, by) ==
  /\ card[p] = "absent"
  /\ card' = [card EXCEPT ![p] = "disabled"]
  /\ Write({<<"install", p>>}, by)

\* An lpac process that outlived its timeout, after which the lock was free.
LateEffect(p) ==
  /\ \/ /\ late' = late \ {<<"enable", p>>}
        /\ \/ Switch(p, Nobody)
           \/ card[p] # "disabled" /\ UNCHANGED <<card, notes, written>>
     \/ /\ late' = late \ {<<"install", p>>}
        /\ \/ Installs(p, Nobody)
           \/ card[p] # "absent" /\ UNCHANGED <<card, notes, written>>
  /\ late' # late
  /\ UNCHANGED <<carrier, job, calls>>

\* delete_esim_profile_handler: its notification is for the user to handle.
DeleteProfile(p) ==
  /\ Charge
  /\ card[p] = "disabled"
  /\ card' = [card EXCEPT ![p] = "absent"]
  /\ Write({<<"delete", p>>}, Nobody)
  /\ UNCHANGED <<carrier, job, late>>

-----------------------------------------------------------------------------
(* enable_esim_profile_handler *)

AskEnable(j, p) ==
  /\ Is(j, "idle")
  /\ job' = [job EXCEPT ![j] = [Waiting EXCEPT !.at = "previous", !.kind = "enable",
                                               !.profile = p]]
  /\ UNCHANGED <<card, notes, carrier, written, late, calls>>

\* capture_enabled_profile_iccids; for a download, the list of all profiles.
\* If it cannot be read, no profile was enabled and none will be new.
TakeProfiles(j) ==
  /\ Is(j, "previous")
  /\ \/ job' = [job EXCEPT ![j].at = "before", ![j].previous = Enabled,
                           ![j].present = Present]
        /\ UNCHANGED calls
     \/ /\ job' = [job EXCEPT ![j].at = "before", ![j].present = Profiles]
        /\ Charge
  /\ UNCHANGED <<card, notes, carrier, written, late>>

Begins(kind) == IF kind = "enable" THEN "check" ELSE "work"

\* capture_rsp_notification_sequences
TakeBefore(j) ==
  /\ Is(j, "before")
  /\ \/ job' = [job EXCEPT ![j].at = Begins(job[j].kind), ![j].before = {n.seq : n \in notes}]
        /\ UNCHANGED calls
     \/ /\ job' = [job EXCEPT ![j].at = Begins(job[j].kind), ![j].before = NoSnapshot]
        /\ Charge
  /\ UNCHANGED <<card, notes, carrier, written, late>>

\* enable_esim_profile_for_switch: a profile that is enabled or absent ends the
\* request; a list that cannot be read does not.
Check(j) ==
  /\ Is(j, "check")
  /\ \/ card[job[j].profile] # "disabled" /\ GivesUp(j) /\ UNCHANGED calls
     \/ card[job[j].profile] = "disabled" /\ StepsTo(j, "work") /\ UNCHANGED calls
     \/ StepsTo(j, "work") /\ Charge
  /\ UNCHANGED <<card, notes, carrier, written, late>>

EnableSucceeds(j) ==
  /\ Is(j, "work") /\ job[j].kind = "enable"
  /\ Switch(job[j].profile, j)
  /\ StepsTo(j, "deliver")
  /\ UNCHANGED <<carrier, late, calls>>

\* The call fails, with or without effect, or times out and has its effect
\* later.  Some failures are worth another try, which begins with a look.
EnableFails(j) ==
  /\ Is(j, "work") /\ job[j].kind = "enable"
  /\ Charge
  /\ \E retryable \in BOOLEAN :
       IF retryable \/ job[j].tries > 0
       THEN job' = [job EXCEPT ![j].at = "look",
                               ![j].tries = IF retryable THEN @ + 1 ELSE MaxTries]
       ELSE GivesUp(j)
  /\ \/ UNCHANGED <<card, notes, written, late>>
     \/ Switch(job[j].profile, j) /\ UNCHANGED late
     \/ late' = late \cup {<<"enable", job[j].profile>>} /\ UNCHANGED <<card, notes, written>>
  /\ UNCHANGED carrier

\* retry_enable_profile_after_refresh: enabled all the same, another try, or
\* none left.
Look(j) ==
  /\ Is(j, "look")
  /\ \/ /\ card[job[j].profile] = "enabled"
        /\ StepsTo(j, "deliver")
        /\ UNCHANGED calls
     \/ /\ \/ card[job[j].profile] # "enabled" /\ UNCHANGED calls
           \/ Charge
        /\ IF job[j].tries < MaxTries THEN StepsTo(j, "work") ELSE GivesUp(j)
  /\ UNCHANGED <<card, notes, carrier, written, late>>

-----------------------------------------------------------------------------
(* download_esim_profile_handler *)

AskDownload(j) ==
  /\ Is(j, "idle")
  /\ job' = [job EXCEPT ![j] = [Waiting EXCEPT !.at = "previous", !.kind = "download"]]
  /\ UNCHANGED <<card, notes, carrier, written, late, calls>>

\* lpac's answer names the profile or leaves it to a scan of the list.
DownloadSucceeds(j) ==
  /\ Is(j, "work") /\ job[j].kind = "download"
  /\ \E p \in Profiles :
       /\ Installs(p, j)
       /\ \/ job' = [job EXCEPT ![j].at = "deliver", ![j].profile = p]
          \/ StepsTo(j, "scan")
  /\ UNCHANGED <<carrier, late, calls>>

\* Some profile that was not there before, none if a list could not be read.
Scan(j) ==
  /\ Is(j, "scan")
  /\ \E p \in (Present \ job[j].present) \cup {NoProfile} :
       job' = [job EXCEPT ![j].at = "deliver", ![j].profile = p]
  /\ UNCHANGED <<card, notes, carrier, written, late, calls>>

DownloadFails(j) ==
  /\ Is(j, "work") /\ job[j].kind = "download"
  /\ Charge
  /\ GivesUp(j)
  /\ \/ UNCHANGED <<card, notes, written, late>>
     \/ \E p \in Profiles :
          \/ Installs(p, Nobody) /\ UNCHANGED late
          \/ late' = late \cup {<<"install", p>>} /\ UNCHANGED <<card, notes, written>>
  /\ UNCHANGED carrier

\* The client of a download goes away; a request to enable works in a task of
\* its own, and the delivery does in both.
DownloadDropped(j) ==
  /\ job[j].kind = "download" /\ job[j].at \in {"previous", "before", "work", "scan"}
  /\ Charge
  /\ GivesUp(j)
  /\ UNCHANGED <<card, notes, carrier, written, late>>

-----------------------------------------------------------------------------
(* deliver_new_rsp_notifications *)

New(j) == {n \in notes : n.seq \notin job[j].before}

\* The profile of a download that is not known, if all that was installed
\* meanwhile is one profile.
Inferred(j) ==
  LET installed == {n.profile : n \in {m \in New(j) : m.op = "install"}}
  IN  IF Cardinality(installed) = 1 THEN installed ELSE {}

Target(j) ==
  IF job[j].kind = "download" /\ job[j].profile = NoProfile
  THEN Inferred(j) ELSE {job[j].profile}

\* select_new_rsp_notifications
Selected(j) ==
  IF job[j].kind = "download"
  THEN {n \in New(j) : n.op = "install" /\ n.profile \in Target(j)}
  ELSE {n \in New(j) : \/ n.op = "enable" /\ n.profile \in Target(j)
                       \/ n.op = "disable" /\ n.profile \in job[j].previous}

Expected(j) == \E n \in Selected(j) : n.op # "disable"

\* The answer of the request: failed stands for the event
\* esim.rsp_notification_delivery_failed.
Ends(j, failed) ==
  job' = [job EXCEPT ![j] = [Waiting EXCEPT !.at = "done", !.kind = job[j].kind,
                                            !.profile = job[j].profile, !.failed = failed]]

Deliver(j) ==
  /\ Is(j, "deliver")
  /\ \/ job[j].before = NoSnapshot /\ Ends(j, TRUE) /\ UNCHANGED calls
     \/ job[j].before # NoSnapshot /\ Ends(j, TRUE) /\ Charge
     \/ /\ job[j].before # NoSnapshot /\ Selected(j) = {}
        /\ Ends(j, TRUE)
        /\ UNCHANGED calls
     \/ /\ job[j].before # NoSnapshot /\ Selected(j) # {}
        /\ job' = [job EXCEPT ![j] = [Waiting EXCEPT !.at = "process", !.kind = job[j].kind,
                                         !.profile = job[j].profile,
                                         !.rest = Selected(j), !.failed = ~Expected(j)]]
        /\ UNCHANGED calls
  /\ UNCHANGED <<card, notes, carrier, written, late>>

Current(j) == CHOOSE n \in job[j].rest : \A m \in job[j].rest : n.seq <= m.seq

After(j, failed) ==
  LET rest == job[j].rest \ {Current(j)}
  IN  IF rest = {}
      THEN Ends(j, job[j].failed \/ failed)
      ELSE job' = [job EXCEPT ![j].at = "process", ![j].rest = rest,
                              ![j].failed = @ \/ failed]

Process(j) ==
  /\ Is(j, "process")
  /\ Current(j) \in notes
  /\ carrier' = carrier \cup {Current(j)}
  /\ StepsTo(j, "remove")
  /\ UNCHANGED <<card, notes, written, late, calls>>

\* Mutant: the failure of a submission is not told.
ProcessFailsUntold(j) ==
  /\ Is(j, "process")
  /\ \/ Current(j) \in notes /\ Charge
     \/ Current(j) \notin notes /\ UNCHANGED calls
  /\ carrier' \in {carrier, carrier \cup (notes \cap {Current(j)})}
  /\ After(j, FALSE)
  /\ UNCHANGED <<card, notes, written, late>>

\* lpac reports a failure, or nothing in time; the carrier may have got it.
\* It fails for a notification another request removed.
ProcessFails(j) ==
  /\ Is(j, "process")
  /\ \/ Current(j) \in notes /\ Charge
     \/ Current(j) \notin notes /\ UNCHANGED calls
  /\ carrier' \in {carrier, carrier \cup (notes \cap {Current(j)})}
  /\ After(j, TRUE)
  /\ UNCHANGED <<card, notes, written, late>>

RemoveNote(j) ==
  /\ Is(j, "remove")
  /\ Current(j) \in notes
  /\ notes' = notes \ {Current(j)}
  /\ After(j, FALSE)
  /\ UNCHANGED <<card, carrier, written, late, calls>>

RemoveFails(j) ==
  /\ Is(j, "remove")
  /\ \/ Current(j) \in notes /\ Charge
     \/ Current(j) \notin notes /\ UNCHANGED calls
  /\ notes' \in {notes, notes \ {Current(j)}}
  /\ After(j, TRUE)
  /\ UNCHANGED <<card, carrier, written, late>>

\* The process stops: its tasks and the requests end where they are, the lpac
\* processes go on.
EsimStops ==
  /\ Charge
  /\ \E j \in Jobs : job[j].at \notin {"idle", "done", "gone"}
  /\ job' = [j \in Jobs |-> IF job[j].at \in {"idle", "done"} THEN job[j] ELSE Gone]
  /\ UNCHANGED <<card, notes, carrier, written, late>>

EsimNext ==
  \/ \E p \in Profiles : LateEffect(p) \/ DeleteProfile(p)
  \/ \E j \in Jobs :
       \/ \E p \in Profiles : AskEnable(j, p)
       \/ AskDownload(j)
       \/ TakeProfiles(j) \/ TakeBefore(j) \/ Check(j)
       \/ EnableSucceeds(j) \/ EnableFails(j) \/ Look(j)
       \/ DownloadSucceeds(j) \/ Scan(j) \/ DownloadFails(j) \/ DownloadDropped(j)
       \/ Deliver(j) \/ Process(j) \/ ProcessFails(j) \/ RemoveNote(j) \/ RemoveFails(j)
  \/ EsimStops

-----------------------------------------------------------------------------
\* No notification is lost to the carrier: each that was written is on the eSIM
\* or was submitted; what was there before a request, or is of an operation that
\* is not a request's own, is left to the user; and a request that ends without
\* the event of a failed delivery has submitted and removed what the eSIM wrote
\* when it enabled or installed the profile.  (A download may take another's
\* profile for its own: Scan.)
\* (deliver_new_rsp_notifications, select_new_rsp_notifications)
NotificationsKept ==
  /\ \A w \in written :
       /\ w.note \in notes \cup carrier
       /\ w.by = Earlier \/ w.note.op = "delete" => w.note \in notes \ carrier
  /\ \A j \in Jobs : Is(j, "done") /\ ~job[j].failed =>
       \A w \in written :
         /\ w.by = j /\ w.note.op # "disable"
         /\ job[j].profile \in {w.note.profile, NoProfile}
         => w.note \in carrier \ notes
=============================================================================
