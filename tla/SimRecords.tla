----------------------------- MODULE SimRecords -----------------------------
(***************************************************************************)
(* What the program remembers of SIMs: their own number and message centre *)
(* (own_number_cache, smsc_cache), the last eUICC seen and the profiles on *)
(* it (esim_euicc_cache, esim_profile_cache).  lpac reads the card in the  *)
(* slot; ModemManager tells which SIM it uses, later.  Requests and the    *)
(* background refresh read, wait, and write what they read.                *)
(***************************************************************************)
EXTENDS Naturals, FiniteSets

CONSTANTS
  Cards,       \* eUICCs, one of which is in the slot
  Profiles,
  Home,        \* the card of each profile
  NoCard, NoProfile,
  Viewers,     \* tasks
  MaxViews,    \* bound on requests
  MaxSwaps     \* bound on changes of the card, failing calls and restarts

ASSUME SimAssumption ==
  /\ Home \in [Profiles -> Cards]
  /\ NoCard \notin Cards /\ NoProfile \notin Profiles /\ "absent" \notin Cards \cup {NoCard}
  /\ {MaxViews, MaxSwaps} \subseteq Nat

VARIABLES
  chip,       \* the card: what is in, installed, enabled, the names
  sim,        \* the SIM that ModemManager uses
  details,    \* own_number_cache and smsc_cache by iccid
  lastEuicc,  \* latest_esim_euicc_cache
  entries,    \* esim_profile_cache by iccid
  refreshing, \* SIM_DETAILS_BACKGROUND_RUNNING
  viewer,     \* what a task does
  views, swaps,
  fresh,      \* history: profiles whose rows are those of the last listing of the card
  doubt       \* history: SIMs whose records were written across a change of SIM

simRecords == <<chip, sim, details, lastEuicc, entries, refreshing, viewer, views, swaps,
                fresh, doubt>>

-----------------------------------------------------------------------------
Tables  == {"number", "smsc"}
Absent  == [eid |-> "absent", name |-> "", state |-> "", number |-> "none"]
Nothing == [p \in Profiles |-> Absent]
Viewing == [op |-> "none", step |-> "rest", of |-> NoProfile, eid |-> NoCard,
            read |-> Nothing, force |-> FALSE, wants |-> FALSE, old |-> FALSE]

Present(T)  == {p \in Profiles : T[p] # Absent}
OnCard(c)   == {p \in chip.installed : Home[p] = c}
Enabled     == chip.enabled[chip.inserted]

EntryType == {Absent} \cup
  [eid : Cards \cup {NoCard}, name : {"given", "renamed"}, state : {"enabled", "disabled"},
   number : Profiles \cup {"none", "user"}]

SimTypeOK ==
  /\ chip \in [inserted : Cards, installed : SUBSET Profiles,
               enabled : [Cards -> Profiles \cup {NoProfile}],
               name : [Profiles -> {"given", "renamed"}]]
  /\ \A c \in Cards : chip.enabled[c] \in OnCard(c) \cup {NoProfile}
  /\ sim \in Profiles \cup {NoProfile}
  /\ details \in [Tables -> [Profiles -> Profiles \cup {"unread", "empty", "user"}]]
  /\ lastEuicc \in Cards \cup {NoCard}
  /\ entries \in [Profiles -> EntryType]
  /\ refreshing <=> \E v \in Viewers : viewer[v].op = "refresh" /\ viewer[v].step # "spawn"
  /\ \A v \in Viewers :
       /\ viewer[v].of \in Profiles \cup {NoProfile} /\ viewer[v].eid \in Cards \cup {NoCard}
       /\ viewer[v].read \in [Profiles -> EntryType]
  /\ views \in 0..MaxViews /\ swaps \in 0..MaxSwaps
  /\ fresh \subseteq Profiles /\ doubt \subseteq Profiles

FirstChips ==
  {c \in [inserted : Cards, installed : SUBSET Profiles,
          enabled : [Cards -> Profiles], name : {[p \in Profiles |-> "given"]}] :
     \A d \in Cards : c.enabled[d] \in c.installed /\ Home[c.enabled[d]] = d}

\* What lpac tells of a profile, with what the program adds.
Profile(p, eid, number) == [eid |-> eid, name |-> chip.name[p], number |-> number,
                            state |-> IF p = Enabled THEN "enabled" ELSE "disabled"]

\* The program has listed no card yet, or this one before it was last started.
SimInit ==
  /\ chip \in FirstChips
  /\ sim = Enabled
  /\ details = [t \in Tables |-> [p \in Profiles |-> "unread"]]
  /\ \/ lastEuicc = NoCard /\ entries = Nothing /\ fresh = {}
     \/ /\ lastEuicc = chip.inserted /\ fresh = Profiles
        /\ entries = [p \in Profiles |-> IF p \in OnCard(chip.inserted)
                                          THEN Profile(p, chip.inserted, "none") ELSE Absent]
  /\ refreshing = FALSE
  /\ viewer = [v \in Viewers |-> Viewing]
  /\ views = 0 /\ swaps = 0
  /\ doubt = {}

-----------------------------------------------------------------------------
(* Tasks and history. *)

Doing(v, op, step) == viewer[v].op = op /\ viewer[v].step = step
Moves(v, step)     == viewer' = [viewer EXCEPT ![v].step = step]
Leaves(v)          == viewer' = [viewer EXCEPT ![v] = Viewing]
Trouble            == swaps < MaxSwaps /\ swaps' = swaps + 1

Outdated(V) == [v \in Viewers |-> [V[v] EXCEPT !.old = V[v] # Viewing]]

\* A task changes profiles on the card: what the others have read is old.
ChangesCard(v, then, changed) ==
  /\ viewer' = [Outdated(viewer) EXCEPT ![v] = [then EXCEPT !.old = FALSE]]
  /\ fresh' = fresh \ changed

\* Tasks that have read which SIM it is and not yet its number.
Crossing == {viewer[v].of : v \in {w \in Viewers : viewer[w].op \in {"refresh", "info"}
                                                     /\ viewer[w].step \in {"number", "smsc"}}}

\* A task that writes what it read before a listing, a change of the card or the
\* deletion of a row may put back rows that are no longer those of the card.
PutsBack(v, rows) == fresh' = IF viewer[v].old THEN fresh \ rows ELSE fresh

-----------------------------------------------------------------------------
(* The card and ModemManager. *)

Swap ==
  /\ Trouble
  /\ \E c \in Cards \ {chip.inserted} : chip' = [chip EXCEPT !.inserted = c]
  /\ sim' = NoProfile
  /\ doubt' = doubt \cup (Crossing \ {NoProfile})
  /\ viewer' = Outdated(viewer) /\ fresh' = {}
  /\ UNCHANGED <<details, lastEuicc, entries, refreshing, views>>

\* ModemManager sees the enabled profile after the card was reset.
Registers ==
  /\ sim # Enabled /\ sim' = Enabled
  /\ doubt' = doubt \cup (Crossing \ {NoProfile})
  /\ UNCHANGED <<chip, details, lastEuicc, entries, refreshing, viewer, views, swaps, fresh>>

-----------------------------------------------------------------------------
AsksFor(v) ==
  /\ viewer[v] = Viewing
  /\ views < MaxViews /\ views' = views + 1
  /\ \E op \in {"live", "cached", "euicc", "rename", "delete", "enable", "download",
               "info", "refresh"},
        p \in Profiles \cup {NoProfile} :
       /\ p \in IF op \in {"rename", "delete", "enable"} THEN OnCard(chip.inserted)
               ELSE IF op = "download" THEN Profiles \ chip.installed ELSE {NoProfile}
       /\ viewer' = [viewer EXCEPT ![v] =
            [Viewing EXCEPT !.op = op, !.of = p, !.force = op = "refresh",
                            !.step = IF op = "refresh" THEN "spawn" ELSE "start"]]
  /\ UNCHANGED <<chip, sim, details, lastEuicc, entries, refreshing, swaps, fresh, doubt>>

\* lpac fails, or the connection of the client is closed at an await; spawned
\* tasks are not dropped, and an enabling that failed is followed by the refresh.
Abandons(v) ==
  /\ viewer[v] # Viewing /\ viewer[v].op # "refresh"
  /\ Trouble
  /\ IF viewer[v].op = "enable"
     THEN viewer' = [viewer EXCEPT ![v] = [Viewing EXCEPT !.op = "refresh", !.step = "spawn",
                                                         !.force = TRUE, !.old = TRUE]]
     ELSE Leaves(v)
  /\ UNCHANGED <<chip, sim, details, lastEuicc, entries, refreshing, views, fresh, doubt>>

-----------------------------------------------------------------------------
(* The number and the message centre. *)

\* What can be read in an answer of the SIM s: its value, or nothing.
Decoded(s) == {"empty"} \cup ({s} \ {NoProfile})

\* What is answered: ModemManager by the SIM it shows, AT+CNUM, EF_SMSP and AT+CSCA by
\* the one that the modem uses, which after an enabling is already another.
SimAnswers == Decoded(sim) \cup Decoded(Enabled)
Unshown    == sim # Enabled

\* The tables by ICCID
Kept(values) == details' = values

\* refresh_sim_details_background: one at a time, and another is not put off.
StartRefresh(v) ==
  /\ Doing(v, "refresh", "spawn")
  /\ IF refreshing \/ sim = NoProfile
     THEN Leaves(v) /\ UNCHANGED refreshing
     ELSE /\ refreshing' = TRUE
          /\ viewer' = [viewer EXCEPT
               ![v].step = "number", ![v].of = sim,
               ![v].wants = viewer[v].force \/ details["number"][sim] = "unread"]
  /\ UNCHANGED <<chip, sim, details, lastEuicc, entries, views, swaps, fresh, doubt>>

Fetched(v, t) ==
  IF viewer[v].wants
  THEN /\ \E value \in SimAnswers : Kept([details EXCEPT ![t][viewer[v].of] = value])
       /\ doubt' = IF Unshown THEN doubt \cup {viewer[v].of} ELSE doubt
  ELSE UNCHANGED <<details, doubt>>

FetchNumber(v) ==
  /\ Doing(v, "refresh", "number")
  /\ Fetched(v, "number")
  /\ viewer' = [viewer EXCEPT ![v].step = "smsc",
                  ![v].wants = viewer[v].force \/ details["smsc"][viewer[v].of] = "unread"]
  /\ UNCHANGED <<chip, sim, lastEuicc, entries, refreshing, views, swaps, fresh>>

FetchCenter(v) ==
  /\ Doing(v, "refresh", "smsc")
  /\ Fetched(v, "smsc")
  /\ Leaves(v) /\ refreshing' = FALSE
  /\ UNCHANGED <<chip, sim, lastEuicc, entries, views, swaps, fresh>>

\* get_sim_info_data_with_cache keeps what ModemManager knows, over a value of the
\* user too, and starts a refresh if an entry is missing.
AskInfo(v) ==
  /\ Doing(v, "info", "start")
  /\ IF sim = NoProfile THEN Leaves(v)
     ELSE viewer' = [viewer EXCEPT ![v].step = "number", ![v].of = sim]
  /\ UNCHANGED <<chip, sim, details, lastEuicc, entries, refreshing, views, swaps, fresh, doubt>>

ReadInfo(v) ==
  /\ Doing(v, "info", "number")
  /\ LET p == viewer[v].of
     IN  /\ \E value \in [Tables -> SimAnswers] :
              Kept([t \in Tables |-> IF value[t] = "empty" THEN details[t]
                                      ELSE [details[t] EXCEPT ![p] = value[t]]])
         /\ doubt' = IF Unshown THEN doubt \cup {p} ELSE doubt
         /\ IF \E t \in Tables : details'[t][p] = "unread"
            THEN viewer' = [viewer EXCEPT ![v] =
                   [Viewing EXCEPT !.op = "refresh", !.step = "spawn"]]
            ELSE Leaves(v)
  /\ UNCHANGED <<chip, sim, lastEuicc, entries, refreshing, views, swaps, fresh>>

\* update_sim_cache_handler; nothing is awaited between the identity and the values.
SaveManual ==
  /\ sim # NoProfile
  /\ views < MaxViews /\ views' = views + 1
  /\ \E T \in SUBSET Tables \ {{}} :
       Kept([t \in Tables |-> IF t \in T THEN [details[t] EXCEPT ![sim] = "user"]
                              ELSE details[t]])
  /\ UNCHANGED <<chip, sim, lastEuicc, entries, refreshing, viewer, swaps, fresh, doubt>>

\* The listener keeps the centre of a message, which may have come to another SIM.
CenterOfSms ==
  /\ sim # NoProfile
  /\ Trouble
  /\ \E p \in Profiles :
       /\ Kept([details EXCEPT !["smsc"][sim] = p])
       /\ doubt' = IF p = sim THEN doubt ELSE doubt \cup {sim}
  /\ UNCHANGED <<chip, sim, lastEuicc, entries, refreshing, viewer, views, fresh>>

-----------------------------------------------------------------------------
(* Writing profiles. *)

\* COALESCE: what a row has is kept where the new one has nothing.
Merged(p, row) ==
  IF entries[p] = Absent THEN row
  ELSE [row EXCEPT !.eid = IF @ = NoCard THEN entries[p].eid ELSE @,
                   !.number = IF @ = "none" THEN entries[p].number ELSE @]

\* upsert_esim_profile_cache
Upserted(T) == [p \in Profiles |-> IF T[p] = Absent THEN entries[p] ELSE Merged(p, T[p])]

\* Mutant: rows of profiles that are gone stay.
ReconciledKeeping(T, eid) == Upserted(T)

\* reconcile_esim_profile_cache, one transaction
Reconciled(T, eid) ==
  [p \in Profiles |-> IF T[p] = Absent /\ entries[p].eid \in {eid, NoCard} THEN Absent
                      ELSE Upserted(T)[p]]

\* Mutant: the active one is taken before the one with the identity.
CurrentActive(T, id) == {p \in Present(T) : T[p].state = "enabled"}

\* The profile with the identity, or else the first active one.
Current(T, id) == IF id \in Present(T) THEN {id}
                  ELSE {p \in Present(T) : T[p].state = "enabled"}

\* enrich_profiles_with_current_identity, where id is the SIM in use
Enriched(T, id) ==
  IF id = NoProfile \/ Current(T, id) = {} THEN {T}
  ELSE LET known == details["number"][id]
       IN  {[T EXCEPT ![p].state = IF p = id THEN "enabled" ELSE @,
                      ![p].number = IF @ = "none" /\ known \notin {"unread", "empty"}
                                    THEN known ELSE @] : p \in Current(T, id)}

\* The identity is of a profile that is not listed: another one gets its number.
Strangers(T, id) == IF id = NoProfile \/ id \in Present(T) THEN {} ELSE Current(T, id)

-----------------------------------------------------------------------------
(* GET /api/esim/profiles, from the card and from the cache. *)

\* upsert_esim_euicc_cache: the last card is the one that is asked for later.
SeenCard == lastEuicc' = chip.inserted

ReadEuicc(v) ==
  /\ Doing(v, "live", "start")
  /\ \/ /\ SeenCard
        /\ viewer' = [viewer EXCEPT ![v].step = "profiles", ![v].eid = chip.inserted,
                                    ![v].old = FALSE]
        /\ UNCHANGED swaps
     \/ /\ Trouble
        /\ viewer' = [viewer EXCEPT ![v].step = "profiles", ![v].eid = lastEuicc,
                                    ![v].old = TRUE]
        /\ UNCHANGED lastEuicc
  /\ UNCHANGED <<chip, sim, details, entries, refreshing, views, fresh, doubt>>

\* GET /api/esim/euicc tells of the card without its profiles.
ShowEuicc(v) ==
  /\ Doing(v, "euicc", "start")
  /\ SeenCard /\ Leaves(v)
  /\ UNCHANGED <<chip, sim, details, entries, refreshing, views, swaps, fresh, doubt>>

\* get_profiles, and what lpac does not know is taken from the cache.
ReadProfiles(v) ==
  /\ Doing(v, "live", "profiles")
  /\ LET eid(p) == IF viewer[v].eid = NoCard /\ entries[p] # Absent THEN entries[p].eid
                   ELSE viewer[v].eid
     IN  viewer' = [viewer EXCEPT ![v].step = "store", ![v].read =
           [p \in Profiles |-> IF p \in OnCard(chip.inserted)
                               THEN Profile(p, eid(p), entries[p].number) ELSE Absent]]
  /\ UNCHANGED <<chip, sim, details, lastEuicc, entries, refreshing, views, swaps, fresh, doubt>>

\* The identity may not be known in time; the write may fail.  A SIM that is still
\* shown after another profile was enabled is listed as the active one.
StoreListing(v) ==
  /\ Doing(v, "live", "store")
  /\ \E id \in {sim, NoProfile} : \E T \in Enriched(viewer[v].read, id) :
       /\ doubt' = doubt \cup Strangers(viewer[v].read, id)
                        \cup (IF viewer[v].old THEN Present(T) ELSE {})
       /\ entries' = IF viewer[v].eid = NoCard THEN Upserted(T) ELSE Reconciled(T, viewer[v].eid)
  /\ fresh' = IF viewer[v].old THEN {} ELSE Profiles \ ({sim} \ {Enabled})
  /\ viewer' = Outdated([viewer EXCEPT ![v] = Viewing])
  /\ UNCHANGED <<chip, sim, details, lastEuicc, refreshing, views, swaps>>

ReadRows(v) ==
  /\ Doing(v, "cached", "start")
  /\ LET read == [p \in Profiles |-> IF lastEuicc \in {NoCard, entries[p].eid} THEN entries[p]
                                                                             ELSE Absent]
     IN  IF \E p \in Present(read) : read[p].state = "enabled" /\ read[p].number = "none"
         THEN viewer' = [viewer EXCEPT ![v].step = "store", ![v].read = read, ![v].old = FALSE]
         ELSE Leaves(v)
  /\ UNCHANGED <<chip, sim, details, lastEuicc, entries, refreshing, views, swaps, fresh, doubt>>

StoreRows(v) ==
  /\ Doing(v, "cached", "store")
  /\ \/ /\ sim # NoProfile
        /\ \E T \in Enriched(viewer[v].read, sim) : entries' = Upserted(T)
        /\ doubt' = doubt \cup Strangers(viewer[v].read, sim)
        /\ PutsBack(v, Present(viewer[v].read))
     \/ UNCHANGED <<entries, doubt, fresh>>
  /\ Leaves(v)
  /\ UNCHANGED <<chip, sim, details, lastEuicc, refreshing, views, swaps>>

-----------------------------------------------------------------------------
(* Operations on a profile: lpac, then the cache. *)

RenameOnCard(v) ==
  /\ Doing(v, "rename", "start") /\ viewer[v].of \in OnCard(chip.inserted)
  /\ chip' = [chip EXCEPT !.name[viewer[v].of] = "renamed"]
  /\ ChangesCard(v, [viewer[v] EXCEPT !.step = "get"], {viewer[v].of})
  /\ UNCHANGED <<sim, details, lastEuicc, entries, refreshing, views, swaps, doubt>>

\* The row is read and written back whole, which are two calls.
GetRow(v) ==
  /\ Doing(v, "rename", "get")
  /\ IF entries[viewer[v].of] = Absent THEN Leaves(v)
     ELSE LET p == viewer[v].of
          IN  viewer' = [viewer EXCEPT ![v].step = "put", ![v].old = FALSE, ![v].read =
                [Nothing EXCEPT ![p] = [entries[p] EXCEPT !.name = "renamed"]]]
  /\ UNCHANGED <<chip, sim, details, lastEuicc, entries, refreshing, views, swaps, fresh, doubt>>

PutRow(v) ==
  /\ Doing(v, "rename", "put")
  /\ entries' = Upserted(viewer[v].read)
  /\ PutsBack(v, Present(viewer[v].read)) /\ Leaves(v)
  /\ UNCHANGED <<chip, sim, details, lastEuicc, refreshing, views, swaps, doubt>>

DeleteOnCard(v) ==
  /\ Doing(v, "delete", "start") /\ viewer[v].of \in OnCard(chip.inserted) \ {Enabled}
  /\ chip' = [chip EXCEPT !.installed = @ \ {viewer[v].of}]
  /\ ChangesCard(v, [viewer[v] EXCEPT !.step = "row"], {viewer[v].of})
  /\ UNCHANGED <<sim, details, lastEuicc, entries, refreshing, views, swaps, doubt>>

\* Unless something came between, the row is again that of the card.
DeleteRow(v) ==
  /\ Doing(v, "delete", "row")
  /\ entries' = [entries EXCEPT ![viewer[v].of] = Absent]
  /\ fresh' = IF viewer[v].old THEN fresh \ {viewer[v].of} ELSE fresh \cup {viewer[v].of}
  /\ viewer' = Outdated([viewer EXCEPT ![v] = Viewing])
  /\ UNCHANGED <<chip, sim, details, lastEuicc, refreshing, views, swaps, doubt>>

\* The refresh that follows may come before ModemManager has seen the profile.
EnableOnCard(v) ==
  /\ Doing(v, "enable", "start") /\ viewer[v].of \in OnCard(chip.inserted)
  /\ chip' = [chip EXCEPT !.enabled[chip.inserted] = viewer[v].of]
  /\ ChangesCard(v, [Viewing EXCEPT !.op = "refresh", !.step = "spawn", !.force = TRUE],
                 {viewer[v].of, Enabled})
  /\ UNCHANGED <<sim, details, lastEuicc, entries, refreshing, views, swaps, doubt>>

DownloadToCard(v) ==
  /\ Doing(v, "download", "start")
  /\ viewer[v].of \notin chip.installed /\ Home[viewer[v].of] = chip.inserted
  /\ chip' = [chip EXCEPT !.installed = @ \cup {viewer[v].of}]
  /\ ChangesCard(v, [viewer[v] EXCEPT !.step = "row"], {viewer[v].of})
  /\ UNCHANGED <<sim, details, lastEuicc, entries, refreshing, views, swaps, doubt>>

\* The card is taken to be the one listed last.
CacheDownload(v) ==
  /\ Doing(v, "download", "row")
  /\ LET p == viewer[v].of
     IN  /\ entries' = Upserted([Nothing EXCEPT ![p] =
              [eid |-> lastEuicc, name |-> "given", state |-> "disabled", number |-> "none"]])
         /\ doubt' = IF lastEuicc \in {NoCard, Home[p]} THEN doubt ELSE doubt \cup {p}
  /\ fresh' = fresh \ {viewer[v].of} /\ Leaves(v)
  /\ UNCHANGED <<chip, sim, details, lastEuicc, refreshing, views, swaps>>

\* The start gives rows without a card the one that was seen last.
StopProcess ==
  /\ Trouble
  /\ viewer' = [v \in Viewers |-> Viewing] /\ refreshing' = FALSE
  /\ LET given == {p \in Profiles : entries[p].eid = NoCard}
     IN  /\ entries' = [p \in Profiles |-> IF p \in given THEN [entries[p] EXCEPT !.eid = lastEuicc]
                                           ELSE entries[p]]
         /\ doubt' = doubt \cup {p \in given : lastEuicc \notin {NoCard, Home[p]}}
  /\ UNCHANGED <<chip, sim, details, lastEuicc, views, fresh>>

ViewStep(v) ==
  \/ AsksFor(v) \/ Abandons(v)
  \/ StartRefresh(v) \/ FetchNumber(v) \/ FetchCenter(v) \/ AskInfo(v) \/ ReadInfo(v)
  \/ ReadEuicc(v) \/ ShowEuicc(v) \/ ReadProfiles(v) \/ StoreListing(v)
  \/ ReadRows(v) \/ StoreRows(v)
  \/ RenameOnCard(v) \/ GetRow(v) \/ PutRow(v) \/ DeleteOnCard(v) \/ DeleteRow(v)
  \/ EnableOnCard(v) \/ DownloadToCard(v) \/ CacheDownload(v)

SimNext ==
  \/ Swap \/ Registers \/ SaveManual \/ CenterOfSms \/ StopProcess
  \/ \E v \in Viewers : ViewStep(v)

-----------------------------------------------------------------------------
\* After a live listing that nothing crossed each row is that of the card: listed if
\* and only if the profile is on it, with its name, active if and only if it is; and
\* a profile that is deleted is not listed again.  The exceptions are named row by
\* row: a profile that was renamed, enabled or downloaded since, or whose deletion was
\* cut short, until the next such listing; and the rows that a cached listing or a
\* rename writes which had read them before a listing, a change or a deletion, by
\* which a deleted row does come back.
\* (get_esim_profiles_handler, delete_esim_profile_handler)
ListingTrue ==
  \A p \in fresh :
    LET here == entries[p].eid = chip.inserted
    IN  /\ here <=> p \in OnCard(chip.inserted)
        /\ here => /\ entries[p].name = chip.name[p]
                   /\ entries[p].state = "enabled" <=> p = Enabled

\* Numbers, centres and cards are kept under the SIM they are of, or are the user's.
\* The exceptions are named: the SIM changed between identity and number, or was read
\* while the modem used another one than ModemManager showed; a listing that a
\* change crossed or that did not learn the card, a card that was swapped and not
\* listed.  (cache_own_numbers_for_identity, cache_smsc_for_identity,
\* enrich_profiles_with_current_identity; changelog.md:22)
RecordsOwn ==
  \A p \in Profiles \ doubt :
    /\ \A t \in Tables : details[t][p] \in {"unread", "empty", "user", p}
    /\ entries[p].eid \in {"absent", NoCard, Home[p]}
    /\ entries[p].number \in {"none", "user", p}
=============================================================================
