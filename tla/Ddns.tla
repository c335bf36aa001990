-------------------------------- MODULE Ddns --------------------------------
(***************************************************************************)
(* Dynamic DNS: a loop and the user's requests write the device's address  *)
(* into the records of its domains, one domain after the other, and one    *)
(* sync at a time by a flag.  A provider's answer may fail to come although *)
(* the record is written, now or later; a request may be dropped by its    *)
(* client at any await, which leaves the flag set until the next start.    *)
(***************************************************************************)
EXTENDS Naturals, Sequences, FiniteSets

CONSTANTS
  Domains,      \* the names with records
  Addresses,
  Plans,        \* the settings users save
  Askers,       \* the users' requests
  MaxTroubles   \* bound on failures, drops, changes and restarts together

KindSet   == {"A", "AAAA"}
NoAddress == "no address"

ASSUME DdnsAssumption ==
  /\ Addresses # {} /\ NoAddress \notin Addresses
  /\ "loop" \notin Askers
  \* A kind that is off has no domains: neither is looked at.
  /\ \A p \in Plans : p.enabled \in BOOLEAN /\ \A k \in KindSet : p.domains[k] \in Seq(Domains)
  /\ MaxTroubles \in Nat

Syncers == Askers \cup {"loop"}
Keys    == {<<k, p.domains[k]>> : k \in KindSet, p \in Plans}
Known   == Addresses \cup {NoAddress}

VARIABLES
  settings,   \* the DDNS settings in ConfigManager
  address,    \* what the interface, or the service that is asked, says
  zone,       \* the provider's records
  pending,    \* external: writes that the provider has yet to do
  syncing,    \* running
  sync,       \* what each sync does
  failureCounts,
  lastIp,     \* last_ipv4, last_ipv6
  failing,    \* history: failed results in a row, by what they are about
  tardy,      \* history: records that were written after the answer was due
  abandoned,  \* history: a sync was dropped since the start
  troubles

ddns == <<settings, address, zone, pending, syncing, sync, failureCounts, lastIp, failing, tardy,
          abandoned, troubles>>

-----------------------------------------------------------------------------
NoSync == [at |-> "idle", plan |-> CHOOSE p \in Plans : TRUE, todo |-> << >>, left |-> << >>,
           ip |-> NoAddress, ok |-> TRUE, shown |-> [k \in KindSet |-> NoAddress]]

DdnsTypeOK ==
  /\ settings \in Plans
  /\ address \in [KindSet -> Addresses] /\ lastIp \in [KindSet -> Known]
  /\ zone \in [KindSet \X Domains -> Known]
  /\ pending \subseteq [record : KindSet \X Domains, ip : Addresses, create : BOOLEAN]
  /\ {syncing, abandoned} \subseteq BOOLEAN
  /\ \A c \in Syncers :
       /\ sync[c].at \in {"idle", "read", "list", "put", "count", "end"}
       /\ sync[c].plan \in Plans /\ sync[c].todo \in Seq(KindSet) /\ sync[c].left \in Seq(Domains)
       /\ sync[c].ip \in Known /\ sync[c].ok \in BOOLEAN /\ sync[c].shown \in [KindSet -> Known]
       /\ sync[c].at \in {"read", "list", "put", "count"} => sync[c].todo # << >>
       /\ sync[c].at \in {"list", "put"} => sync[c].left # << >>
  /\ failureCounts \in [Keys -> Nat] /\ failing \in [Keys -> Nat]
  /\ tardy \subseteq KindSet \X Domains
  /\ troubles \in 0..MaxTroubles

DdnsInit ==
  /\ settings \in Plans
  /\ address = [k \in KindSet |-> CHOOSE a \in Addresses : TRUE]  \* no address differs
  /\ zone = [r \in KindSet \X Domains |-> NoAddress]
  /\ pending = {}
  /\ syncing = FALSE
  /\ sync = [c \in Syncers |-> NoSync]
  /\ failureCounts = [key \in Keys |-> 0] /\ failing = failureCounts
  /\ lastIp = [k \in KindSet |-> NoAddress]
  /\ tardy = {} /\ abandoned = FALSE /\ troubles = 0

Troubled == troubles < MaxTroubles /\ troubles' = troubles + 1

-----------------------------------------------------------------------------
(* sync_now *)

Step(c, s)   == sync[c].at = s
KindOf(c)    == Head(sync[c].todo)
DomainsOf(c) == sync[c].plan.domains[KindOf(c)]
KeyOf(c)     == <<KindOf(c), DomainsOf(c)>>
RecordOf(c)  == <<KindOf(c), Head(sync[c].left)>>

\* Addresses of both versions, first that of IPv4.  (sync_inner)
KindsOf(p) ==
  LET OneOf(k) == IF p.domains[k] = << >> THEN << >> ELSE <<k>> IN OneOf("A") \o OneOf("AAAA")

\* Mutant: the flag is not looked at.
BeginAnyhow(c) ==
  /\ Step(c, "idle") /\ settings.enabled
  /\ syncing' = TRUE
  /\ LET todo == KindsOf(settings)
     IN  sync' = [sync EXCEPT ![c] = [NoSync EXCEPT !.plan = settings, !.todo = todo,
                                      !.at = IF todo = << >> THEN "end" ELSE "read"]]
  /\ UNCHANGED <<settings, address, zone, pending, failureCounts, lastIp, failing, tardy, abandoned,
                 troubles>>

\* A sync that finds the flag set, or DDNS off, changes nothing.
Begin(c) ==
  /\ Step(c, "idle") /\ settings.enabled
  /\ ~syncing /\ syncing' = TRUE
  /\ LET todo == KindsOf(settings)
     IN  sync' = [sync EXCEPT ![c] = [NoSync EXCEPT !.plan = settings, !.todo = todo,
                                      !.at = IF todo = << >> THEN "end" ELSE "read"]]
  /\ UNCHANGED <<settings, address, zone, pending, failureCounts, lastIp, failing, tardy, abandoned,
                 troubles>>

\* The kind has its result, and is logged before it is counted.
Result(c, s, ok) ==
  /\ sync' = [sync EXCEPT ![c] = [s EXCEPT !.at = "count", !.ok = ok, !.left = << >>,
                                           !.shown[KindOf(c)] = s.ip]]
  /\ failing' = [failing EXCEPT ![KeyOf(c)] = IF ok THEN 0 ELSE @ + 1]

\* get_ip
ReadIp(c) ==
  /\ Step(c, "read")
  /\ \/ /\ sync' = [sync EXCEPT ![c].at = "list", ![c].ip = address[KindOf(c)],
                                ![c].left = DomainsOf(c)]
        /\ UNCHANGED <<failing, troubles>>
     \/ Troubled /\ Result(c, sync[c], FALSE)
  /\ UNCHANGED <<settings, address, zone, pending, syncing, failureCounts, lastIp, tardy, abandoned>>

\* This domain has the address; the next one, or the end of this kind
Onward(c) ==
  IF Len(sync[c].left) = 1
  THEN Result(c, sync[c], TRUE)
  ELSE /\ sync' = [sync EXCEPT ![c].at = "list", ![c].left = Tail(@)]
       /\ UNCHANGED failing

List(c) ==
  /\ Step(c, "list")
  /\ \/ /\ IF zone[RecordOf(c)] = sync[c].ip
           THEN Onward(c)
           ELSE sync' = [sync EXCEPT ![c].at = "put"] /\ UNCHANGED failing
        /\ UNCHANGED troubles
     \/ Troubled /\ Result(c, sync[c], FALSE)
  /\ UNCHANGED <<settings, address, zone, pending, syncing, failureCounts, lastIp, tardy, abandoned>>

Put(c) ==
  /\ Step(c, "put")
  /\ zone' = [zone EXCEPT ![RecordOf(c)] = sync[c].ip]
  /\ Onward(c)
  /\ UNCHANGED <<settings, address, pending, syncing, failureCounts, lastIp, tardy, abandoned, troubles>>

\* What may be left of a write whose answer does not come: nothing, the record,
\* or a write that the provider does later
Unanswered(c) ==
  \/ UNCHANGED <<zone, pending>>
  \/ zone' = [zone EXCEPT ![RecordOf(c)] = sync[c].ip] /\ UNCHANGED pending
  \/ /\ pending' = pending \cup {[record |-> RecordOf(c), ip |-> sync[c].ip,
                                  create |-> zone[RecordOf(c)] = NoAddress]}
     /\ UNCHANGED zone

PutFails(c) ==
  /\ Step(c, "put")
  /\ Troubled
  /\ Unanswered(c)
  /\ Result(c, sync[c], FALSE)
  /\ UNCHANGED <<settings, address, syncing, failureCounts, lastIp, tardy, abandoned>>

\* update_failure_count; the notification that may follow is the queue's.
CountResult(c) ==
  /\ Step(c, "count")
  /\ failureCounts' = [failureCounts EXCEPT ![KeyOf(c)] = IF sync[c].ok THEN 0 ELSE @ + 1]
  /\ sync' = [sync EXCEPT ![c].todo = Tail(@), ![c].ip = NoAddress,
                          ![c].at = IF Len(sync[c].todo) = 1 THEN "end" ELSE "read"]
  /\ UNCHANGED <<settings, address, zone, pending, syncing, lastIp, failing, tardy, abandoned,
                 troubles>>

\* The address that was read is shown also when its update failed.
EndSync(c) ==
  /\ Step(c, "end")
  /\ syncing' = FALSE
  /\ lastIp' = [k \in KindSet |-> IF sync[c].shown[k] = NoAddress THEN lastIp[k]
                                                                  ELSE sync[c].shown[k]]
  /\ sync' = [sync EXCEPT ![c] = NoSync]
  /\ UNCHANGED <<settings, address, zone, pending, failureCounts, failing, tardy, abandoned, troubles>>

\* The client of a request goes away: the flag stays.
SyncDropped(c) ==
  /\ ~Step(c, "idle")
  /\ Troubled
  /\ IF Step(c, "put") THEN Unanswered(c) ELSE UNCHANGED <<zone, pending>>
  /\ sync' = [sync EXCEPT ![c] = NoSync]
  /\ abandoned' = TRUE
  /\ UNCHANGED <<settings, address, syncing, failureCounts, lastIp, failing, tardy>>

-----------------------------------------------------------------------------
(* What surrounds it *)

SetPlan(p) ==
  /\ p # settings
  /\ Troubled
  /\ settings' = p
  /\ UNCHANGED <<address, zone, pending, syncing, sync, failureCounts, lastIp, failing, tardy, abandoned>>

AddressChanges(k, a) ==
  /\ a # address[k]
  /\ Troubled
  /\ address' = [address EXCEPT ![k] = a]
  /\ UNCHANGED <<settings, zone, pending, syncing, sync, failureCounts, lastIp, failing, tardy, abandoned>>

\* The provider does a write whose answer nobody waits for; it creates no
\* second record of a name.
WrittenLate(w) ==
  /\ pending' = pending \ {w}
  /\ IF w.create /\ zone[w.record] # NoAddress
     THEN UNCHANGED <<zone, tardy>>
     ELSE zone' = [zone EXCEPT ![w.record] = w.ip] /\ tardy' = tardy \cup {w.record}
  /\ UNCHANGED <<settings, address, syncing, sync, failureCounts, lastIp, failing, abandoned, troubles>>

DdnsRestarts ==
  /\ Troubled
  /\ \/ \A c \in Syncers : ~Step(c, "put") /\ UNCHANGED <<zone, pending>>
     \/ \E c \in Syncers : Step(c, "put") /\ Unanswered(c)
  /\ syncing' = FALSE
  /\ sync' = [c \in Syncers |-> NoSync]
  /\ failureCounts' = [key \in Keys |-> 0] /\ failing' = failureCounts'
  /\ lastIp' = [k \in KindSet |-> NoAddress]
  /\ abandoned' = FALSE
  /\ UNCHANGED <<settings, address, tardy>>

DdnsNext ==
  \/ \E c \in Syncers :
       Begin(c) \/ ReadIp(c) \/ List(c) \/ Put(c) \/ PutFails(c) \/ CountResult(c) \/ EndSync(c)
  \/ \E c \in Askers : SyncDropped(c)
  \/ \E p \in Plans : SetPlan(p)
  \/ \E k \in KindSet, a \in Addresses : AddressChanges(k, a)
  \/ \E w \in pending : WrittenLate(w)
  \/ DdnsRestarts

-----------------------------------------------------------------------------
\* A result without an error is true: each domain of the list has the address
\* that was read, whatever failed, was dropped or changed before and meanwhile,
\* unless the provider wrote late.  The flag keeps syncs apart and, unless one
\* was dropped, is set only while one runs.  The count an alert tells is the
\* number of failures in a row.
\* (sync_record, update_cloudflare, update_alidns, update_tencentcloud)
SyncedIsTrue ==
  /\ \A c \in Syncers : Step(c, "count") /\ sync[c].ok =>
       \A n \in {DomainsOf(c)[i] : i \in DOMAIN DomainsOf(c)} :
         zone[<<KindOf(c), n>>] = sync[c].ip \/ <<KindOf(c), n>> \in tardy
  /\ LET active == {c \in Syncers : ~Step(c, "idle")}
     IN  Cardinality(active) <= 1 /\ (active # {} => syncing) /\ (active = {} => ~syncing \/ abandoned)
  /\ abandoned \/ (\E c \in Syncers : Step(c, "count")) \/ failureCounts = failing
=============================================================================
