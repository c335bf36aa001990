----------------------------- MODULE OtaUpdate -----------------------------
(***************************************************************************)
(* Updating the program.  An upload unpacks a package into the staging     *)
(* directory, part by part in the order of pack-ota.sh, and checks it, the *)
(* web directory only for being there; applying it checks what is staged   *)
(* once more, replaces the binary, then the web directory, then meta.json, *)
(* clears the staging directory and has systemd restart the service.  The  *)
(* user may cancel what is staged.  The requests run on threads of their   *)
(* own and share the staging directory without a lock.                     *)
(***************************************************************************)
EXTENDS Naturals

CONSTANTS
  Packages,   \* packages a user or the Hub can upload
  Sound,      \* those whose binary fits its MD5 sum and this architecture
  MaxUpdates  \* bound on uploads, applications, cancellations, failing steps

ASSUME OtaAssumption ==
  /\ Sound \subseteq Packages
  /\ MaxUpdates \in Nat

VARIABLES
  staging,    \* the package of each part in the staging directory
  installed,  \* the package of each installed part
  upload,     \* the request that uploads
  apply,      \* the request that applies
  disturbed,  \* history: another request touched the staging of an unfinished update
  halved,     \* history: what is applied, or mixes what is installed, was unpacked in part
  updates

ota == <<staging, installed, upload, apply, disturbed, halved, updates>>

-----------------------------------------------------------------------------
Absent  == "absent"
Partial == "partial"
Old     == "old"
Parts   == {"binary", "www", "meta"}
Empty   == [p \in Parts |-> Absent]
Whole(k) == [p \in Parts |-> k]

ASSUME NamesAssumption == Packages \cap {Absent, Partial, Old} = {}

OtaTypeOK ==
  /\ staging \in [Parts -> Packages \cup {Absent, Partial}]
  /\ installed \in [Parts -> Packages \cup {Absent, Partial, Old}]
  /\ upload \in [at : {"idle", "check"} \cup Parts, package : Packages \cup {Absent}]
  /\ apply \in {"idle", "binary", "remove", "www", "meta", "clear", "restart"}
  /\ disturbed \in BOOLEAN /\ halved \in BOOLEAN
  /\ updates \in 0..MaxUpdates

NoUpload == [at |-> "idle", package |-> Absent]

OtaInit ==
  /\ staging = Empty
  /\ installed = Whole(Old)
  /\ upload = NoUpload
  /\ apply = "idle"
  /\ disturbed = FALSE /\ halved = FALSE
  /\ updates = 0

Counted == updates < MaxUpdates /\ updates' = updates + 1

\* The installed parts are not all of one package.
Mixed == \A k \in Packages \cup {Old} : installed # Whole(k)

Unfinished == apply \notin {"idle", "restart"} \/ Mixed

Disturbs == disturbed' = (disturbed \/ Unfinished)

-----------------------------------------------------------------------------
(* handle_ota_upload *)

UploadStart(k) ==
  /\ Counted
  /\ upload.at = "idle"
  /\ upload' = [at |-> "meta", package |-> k]
  /\ staging' = Empty
  /\ Disturbs
  /\ UNCHANGED <<installed, apply, halved>>

Following(part) == CASE part = "meta" -> "binary"
                     [] part = "binary" -> "www"
                     [] part = "www" -> "check"

\* tar writes one part after the other; half a meta.json or half a binary counts as
\* none, for it does not parse, or does not fit its sum.  A package without one of its
\* parts, or one that cannot be unpacked, ends in the clearing of the directory.
Unpack ==
  /\ upload.at \in Parts
  /\ \/ /\ staging' = [staging EXCEPT ![upload.at] = upload.package]
        /\ upload' = [upload EXCEPT !.at = Following(@)]
        /\ UNCHANGED updates
     \/ /\ upload.at = "www" /\ staging["www"] = Absent
        /\ staging' = [staging EXCEPT !["www"] = Partial]
        /\ UNCHANGED <<upload, updates>>
     \/ /\ Counted
        /\ staging' = Empty
        /\ upload' = NoUpload
  /\ Disturbs
  /\ UNCHANGED <<installed, apply, halved>>

\* validate_ota_package: all parts are there, the binary is the one the meta
\* describes, and both fit.  The web directory need not be complete.
Validated ==
  /\ \A p \in Parts : staging[p] # Absent
  /\ staging["binary"] = staging["meta"]
  /\ staging["binary"] \in Sound

UploadCheck ==
  /\ upload.at = "check"
  /\ upload' = NoUpload
  /\ IF Validated THEN UNCHANGED <<staging, disturbed>> ELSE staging' = Empty /\ Disturbs
  /\ UNCHANGED <<installed, apply, halved, updates>>

\* cancel_pending_update
Cancel ==
  /\ Counted
  /\ staging' = Empty
  /\ Disturbs
  /\ UNCHANGED <<installed, upload, apply, halved>>

-----------------------------------------------------------------------------
(* apply_ota_update *)

ApplyStart ==
  /\ Counted
  /\ apply = "idle"
  /\ apply' = IF Validated THEN "binary" ELSE "idle"
  /\ IF staging["meta"] = Absent \/ Validated THEN UNCHANGED <<staging, disturbed>>
     ELSE staging' = Empty /\ Disturbs
  /\ halved' = (halved \/ (Validated /\ staging["www"] = Partial))
  /\ UNCHANGED <<installed, upload>>

\* Mutant: a failing step clears the staging directory.
FailClearing ==
  /\ apply' = "idle"
  /\ staging' = Empty
  /\ UNCHANGED <<installed, upload, disturbed, halved>>

\* A step that fails ends the request and leaves everything as it is.
Fail ==
  /\ apply' = "idle"
  /\ UNCHANGED <<staging, installed, upload, disturbed, halved>>

\* Replaces a part by the staged one; the copy may fail.
Install(part, next) ==
  \/ /\ staging[part] # Absent
     /\ installed' = [installed EXCEPT ![part] = staging[part]]
     /\ apply' = next
     /\ UNCHANGED <<staging, upload, disturbed, halved, updates>>
  \/ staging[part] = Absent /\ Fail /\ UNCHANGED updates
  \/ Counted /\ Fail

\* install_binary_atomic: a copy beside the binary that is renamed over it.
ApplyBinary == apply = "binary" /\ Install("binary", "remove")

ApplyRemove ==
  /\ apply = "remove"
  /\ installed' = [installed EXCEPT !["www"] = Absent]
  /\ apply' = "www"
  /\ UNCHANGED <<staging, upload, disturbed, halved, updates>>

\* copy_dir_recursive: when it fails part of the directory may be there.
ApplyWww ==
  /\ apply = "www"
  /\ \/ Install("www", "meta")
     \/ /\ Counted
        /\ staging["www"] # Absent
        /\ installed' = [installed EXCEPT !["www"] = Partial]
        /\ apply' = "idle"
        /\ UNCHANGED <<staging, upload, disturbed, halved>>

\* install_meta_file: without a staged meta.json the old one stays.
ApplyMeta ==
  /\ apply = "meta"
  /\ \/ staging["meta"] # Absent /\ Install("meta", "clear")
     \/ /\ staging["meta"] = Absent
        /\ apply' = "clear"
        /\ UNCHANGED <<staging, installed, upload, disturbed, halved, updates>>

ApplyClear ==
  /\ apply = "clear"
  /\ staging' = Empty
  /\ apply' \in {"restart", "idle"}
  /\ halved' = (halved /\ Mixed)
  /\ UNCHANGED <<installed, upload, disturbed, updates>>

\* The service stops: its requests end, with what they run; the directories stay.
OtaStops ==
  /\ upload' = NoUpload
  /\ apply' = "idle"
  /\ UNCHANGED <<staging, installed, disturbed, halved>>

OtaNext ==
  \/ \E k \in Packages : UploadStart(k)
  \/ Unpack \/ UploadCheck \/ Cancel
  \/ ApplyStart \/ ApplyBinary \/ ApplyRemove \/ ApplyWww \/ ApplyMeta \/ ApplyClear

-----------------------------------------------------------------------------
\* What is installed was checked, and an update that stopped half way, at a
\* failing step or at a restart, can be applied again: the package the binary
\* is of is still staged and sound.  Unless another request touched the staging
\* directory meanwhile.  The binary is whole in any case; but a package that was
\* applied before all of it was unpacked, because a restart cut its upload off or
\* it still went on, leaves an incomplete web directory beside a binary and a
\* meta.json that agree, and nothing to apply again.  (handle_ota_upload,
\* validate_ota_package, apply_ota_update)
UpdateResumable ==
  ~disturbed =>
    /\ installed["binary"] \in Sound \cup {Old}
    /\ Mixed => \/ apply \in {"clear", "restart"}
                \/ Validated /\ installed["binary"] = staging["binary"]
                \/ /\ halved /\ installed["www"] = Partial
                   /\ installed["binary"] = installed["meta"]
=============================================================================
