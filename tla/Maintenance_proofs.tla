------------------------- MODULE Maintenance_proofs -------------------------
(***************************************************************************)
(* Proofs about Maintenance for any instance: the repair of lpac keeps a   *)
(* usable tree, an update that stopped half way can be applied again, the  *)
(* file holds the settings of the memory, what a restore replaces is in a  *)
(* snapshot, no notification of an eSIM operation is lost untold, the      *)
(* thresholds of the event monitor are exact, and every part keeps its     *)
(* types.  The parts share no state: each has its own invariant, which its *)
(* steps keep and which the steps of the others do not touch.              *)
(***************************************************************************)
EXTENDS Maintenance, SequenceTheorems, FiniteSetTheorems, TLAPS

-----------------------------------------------------------------------------
(* The repair of lpac.  The old tree is kept under another name only until  *)
(* the new one answered its probe, and nothing is in its place meanwhile.   *)
LpacInv ==
  /\ LpacTypeOK
  /\ repair.saved # Missing => repair.at \in {"place", "probe"}
  /\ At("place") => tree = Missing
  /\ At("probe") /\ proven => "usable" \in {repair.saved} \cup olds
  /\ At("verify") => tree = "usable"
  /\ ~At("idle") => reported # "installed"
  /\ TreeNotLost

LEMMA LpacAtInit == Init => LpacInv
<1> SUFFICES ASSUME LpacInit PROVE LpacInv
  BY DEF Init
<1> USE LpacAssumption DEF LpacInit, Resting, Missing, Trees, Built
<1>1. repair \in [at : {"idle"}, left : 0..MaxCandidates, fresh : Trees, saved : {Missing}]
  OBVIOUS
<1>2. proven \in BOOLEAN
  BY Zenon
<1>3. proven => tree = "usable"
  BY Zenon
<1> QED BY <1>1, <1>2, <1>3 DEF LpacInv, LpacTypeOK, TreeNotLost, At

(* What a failed candidate leaves in repair and reported.                   *)
LEMMA NextCandidateStep ==
  ASSUME LpacTypeOK, NextCandidate
  PROVE  /\ repair' \in [at : {"idle", "download"}, left : 0..MaxCandidates, fresh : {Missing},
                         saved : {Missing}]
         /\ reported' \in {"nothing", "installed", "failed"}
         /\ repair'.at = "idle" => reported' = "failed"
         /\ repair'.at = "download" => reported' = reported
<1> USE LpacAssumption DEF LpacTypeOK, NextCandidate, Resting
<1>1. CASE repair.left > 1
  <2>1. repair.left - 1 \in 0..MaxCandidates
    BY <1>1
  <2> QED BY <1>1, <2>1
<1>2. CASE ~(repair.left > 1)
  BY <1>2
<1> QED BY <1>1, <1>2

LEMMA LpacStep == LpacInv /\ LpacNext => LpacInv'
<1> SUFFICES ASSUME LpacInv, LpacNext PROVE LpacInv'
  OBVIOUS
<1> USE LpacAssumption DEF LpacInv, LpacTypeOK, TreeNotLost, At, Trees, Built, Missing
<1>0. /\ Spend => repairs' \in 0..MaxRepairs
      /\ UNCHANGED repairs => repairs' \in 0..MaxRepairs
  BY DEF Spend
<1>1. ASSUME NEW n \in 1..MaxCandidates, RepairBegins(n) PROVE LpacInv'
  <2>1. repair' = [at |-> "download", left |-> n, fresh |-> Missing, saved |-> Missing]
    BY <1>1 DEF RepairBegins, Resting
  <2>2. n \in 0..MaxCandidates
    BY <1>1
  <2>3. LpacTypeOK'
    BY <1>0, <1>1, <2>1, <2>2 DEF RepairBegins
  <2>4. repair'.at = "download" /\ repair'.saved = Missing
    BY <2>1
  <2>5. repair.at = "idle"
    BY <1>1 DEF RepairBegins
  <2>6. repair.saved = Missing
    BY <2>5
  <2>7. reported' = "nothing" /\ UNCHANGED <<tree, olds, proven>>
    BY <1>1 DEF RepairBegins
  <2> QED BY <2>3, <2>4, <2>6, <2>7
<1>2. CASE CandidateFails
  BY <1>0, <1>2, NextCandidateStep DEF CandidateFails
<1>3. CASE Downloaded
  BY <1>0, <1>3 DEF Downloaded
<1>4. ASSUME NEW k \in Built, Unpacked(k) PROVE LpacInv'
  BY <1>0, <1>4 DEF Unpacked
<1>5. CASE BackUp
  BY <1>0, <1>5 DEF BackUp
<1>6. CASE BackUpFails
  BY <1>0, <1>6, NextCandidateStep DEF BackUpFails
<1>7. CASE Place
  BY <1>0, <1>7 DEF Place
<1>8. CASE PlaceFails
  BY <1>0, <1>8, NextCandidateStep DEF PlaceFails
<1>9. CASE ProbeSucceeds
  BY <1>0, <1>9 DEF ProbeSucceeds, Abandoned
<1>10. CASE ProbeFails
  BY <1>0, <1>10, NextCandidateStep DEF ProbeFails
<1>11. CASE MoveBackFails
  BY <1>0, <1>11, NextCandidateStep DEF MoveBackFails, Abandoned
<1>12. CASE Verified
  BY <1>0, <1>12 DEF Verified, Resting
<1>13. CASE VerifyTimesOut
  BY <1>0, <1>13, NextCandidateStep DEF VerifyTimesOut
<1>14. CASE RepairDropped \/ LpacStops
  <2>1. /\ repair' \in [at : {"idle"}, left : 0..MaxCandidates, fresh : {Missing},
                        saved : {Missing}]
        /\ Spend /\ olds' = Abandoned /\ ~At("idle")
        /\ UNCHANGED <<tree, reported, proven>>
    BY <1>14 DEF RepairDropped, LpacStops, Resting
  <2> QED BY <1>0, <2>1 DEF Abandoned
<1> QED BY <1>1, <1>2, <1>3, <1>4, <1>5, <1>6, <1>7, <1>8, <1>9, <1>10, <1>11, <1>12, <1>13,
           <1>14 DEF LpacNext

LEMMA LpacRests == LpacInv /\ UNCHANGED lpac => LpacInv'
BY DEF LpacInv, LpacTypeOK, TreeNotLost, At, lpac

LEMMA LpacOfMaintenance == LpacInv /\ [Next]_vars => LpacInv'
BY LpacStep, LpacRests DEF Next, vars

(* A usable lpac is not lost, whatever step of a repair fails or is cut     *)
(* off, and "installed" is only reported of a usable one.                   *)
THEOREM TreeIsNotLost == Spec => []TreeNotLost
<1>1. LpacInv => TreeNotLost
  BY DEF LpacInv
<1> QED BY <1>1, LpacAtInit, LpacOfMaintenance, PTL DEF Spec

-----------------------------------------------------------------------------
(* The update.  Only one upload fills the staging directory, with one       *)
(* package, of which the web directory may be there in part.  While nobody  *)
(* else touches it, an update that has begun finds there what it validated, *)
(* and what it installed so far is of it.                                   *)
OneStaged ==
  \E k \in Packages \cup {Absent} :
    /\ staging["meta"] \in {Absent, k} /\ staging["binary"] \in {Absent, k}
    /\ staging["www"] \in {Absent, k, Partial}
    /\ upload.at \in Parts => upload.package = k

(* What a package that was applied before it was unpacked leaves behind.    *)
LeftHalf == halved /\ installed["www"] = Partial /\ installed["binary"] = installed["meta"]

OfStaged(p) == installed[p] = staging[p]

ResumeInv ==
  ~disturbed =>
    /\ installed["binary"] \in Sound \cup {Old}
    /\ apply \in {"binary", "remove", "www", "meta"} => Validated
    /\ apply \in {"remove", "www", "meta"} => OfStaged("binary")
    /\ apply = "meta" => OfStaged("www")
    /\ apply \in {"binary", "remove", "www", "meta"} /\ staging["www"] = Partial => halved
    /\ apply \in {"idle", "binary"} /\ Mixed => (Validated /\ OfStaged("binary")) \/ LeftHalf
    /\ apply \in {"clear", "restart"} /\ Mixed => LeftHalf

OtaInv ==
  /\ OtaTypeOK
  /\ upload.at \in Parts => upload.package \in Packages
  /\ OneStaged
  /\ ResumeInv

LEMMA OtaAtInit == Init => OtaInv
<1> SUFFICES ASSUME OtaInit PROVE OtaInv
  BY DEF Init
<1> USE OtaAssumption DEF OtaInit
<1>1. staging \in [Parts -> Packages \cup {Absent, Partial}] /\ OneStaged
  BY DEF Empty, OneStaged, NoUpload, Parts
<1>2. /\ installed = Whole(Old)
      /\ installed \in [Parts -> Packages \cup {Absent, Partial, Old}]
  BY DEF Whole
<1>3. ~Mixed
  BY <1>2 DEF Mixed
<1>4. disturbed \in BOOLEAN /\ halved \in BOOLEAN
  BY Zenon
<1>5. OtaTypeOK
  BY <1>1, <1>2, <1>4 DEF OtaTypeOK, NoUpload
<1>6. ResumeInv
  BY <1>2, <1>3 DEF ResumeInv, Parts, Whole
<1> QED BY <1>1, <1>5, <1>6 DEF OtaInv, NoUpload, Parts

(* The staging directory is touched by somebody else than an update.        *)
LEMMA OtaDisturbed ==
  ASSUME OtaInv, Disturbs, apply' = apply, UNCHANGED <<installed, halved>>,
         staging' \in [Parts -> Packages \cup {Absent, Partial}], OneStaged',
         upload' \in [at : {"idle", "check"} \cup Parts, package : Packages \cup {Absent}],
         upload'.at \in Parts => upload'.package \in Packages,
         updates' \in 0..MaxUpdates
  PROVE  OtaInv'
<1>1. disturbed' \in BOOLEAN
  BY DEF Disturbs
<1>2. OtaTypeOK'
  BY <1>1 DEF OtaInv, OtaTypeOK
<1>3. ~disturbed' => ~disturbed /\ ~Mixed /\ apply \in {"idle", "restart"}
  BY DEF Disturbs, Unfinished
<1>4. Mixed' <=> Mixed
  BY DEF Mixed
<1>5. ResumeInv'
  BY <1>3, <1>4 DEF OtaInv, ResumeInv
<1> QED BY <1>2, <1>5 DEF OtaInv

(* The directory is cleared.                                                *)
LEMMA Cleared ==
  ASSUME OtaInv, staging' = Empty, upload' = upload \/ upload'.at \notin Parts
  PROVE  staging' \in [Parts -> Packages \cup {Absent, Partial}] /\ OneStaged'
<1>1. /\ staging' \in [Parts -> Packages \cup {Absent, Partial}]
      /\ \A p \in Parts : staging'[p] = Absent
  BY DEF Empty
<1>2. /\ staging'["meta"] = Absent /\ staging'["binary"] = Absent /\ staging'["www"] = Absent
  BY <1>1 DEF Parts
<1>3. PICK k \in Packages \cup {Absent} : upload.at \in Parts => upload.package = k
  BY DEF OtaInv, OneStaged
<1> QED BY <1>1, <1>2, <1>3 DEF OneStaged

(* A step of an update that ends it.                                        *)
LEMMA OtaFail ==
  ASSUME OtaInv, Fail, apply \in {"binary", "remove", "www", "meta"},
         updates' \in 0..MaxUpdates
  PROVE  OtaInv'
<1>1. OtaTypeOK' /\ OneStaged'
  BY DEF OtaInv, OtaTypeOK, OneStaged, Fail
<1>2. (Mixed' <=> Mixed) /\ (Validated' <=> Validated)
  BY DEF Mixed, Validated, Fail
<1>3. ResumeInv'
  BY <1>2 DEF OtaInv, ResumeInv, LeftHalf, OfStaged, Fail
<1> QED BY <1>1, <1>3 DEF OtaInv, Fail

(* A staged part is installed.                                              *)
LEMMA OtaInstall ==
  ASSUME OtaInv, NEW part \in Parts, NEW next, staging[part] # Absent,
         installed' = [installed EXCEPT ![part] = staging[part]],
         apply' = next,
         \/ apply = "binary" /\ part = "binary" /\ next = "remove"
         \/ apply = "www" /\ part = "www" /\ next = "meta"
         \/ apply = "meta" /\ part = "meta" /\ next = "clear",
         UNCHANGED <<staging, upload, disturbed, halved, updates>>
  PROVE  OtaInv'
<1>1. OtaTypeOK' /\ OneStaged'
  BY DEF OtaInv, OtaTypeOK, OneStaged
<1>2. /\ \A p \in Parts : installed'[p] = IF p = part THEN staging[p] ELSE installed[p]
      /\ installed' = [p \in Parts |-> installed'[p]]
  BY DEF OtaInv, OtaTypeOK
<1>3. Validated' <=> Validated
  BY DEF Validated
<1>4. CASE next # "clear"
  <2>1. ResumeInv'
    BY <1>2, <1>3, <1>4 DEF OtaInv, ResumeInv, OfStaged, Validated, Parts
  <2> QED BY <1>1, <2>1 DEF OtaInv
<1>5. CASE next = "clear"
  <2> SUFFICES ASSUME ~disturbed' PROVE ResumeInv'
    BY <1>1 DEF OtaInv, ResumeInv
  <2>1. /\ Validated /\ OfStaged("binary") /\ OfStaged("www")
        /\ staging["meta"] = staging["binary"] /\ staging["binary"] \in Packages
        /\ staging["www"] = Partial => halved
    BY <1>5, OtaAssumption DEF OtaInv, ResumeInv, Parts, Validated
  <2>2. staging["www"] \in {staging["binary"], Partial}
    BY <2>1, NamesAssumption DEF OtaInv, OneStaged, Validated, Parts
  <2>3. CASE staging["www"] = staging["binary"]
    <3>1. installed' = Whole(staging["binary"])
      BY <1>2, <1>5, <2>1, <2>3 DEF OfStaged, Whole, Parts
    <3>2. ~Mixed'
      BY <2>1, <3>1 DEF Mixed
    <3> QED BY <1>2, <1>5, <2>1, <3>2 DEF ResumeInv, OfStaged, Validated, Parts
  <2>4. CASE staging["www"] = Partial
    <3>1. LeftHalf'
      BY <1>2, <1>5, <2>1, <2>4 DEF LeftHalf, OfStaged, Parts
    <3> QED BY <1>2, <1>5, <2>1, <3>1 DEF ResumeInv, OfStaged, Validated, Parts
  <2> QED BY <2>2, <2>3, <2>4
<1> QED BY <1>4, <1>5

LEMMA OtaStep == OtaInv /\ OtaNext => OtaInv'
<1> SUFFICES ASSUME OtaInv, OtaNext PROVE OtaInv'
  OBVIOUS
<1> USE OtaAssumption
<1>0. /\ Counted => updates' \in 0..MaxUpdates
      /\ UNCHANGED updates => updates' \in 0..MaxUpdates
  BY DEF OtaInv, OtaTypeOK, Counted
<1>1. ASSUME NEW k \in Packages, UploadStart(k) PROVE OtaInv'
  <2>1. upload' \in [at : {"meta"}, package : {k}] /\ staging' = Empty
    BY <1>1 DEF UploadStart
  <2>2. /\ staging' \in [Parts -> Packages \cup {Absent, Partial}]
        /\ \A p \in Parts : staging'[p] = Absent
    BY <2>1 DEF Empty
  <2>3. OneStaged'
    BY <2>1, <2>2 DEF OneStaged, Parts
  <2> QED BY <1>0, <1>1, <2>1, <2>2, <2>3, OtaDisturbed DEF UploadStart, Parts
<1>2. CASE Unpack
  <2>1. /\ upload.at \in Parts /\ upload.package \in Packages
        /\ upload \in [at : {"idle", "check"} \cup Parts, package : Packages \cup {Absent}]
        /\ staging \in [Parts -> Packages \cup {Absent, Partial}]
    BY <1>2 DEF Unpack, OtaInv, OtaTypeOK
  <2>2. /\ staging["meta"] \in {Absent, upload.package}
        /\ staging["binary"] \in {Absent, upload.package}
        /\ staging["www"] \in {Absent, upload.package, Partial}
    BY <2>1 DEF OtaInv, OneStaged
  <2>3. CASE /\ staging' = [staging EXCEPT ![upload.at] = upload.package]
             /\ upload' = [upload EXCEPT !.at = Following(@)] /\ UNCHANGED updates
    <3>1. /\ upload' \in [at : {"check"} \cup Parts, package : Packages]
          /\ upload'.package = upload.package
      BY <2>1, <2>3 DEF Following, Parts
    <3>2. staging' \in [Parts -> Packages \cup {Absent, Partial}] /\ OneStaged'
      BY <2>1, <2>2, <2>3, <3>1 DEF OneStaged, Parts
    <3> QED BY <1>0, <1>2, <2>3, <3>1, <3>2, OtaDisturbed DEF Unpack
  <2>4. CASE /\ staging' = [staging EXCEPT !["www"] = Partial] /\ UNCHANGED <<upload, updates>>
    <3>1. staging' \in [Parts -> Packages \cup {Absent, Partial}] /\ OneStaged'
      BY <2>1, <2>2, <2>4 DEF OneStaged, Parts
    <3> QED BY <1>0, <1>2, <2>1, <2>4, <3>1, OtaDisturbed DEF Unpack
  <2>5. CASE Counted /\ staging' = Empty /\ upload' = NoUpload
    <3>1. upload' \in [at : {"idle"}, package : {Absent}] /\ upload'.at \notin Parts
      BY <2>5 DEF NoUpload, Parts
    <3> QED BY <1>0, <1>2, <2>5, <3>1, Cleared, OtaDisturbed DEF Unpack
  <2> QED BY <1>2, <2>3, <2>4, <2>5 DEF Unpack
<1>3. CASE UploadCheck
  <2>1. upload' \in [at : {"idle"}, package : {Absent}] /\ upload'.at \notin Parts
    BY <1>3 DEF UploadCheck, NoUpload, Parts
  <2>2. CASE Validated
    <3>1. UNCHANGED <<staging, installed, apply, disturbed, halved, updates>>
      BY <1>3, <2>2 DEF UploadCheck
    <3>2. OneStaged'
      BY <2>1, <3>1 DEF OtaInv, OneStaged
    <3> QED BY <2>1, <3>1, <3>2
            DEF OtaInv, OtaTypeOK, ResumeInv, LeftHalf, OfStaged, Mixed, Validated
  <2>3. CASE ~Validated
    <3>1. staging' = Empty /\ Disturbs /\ UNCHANGED <<installed, apply, halved, updates>>
      BY <1>3, <2>3 DEF UploadCheck
    <3> QED BY <1>0, <2>1, <3>1, Cleared, OtaDisturbed
  <2> QED BY <2>2, <2>3
<1>4. CASE Cancel
  <2>1. staging' \in [Parts -> Packages \cup {Absent, Partial}] /\ OneStaged'
    BY <1>4, Cleared DEF Cancel
  <2> QED BY <1>0, <1>4, <2>1, OtaDisturbed DEF Cancel, OtaInv, OtaTypeOK
<1>5. CASE ApplyStart
  <2>1. CASE Validated
    <3>1. /\ apply = "idle" /\ apply' = "binary" /\ Counted
          /\ UNCHANGED <<staging, installed, upload, disturbed>>
          /\ halved' = (halved \/ staging["www"] = Partial)
      BY <1>5, <2>1 DEF ApplyStart
    <3>2. /\ halved' \in BOOLEAN /\ halved => halved'
          /\ staging["www"] = Partial => halved'
      BY <3>1
    <3>3. (Mixed' <=> Mixed) /\ (Validated' <=> Validated)
      BY <3>1 DEF Mixed, Validated
    <3>4. ResumeInv'
      BY <2>1, <3>1, <3>2, <3>3 DEF OtaInv, ResumeInv, LeftHalf, OfStaged
    <3> QED BY <1>0, <3>1, <3>2, <3>4 DEF OtaInv, OtaTypeOK, OneStaged
  <2>2. CASE ~Validated /\ staging["meta"] = Absent
    <3>1. /\ apply = "idle" /\ Counted
          /\ UNCHANGED <<staging, installed, upload, apply, disturbed>>
          /\ halved' = (halved \/ FALSE)
      BY <1>5, <2>2 DEF ApplyStart
    <3>2. halved' = halved
      BY <3>1 DEF OtaInv, OtaTypeOK
    <3>3. (Mixed' <=> Mixed) /\ (Validated' <=> Validated)
      BY <3>1 DEF Mixed, Validated
    <3>4. ResumeInv'
      BY <3>1, <3>2, <3>3 DEF OtaInv, ResumeInv, LeftHalf, OfStaged
    <3> QED BY <1>0, <3>1, <3>2, <3>4 DEF OtaInv, OtaTypeOK, OneStaged
  <2>3. CASE ~Validated /\ staging["meta"] # Absent
    <3>1. /\ apply' = apply /\ Counted /\ staging' = Empty /\ Disturbs
          /\ UNCHANGED <<installed, upload>> /\ halved' = (halved \/ FALSE)
      BY <1>5, <2>3 DEF ApplyStart
    <3>2. halved' = halved
      BY <3>1 DEF OtaInv, OtaTypeOK
    <3> QED BY <1>0, <3>1, <3>2, Cleared, OtaDisturbed DEF OtaInv, OtaTypeOK
  <2> QED BY <2>1, <2>2, <2>3
<1>6. CASE ApplyBinary
  BY <1>0, <1>6, OtaInstall, OtaFail DEF ApplyBinary, Install, Parts
<1>7. CASE ApplyRemove
  <2>1. \A p \in Parts : p # "www" => installed'[p] = installed[p]
    BY <1>7 DEF ApplyRemove, OtaInv, OtaTypeOK
  <2>2. OtaTypeOK' /\ OneStaged'
    BY <1>7 DEF ApplyRemove, OtaInv, OtaTypeOK, OneStaged
  <2>3. ResumeInv'
    BY <1>7, <2>1 DEF ApplyRemove, OtaInv, ResumeInv, OfStaged, Validated, Parts
  <2> QED BY <1>7, <2>2, <2>3 DEF ApplyRemove, OtaInv
<1>8. CASE ApplyWww
  <2>1. CASE Install("www", "meta")
    BY <1>0, <1>8, <2>1, OtaInstall, OtaFail DEF ApplyWww, Install, Parts
  <2>2. CASE ~Install("www", "meta")
    <3>1. /\ Counted /\ apply = "www" /\ apply' = "idle"
          /\ installed' = [installed EXCEPT !["www"] = Partial]
          /\ UNCHANGED <<staging, upload, disturbed, halved>>
      BY <1>8, <2>2 DEF ApplyWww
    <3>2. \A p \in Parts : p # "www" => installed'[p] = installed[p]
      BY <3>1 DEF OtaInv, OtaTypeOK
    <3>3. OtaTypeOK' /\ OneStaged'
      BY <1>0, <3>1 DEF OtaInv, OtaTypeOK, OneStaged
    <3>4. ResumeInv'
      BY <3>1, <3>2 DEF OtaInv, ResumeInv, OfStaged, Validated, Parts
    <3> QED BY <3>1, <3>3, <3>4 DEF OtaInv
  <2> QED BY <2>1, <2>2
<1>9. CASE ApplyMeta
  <2>1. CASE staging["meta"] # Absent
    BY <1>0, <1>9, <2>1, OtaInstall, OtaFail DEF ApplyMeta, Install, Parts
  <2>2. CASE staging["meta"] = Absent
    <3>1. /\ apply = "meta" /\ apply' = "clear"
          /\ UNCHANGED <<staging, installed, upload, disturbed, halved, updates>>
      BY <1>9, <2>2 DEF ApplyMeta
    <3>2. disturbed
      BY <2>2, <3>1 DEF OtaInv, ResumeInv, Validated, Parts
    <3> QED BY <3>1, <3>2 DEF OtaInv, OtaTypeOK, OneStaged, ResumeInv
  <2> QED BY <2>1, <2>2
<1>10. CASE ApplyClear
  <2>1. /\ apply = "clear" /\ apply' \in {"restart", "idle"} /\ staging' = Empty
        /\ UNCHANGED <<installed, upload, disturbed, updates>>
    BY <1>10 DEF ApplyClear
  <2>2. staging' \in [Parts -> Packages \cup {Absent, Partial}] /\ OneStaged'
    BY <2>1, Cleared
  <2>3. /\ Mixed' <=> Mixed
        /\ halved' \in BOOLEAN /\ (halved' <=> halved /\ Mixed)
    <3>1. Mixed' <=> Mixed
      BY <2>1 DEF Mixed
    <3>2. Mixed \in BOOLEAN
      BY DEF Mixed
    <3>3. halved' = (halved /\ Mixed)
      BY <1>10 DEF ApplyClear
    <3>4. halved \in BOOLEAN
      BY DEF OtaInv, OtaTypeOK
    <3> HIDE DEF Mixed
    <3> QED BY <3>1, <3>2, <3>3, <3>4
  <2>4. OtaTypeOK'
    BY <2>1, <2>2, <2>3 DEF OtaInv, OtaTypeOK
  <2>5. ResumeInv'
    BY <2>1, <2>3 DEF OtaInv, ResumeInv, LeftHalf
  <2> QED BY <2>1, <2>2, <2>4, <2>5 DEF OtaInv
<1> QED BY <1>1, <1>2, <1>3, <1>4, <1>5, <1>6, <1>7, <1>8, <1>9, <1>10 DEF OtaNext

LEMMA OtaRests == OtaInv /\ UNCHANGED ota => OtaInv'
BY DEF OtaInv, OtaTypeOK, OneStaged, ResumeInv, LeftHalf, OfStaged, Mixed, Validated, ota

(* A restart leaves the directories as they are.                            *)
LEMMA OtaRestarts ==
  ASSUME OtaInv, OtaStops, updates' = updates
  PROVE  OtaInv'
<1>1. upload' \in [at : {"idle"}, package : {Absent}] /\ upload'.at \notin Parts
  BY DEF OtaStops, NoUpload, Parts
<1>2. (Mixed' <=> Mixed) /\ (Validated' <=> Validated)
  BY DEF OtaStops, Mixed, Validated
<1>3. OtaTypeOK' /\ OneStaged'
  BY <1>1 DEF OtaInv, OtaTypeOK, OneStaged, OtaStops
<1>4. ResumeInv'
  BY <1>2 DEF OtaInv, OtaTypeOK, ResumeInv, LeftHalf, OfStaged, OtaStops
<1> QED BY <1>1, <1>3, <1>4 DEF OtaInv

LEMMA OtaOfMaintenance == OtaInv /\ [Next]_vars => OtaInv'
<1> SUFFICES ASSUME OtaInv, [Next]_vars PROVE OtaInv'
  OBVIOUS
<1>1. CASE OtaNext
  BY <1>1, OtaStep
<1>2. CASE RestartByUpdate \/ RestartOtherwise
  BY <1>2, OtaRestarts DEF RestartByUpdate, RestartOtherwise
<1>3. CASE UNCHANGED ota
  BY <1>3, OtaRests
<1> QED BY <1>1, <1>2, <1>3 DEF Next, Files, vars

(* An update that a failing step or a restart stopped half way can be       *)
(* applied again: the package of the installed binary is still staged and   *)
(* sound, unless another request touched the directory.  One that was       *)
(* applied before all of it was unpacked leaves the web directory           *)
(* incomplete, and only that.  (apply_ota_update, validate_ota_package)     *)
THEOREM UpdatesResume == Spec => []UpdateResumable
<1>1. OtaInv => UpdateResumable
  BY DEF OtaInv, OtaTypeOK, ResumeInv, LeftHalf, UpdateResumable, OfStaged
<1> QED BY <1>1, OtaAtInit, OtaOfMaintenance, PTL DEF Spec

-----------------------------------------------------------------------------
(* Settings and their restoration.  What is being written is the memory, as *)
(* nothing changes it meanwhile; a file that is cut off is being written or *)
(* was left by a save that failed.                                          *)
SavingInv ==
  /\ \A r \in Requests : request[r].at = "write" => request[r].text = memory
  /\ torn => unsaved \/ Writing # {}
  /\ \/ unsaved
     \/ \E r \in Requests : request[r].at \in {"save", "write"}
     \/ ~torn /\ file = memory

(* Each default component that a restore has still to replace, and that     *)
(* nobody changed since its snapshot, is in a snapshot as it is now.        *)
Covered(c) ==
  Value(c) = Package \/ \E i \in DOMAIN snapshots : snapshots[i][c] = Value(c)

CoverInv ==
  /\ SnapshotCovers
  /\ \A r \in Requests :
       request[r].kind = "restore" /\ request[r].at \in {"read", "commit", "replace"} =>
         \A c \in (request[r].parts \cap Default) \ request[r].stale : Covered(c)

(* What a request carries from its steps to the next.                       *)
CarriesInv ==
  \A r \in Requests :
    /\ request[r].kind = "restore" => request[r].parts \subseteq Restorable
    /\ request[r].at = "replace" => request[r].next \in Settings
    /\ request[r].at = "commit" /\ request[r].kind # "clear" => request[r].next \in Settings
    /\ request[r].at = "write" => request[r].text \in Settings

BackupInv == BackupTypeOK /\ CarriesInv /\ SavingInv /\ CoverInv

RequestType ==
  [at : {"idle", "snapshot", "read", "commit", "replace", "save", "write"},
   kind : {"none", "set", "restore", "clear"}, parts : SUBSET Components,
   next : Settings \cup {<<>>}, text : Settings \cup {<<>>}, stale : SUBSET Components]

LEMMA IdleType == Idle \in RequestType
BY DEF Idle, RequestType

(* A step of a thread changes its own record, and of the others what is     *)
(* stale.                                                                   *)
LEMMA GoesStep ==
  ASSUME request \in [Requests -> RequestType], NEW r \in Requests, NEW rec \in RequestType,
         NEW changed \in SUBSET Components, Goes(r, rec, changed)
  PROVE  /\ request' \in [Requests -> RequestType]
         /\ request'[r] = rec
         /\ \A q \in Requests \ {r} :
              /\ request'[q].at = request[q].at
              /\ request'[q].kind = request[q].kind
              /\ request'[q].parts = request[q].parts
              /\ request'[q].next = request[q].next
              /\ request'[q].text = request[q].text
              /\ request[q].kind = "restore"
                   => request'[q].stale = request[q].stale \cup changed
<1>1. \A q \in Requests : request[q] \in RequestType
  OBVIOUS
<1>2. \A q \in Requests : request'[q] =
        IF q = r THEN rec
        ELSE IF request[q].kind = "restore"
             THEN [request[q] EXCEPT !.stale = request[q].stale \cup changed]
             ELSE request[q]
  BY DEF Goes
<1>3. request' = [q \in Requests |-> request'[q]]
  BY <1>2 DEF Goes
<1>4. \A q \in Requests :
        [request[q] EXCEPT !.stale = request[q].stale \cup changed] \in RequestType
  BY <1>1 DEF RequestType
<1>5. \A q \in Requests : request'[q] \in RequestType
  BY <1>1, <1>2, <1>4
<1>6. request' \in [Requests -> RequestType]
  BY <1>3, <1>5
<1> QED BY <1>1, <1>2, <1>6 DEF RequestType

LEMMA BackupAtInit == Init => BackupInv
<1> SUFFICES ASSUME BackupInit PROVE BackupInv
  BY DEF Init
<1> USE BackupAssumption DEF BackupInit
<1>1. Initial \in Values
  BY DEF Initial, Values, Package
<1>2. memory \in Settings /\ file \in Settings /\ db \in [Tables -> Values]
  BY <1>1 DEF Settings
<1>3. \A r \in Requests : request[r] = Idle
  OBVIOUS
<1>4. request \in [Requests -> RequestType]
  BY IdleType
<1>5. snapshots \in Seq([Default -> Values]) /\ Len(snapshots) <= MaxFiles
  OBVIOUS
<1>6. torn \in BOOLEAN /\ unsaved \in BOOLEAN /\ ~torn
  BY Zenon
<1>7. BackupTypeOK
  BY <1>2, <1>4, <1>5, <1>6 DEF BackupTypeOK, RequestType
<1>8. CarriesInv /\ SavingInv /\ CoverInv
  BY <1>3, <1>6 DEF Idle, CarriesInv, SavingInv, CoverInv, SnapshotCovers
<1> QED BY <1>7, <1>8 DEF BackupInv

(* What an action has to say of its own request, for the rest to stay true. *)
RecordCarries(rec) ==
  /\ rec.kind = "restore" => rec.parts \subseteq Restorable
  /\ rec.at = "replace" => rec.next \in Settings
  /\ rec.at = "commit" /\ rec.kind # "clear" => rec.next \in Settings
  /\ rec.at = "write" => rec.text \in Settings

Restoring(rec) == rec.kind = "restore" /\ rec.at \in {"read", "commit", "replace"}

LEMMA CarriesKept ==
  ASSUME BackupInv, NEW r \in Requests, NEW rec \in RequestType,
         NEW changed \in SUBSET Components, Goes(r, rec, changed), RecordCarries(rec)
  PROVE  CarriesInv'
<1>1. request \in [Requests -> RequestType]
  BY DEF BackupInv, BackupTypeOK, RequestType
<1> QED BY <1>1, GoesStep DEF BackupInv, CarriesInv, RecordCarries

(* A request that neither saves nor begins to, and changes no setting.      *)
LEMMA SavingKept ==
  ASSUME BackupInv, NEW r \in Requests, NEW rec \in RequestType,
         NEW changed \in SUBSET Components, Goes(r, rec, changed),
         request[r].at \notin {"save", "write"}, rec.at # "write",
         UNCHANGED <<memory, file, torn, unsaved>>
  PROVE  SavingInv'
<1>1. request \in [Requests -> RequestType]
  BY DEF BackupInv, BackupTypeOK, RequestType
<1>2. /\ request'[r] = rec
      /\ \A q \in Requests \ {r} : request'[q].at = request[q].at
                                   /\ request'[q].text = request[q].text
  BY <1>1, GoesStep
<1>3. Writing' = Writing
  BY <1>2 DEF Writing
<1> QED BY <1>2, <1>3 DEF BackupInv, SavingInv

(* A change of components makes the other restorations stale for them.      *)
LEMMA CoverKept ==
  ASSUME BackupInv, NEW r \in Requests, NEW rec \in RequestType,
         NEW changed \in SUBSET Components, Goes(r, rec, changed),
         snapshots' = snapshots,
         \A c \in Components \ changed : Value(c)' = Value(c),
         SnapshotCovers',
         Restoring(rec) => \A c \in (rec.parts \cap Default) \ rec.stale : Covered(c)'
  PROVE  CoverInv'
<1>1. request \in [Requests -> RequestType]
  BY DEF BackupInv, BackupTypeOK, RequestType
<1>2. SUFFICES ASSUME NEW q \in Requests, Restoring(request'[q]),
                      NEW c \in (request'[q].parts \cap Default) \ request'[q].stale
               PROVE  Covered(c)'
  BY DEF CoverInv, Restoring
<1>3. CASE q = r
  BY <1>1, <1>2, <1>3, GoesStep
<1>4. CASE q # r
  <2>1. /\ Restoring(request[q])
        /\ request'[q].parts = request[q].parts
        /\ request'[q].stale = request[q].stale \cup changed
    BY <1>1, <1>2, <1>4, GoesStep DEF Restoring
  <2>2. c \in (request[q].parts \cap Default) \ request[q].stale /\ c \notin changed
    BY <2>1
  <2>3. Covered(c)
    BY <2>1, <2>2 DEF BackupInv, CoverInv, Restoring
  <2>4. c \in Components
    BY BackupAssumption
  <2>5. Value(c)' = Value(c)
    BY <2>2, <2>4
  <2> QED BY <2>3, <2>5 DEF Covered
<1> QED BY <1>3, <1>4

-----------------------------------------------------------------------------
(* The pre-restore directory.                                               *)
Snapshots == [Default -> Values]

LEMMA SnapshotType ==
  ASSUME BackupTypeOK
  PROVE  Snapshot \in Snapshots /\ \A c \in Components : Value(c) \in Values
<1>1. \A c \in Components : Value(c) \in Values
  BY DEF BackupTypeOK, Settings, Value, Components
<1>2. Default \subseteq Components
  BY BackupAssumption
<1> QED BY <1>1, <1>2 DEF Snapshot, Snapshots

(* The newest files are few enough, and the latest is among them.           *)
LEMMA NewestFiles ==
  ASSUME NEW S, NEW files \in Seq(S), Len(files) > 0
  PROVE  /\ Newest(files) \in Seq(S)
         /\ Len(Newest(files)) \in 1..MaxFiles
         /\ Newest(files)[Len(Newest(files))] = files[Len(files)]
<1>1. Len(files) \in Nat /\ MaxFiles \in Nat \ {0}
  BY BackupAssumption, LenProperties
<1>2. CASE Len(files) <= MaxFiles
  BY <1>1, <1>2 DEF Newest
<1>3. CASE ~(Len(files) <= MaxFiles)
  <2> DEFINE m == Len(files) - MaxFiles + 1
  <2>1. m \in Int /\ m >= 1 /\ m <= Len(files)
    BY <1>1, <1>3
  <2>2. \A i \in m..Len(files) : files[i] \in S
    BY <2>1, ElementOfSeq
  <2>3. Newest(files) = SubSeq(files, m, Len(files))
    BY <1>3 DEF Newest
  <2> HIDE DEF m
  <2>4. /\ SubSeq(files, m, Len(files)) \in Seq(S)
        /\ Len(SubSeq(files, m, Len(files))) = Len(files) - m + 1
        /\ \A i \in 1..(Len(files) - m + 1) : SubSeq(files, m, Len(files))[i] = files[m + i - 1]
    BY <1>1, <2>1, <2>2, SubSeqProperties
  <2>5. Len(files) - m + 1 = MaxFiles
    BY <1>1 DEF m
  <2>6. SubSeq(files, m, Len(files))[MaxFiles] = files[m + MaxFiles - 1]
    BY <1>1, <2>4, <2>5
  <2>7. m + MaxFiles - 1 = Len(files)
    BY <1>1 DEF m
  <2> QED BY <1>1, <2>3, <2>4, <2>5, <2>6, <2>7
<1> QED BY <1>2, <1>3

(* Where a snapshot is put, it is found.                                    *)
LEMMA SnapshotFiles ==
  ASSUME BackupTypeOK
  PROVE  /\ LET kept == Newest(Append(snapshots, Snapshot))
            IN  kept \in Seq(Snapshots) /\ Len(kept) <= MaxFiles
                /\ \E i \in DOMAIN kept : kept[i] = Snapshot
         /\ snapshots # <<>> =>
              LET kept == Append(Front(snapshots), Snapshot)
              IN  kept \in Seq(Snapshots) /\ Len(kept) <= MaxFiles
                  /\ \E i \in DOMAIN kept : kept[i] = Snapshot
         /\ LET kept == Newest(<<Snapshot>> \o snapshots)
            IN  kept \in Seq(Snapshots) /\ Len(kept) <= MaxFiles
                /\ (Len(snapshots) < MaxFiles => \E i \in DOMAIN kept : kept[i] = Snapshot)
<1>1. /\ Snapshot \in Snapshots
      /\ snapshots \in Seq(Snapshots) /\ Len(snapshots) \in Nat /\ Len(snapshots) <= MaxFiles
  BY SnapshotType, LenProperties DEF BackupTypeOK, Snapshots
<1>2. MaxFiles \in Nat \ {0}
  BY BackupAssumption
<1> HIDE DEF Snapshots
<1>3. LET kept == Newest(Append(snapshots, Snapshot))
      IN  kept \in Seq(Snapshots) /\ Len(kept) <= MaxFiles
          /\ \E i \in DOMAIN kept : kept[i] = Snapshot
  <2> DEFINE files == Append(snapshots, Snapshot)
             kept == Newest(files)
  <2>1. files \in Seq(Snapshots) /\ Len(files) = Len(snapshots) + 1
        /\ files[Len(files)] = Snapshot
    BY <1>1
  <2> HIDE DEF files
  <2>2. kept \in Seq(Snapshots) /\ Len(kept) \in 1..MaxFiles /\ kept[Len(kept)] = Snapshot
    BY <1>1, <2>1, NewestFiles
  <2>3. DOMAIN kept = 1..Len(kept)
    BY <2>2, LenProperties
  <2>4. Len(kept) <= MaxFiles /\ Len(kept) \in DOMAIN kept
    BY <1>2, <2>2, <2>3
  <2> HIDE DEF kept
  <2>5. /\ kept \in Seq(Snapshots) /\ Len(kept) <= MaxFiles
        /\ \E i \in DOMAIN kept : kept[i] = Snapshot
    BY <2>2, <2>4
  <2> QED BY <2>5 DEF kept, files
<1>4. ASSUME snapshots # <<>>
      PROVE  LET kept == Append(Front(snapshots), Snapshot)
             IN  kept \in Seq(Snapshots) /\ Len(kept) <= MaxFiles
                 /\ \E i \in DOMAIN kept : kept[i] = Snapshot
  <2>1. Len(snapshots) >= 1
    BY <1>1, <1>4, EmptySeq
  <2> DEFINE n == Len(snapshots) - 1
  <2>2. n \in Int /\ n >= 0
    BY <1>1, <2>1
  <2>3. \A i \in 1..n : snapshots[i] \in Snapshots
    BY <1>1, ElementOfSeq
  <2> HIDE DEF n
  <2>4. SubSeq(snapshots, 1, n) \in Seq(Snapshots) /\ Len(SubSeq(snapshots, 1, n)) = n
    BY <2>2, <2>3, SubSeqProperties
  <2>5. Front(snapshots) \in Seq(Snapshots) /\ Len(Front(snapshots)) = Len(snapshots) - 1
    BY <2>4 DEF Front, n
  <2> DEFINE kept == Append(Front(snapshots), Snapshot)
  <2>6. kept \in Seq(Snapshots) /\ Len(kept) = Len(snapshots) /\ kept[Len(kept)] = Snapshot
    BY <1>1, <2>5
  <2>7. Len(kept) \in DOMAIN kept
    BY <2>1, <2>6, LenProperties
  <2> HIDE DEF kept
  <2>8. /\ kept \in Seq(Snapshots) /\ Len(kept) <= MaxFiles
        /\ \E i \in DOMAIN kept : kept[i] = Snapshot
    BY <1>1, <2>6, <2>7
  <2> QED BY <2>8 DEF kept
<1>5. LET kept == Newest(<<Snapshot>> \o snapshots)
      IN  kept \in Seq(Snapshots) /\ Len(kept) <= MaxFiles
          /\ (Len(snapshots) < MaxFiles => \E i \in DOMAIN kept : kept[i] = Snapshot)
  <2> DEFINE files == <<Snapshot>> \o snapshots
             kept == Newest(files)
  <2>1. <<Snapshot>> \in Seq(Snapshots) /\ Len(<<Snapshot>>) = 1 /\ <<Snapshot>>[1] = Snapshot
    BY <1>1
  <2>2. files \in Seq(Snapshots) /\ Len(files) = 1 + Len(snapshots) /\ files[1] = Snapshot
    BY <1>1, <2>1, ConcatProperties
  <2>3. DOMAIN files = 1..Len(files)
    BY <2>2, LenProperties
  <2> HIDE DEF files
  <2>4. kept \in Seq(Snapshots) /\ Len(kept) \in 1..MaxFiles
    BY <1>1, <2>2, NewestFiles
  <2>5. Len(snapshots) < MaxFiles => kept = files
    BY <1>1, <1>2, <2>2 DEF Newest
  <2>6. Len(kept) <= MaxFiles
    BY <1>2, <2>4
  <2>7. 1 \in DOMAIN files
    BY <1>1, <2>2, <2>3
  <2> HIDE DEF kept
  <2>8. /\ kept \in Seq(Snapshots) /\ Len(kept) <= MaxFiles
        /\ Len(snapshots) < MaxFiles => \E i \in DOMAIN kept : kept[i] = Snapshot
    BY <2>2, <2>4, <2>5, <2>6, <2>7
  <2> QED BY <2>8 DEF kept, files
<1> QED BY <1>3, <1>4, <1>5

LEMMA FileDeleted ==
  ASSUME BackupTypeOK, NEW i \in DOMAIN snapshots
  PROVE  /\ RemoveAt(snapshots, i) \in Seq(Snapshots)
         /\ Len(RemoveAt(snapshots, i)) <= MaxFiles
<1>1. /\ snapshots \in Seq(Snapshots) /\ Len(snapshots) \in Nat /\ Len(snapshots) <= MaxFiles
      /\ i \in 1..Len(snapshots)
  BY LenProperties DEF BackupTypeOK, Snapshots
<1> DEFINE a == SubSeq(snapshots, 1, i - 1)
           b == SubSeq(snapshots, i + 1, Len(snapshots))
<1>2. a \in Seq(Snapshots) /\ Len(a) = i - 1
  <2>1. \A j \in 1..(i - 1) : snapshots[j] \in Snapshots
    BY <1>1, ElementOfSeq
  <2> QED BY <1>1, <2>1, SubSeqProperties
<1>3. b \in Seq(Snapshots) /\ Len(b) = Len(snapshots) - i
  <2>1. \A j \in (i + 1)..Len(snapshots) : snapshots[j] \in Snapshots
    BY <1>1, ElementOfSeq
  <2> QED BY <1>1, <2>1, SubSeqProperties
<1>4. RemoveAt(snapshots, i) = a \o b
  BY DEF RemoveAt
<1> HIDE DEF a, b
<1>5. a \o b \in Seq(Snapshots) /\ Len(a \o b) = Len(a) + Len(b)
  BY <1>2, <1>3, ConcatProperties
<1>6. MaxFiles \in Nat
  BY BackupAssumption
<1> QED BY <1>1, <1>2, <1>3, <1>4, <1>5, <1>6

-----------------------------------------------------------------------------
LEMMA RequestTypeIs ==
  ASSUME BackupInv
  PROVE  /\ request \in [Requests -> RequestType]
         /\ \A r \in Requests : request[r] \in RequestType
BY DEF BackupInv, BackupTypeOK, RequestType

(* Components in Sections and Tables.                                       *)
LEMMA ValuesKept ==
  /\ UNCHANGED <<memory, db>> => \A c \in Components : Value(c)' = Value(c)
  /\ UNCHANGED db => \A c \in Components : c \notin Sections => Value(c)' = Value(c)
  /\ \A c \in Sections : Value(c) = memory[c] /\ Value(c)' = memory'[c]
  /\ \A c \in Tables : Value(c) = db[c] /\ Value(c)' = db'[c]
BY BackupAssumption DEF Value, Components

(* A step that begins a request, or takes it on, and changes no data.       *)
LEMMA PlainStep ==
  ASSUME BackupInv, NEW r \in Requests, NEW rec \in RequestType, Goes(r, rec, {}),
         request[r].at \notin {"save", "write"}, rec.at # "write", RecordCarries(rec),
         Restoring(rec) => \A c \in (rec.parts \cap Default) \ rec.stale : Covered(c),
         UNCHANGED <<memory, file, torn, db, snapshots, unsaved, uncovered>>,
         counted' \in 0..MaxRequests
  PROVE  BackupInv'
<1>1. /\ {} \in SUBSET Components
      /\ \A c \in Components \ {} : Value(c)' = Value(c)
      /\ SnapshotCovers'
  BY ValuesKept DEF BackupInv, CoverInv, SnapshotCovers
<1>2. Restoring(rec) => \A c \in (rec.parts \cap Default) \ rec.stale : Covered(c)'
  BY <1>1, BackupAssumption DEF Covered
<1>3. CarriesInv' /\ SavingInv'
  BY <1>1, CarriesKept, SavingKept
<1>4. CoverInv'
  BY <1>1, <1>2, CoverKept
<1>5. request' \in [Requests -> RequestType]
  BY <1>1, GoesStep, RequestTypeIs
<1>6. BackupTypeOK'
  BY <1>5 DEF BackupInv, BackupTypeOK, RequestType
<1> QED BY <1>3, <1>4, <1>6 DEF BackupInv

LEMMA SetStep ==
  ASSUME BackupInv, NEW r \in Requests, NEW s \in Sections, Set(r, s)
  PROVE  BackupInv'
<1> DEFINE rec == [Idle EXCEPT !.at = "save", !.kind = "set", !.parts = {s}]
<1>1. {s} \in SUBSET Components
  BY DEF Components
<1>2. /\ rec \in RequestType /\ RecordCarries(rec) /\ ~Restoring(rec)
      /\ rec.at = "save" /\ rec.kind = "set"
  BY <1>1 DEF Idle, RequestType, RecordCarries, Restoring
<1>3. /\ Count /\ request[r] = Idle /\ Unlocked
      /\ memory' = [memory EXCEPT ![s] = counted + 1]
      /\ Goes(r, rec, {s})
      /\ UNCHANGED <<file, torn, db, snapshots, unsaved, uncovered>>
  BY DEF Set
<1> HIDE DEF rec
<1>4. counted' \in 0..MaxRequests /\ counted + 1 \in Values
  BY <1>3, BackupAssumption DEF BackupInv, BackupTypeOK, Count, Values, Package
<1>5. memory' \in Settings /\ \A t \in Sections : t # s => memory'[t] = memory[t]
  BY <1>3, <1>4 DEF BackupInv, BackupTypeOK, Settings
<1>6. /\ request' \in [Requests -> RequestType]
      /\ request'[r] = rec
      /\ \A q \in Requests \ {r} : request'[q].at = request[q].at
  BY <1>1, <1>2, <1>3, GoesStep, RequestTypeIs
<1>7. BackupTypeOK'
  BY <1>3, <1>4, <1>5, <1>6 DEF BackupInv, BackupTypeOK, RequestType
<1>8. CarriesInv'
  BY <1>1, <1>2, <1>3, CarriesKept
<1>9. SavingInv'
  <2>1. \A q \in Requests : request'[q].at # "write"
    BY <1>2, <1>3, <1>6 DEF Unlocked, Writing
  <2>2. torn' => unsaved'
    BY <1>3 DEF BackupInv, SavingInv, Unlocked
  <2> QED BY <1>2, <1>6, <2>1, <2>2 DEF SavingInv
<1>10. \A c \in Components \ {s} : Value(c)' = Value(c)
  BY <1>3, <1>5, ValuesKept DEF Components
<1>11. CoverInv'
  <2>1. SnapshotCovers'
    BY <1>3 DEF BackupInv, CoverInv, SnapshotCovers
  <2> QED BY <1>1, <1>2, <1>3, <1>10, <2>1, CoverKept
<1> QED BY <1>7, <1>8, <1>9, <1>11 DEF BackupInv

LEMMA SaveBeginsStep ==
  ASSUME BackupInv, NEW r \in Requests, SaveBegins(r)
  PROVE  BackupInv'
<1> DEFINE rec == [request[r] EXCEPT !.at = "write", !.text = memory]
<1>1. memory \in Settings /\ request[r] \in RequestType /\ {} \in SUBSET Components
  BY RequestTypeIs DEF BackupInv, BackupTypeOK
<1>2. /\ rec \in RequestType /\ rec.at = "write" /\ rec.text = memory
      /\ rec.kind = request[r].kind /\ rec.parts = request[r].parts
  BY <1>1 DEF RequestType
<1>3. RecordCarries(rec) /\ ~Restoring(rec)
  BY <1>1, <1>2 DEF RecordCarries, Restoring, BackupInv, CarriesInv
<1>4. /\ torn' = TRUE /\ Goes(r, rec, {})
      /\ UNCHANGED <<memory, file, db, snapshots, unsaved, uncovered, counted>>
  BY DEF SaveBegins
<1> HIDE DEF rec
<1>5. /\ request' \in [Requests -> RequestType]
      /\ request'[r] = rec
      /\ \A q \in Requests \ {r} : request'[q].at = request[q].at
                                   /\ request'[q].text = request[q].text
  BY <1>1, <1>2, <1>4, GoesStep, RequestTypeIs
<1>6. torn' \in BOOLEAN
  BY <1>4
<1>7. BackupTypeOK'
  BY <1>4, <1>5, <1>6 DEF BackupInv, BackupTypeOK, RequestType
<1>8. CarriesInv'
  BY <1>1, <1>2, <1>3, <1>4, CarriesKept
<1>9. SavingInv'
  <2>1. r \in Writing'
    BY <1>2, <1>5 DEF Writing
  <2> QED BY <1>2, <1>4, <1>5, <2>1 DEF BackupInv, SavingInv
<1>10. CoverInv'
  <2>1. SnapshotCovers' /\ \A c \in Components \ {} : Value(c)' = Value(c)
    BY <1>4, ValuesKept DEF BackupInv, CoverInv, SnapshotCovers
  <2> QED BY <1>1, <1>2, <1>3, <1>4, <2>1, CoverKept
<1> QED BY <1>7, <1>8, <1>9, <1>10 DEF BackupInv

LEMMA IdleCarries == RecordCarries(Idle) /\ ~Restoring(Idle) /\ Idle.at = "idle"
BY DEF Idle, RecordCarries, Restoring

LEMMA SaveEndsStep ==
  ASSUME BackupInv, NEW r \in Requests, SaveEnds(r)
  PROVE  BackupInv'
<1>1. Idle \in RequestType /\ {} \in SUBSET Components
  BY IdleType
<1>2. /\ request[r].at = "write" /\ file' = request[r].text /\ torn' = (Writing # {r})
      /\ unsaved' = FALSE /\ Goes(r, Idle, {})
      /\ UNCHANGED <<memory, db, snapshots, uncovered, counted>>
  BY DEF SaveEnds
<1>3. file' = memory
  BY <1>2 DEF BackupInv, SavingInv
<1>4. /\ request' \in [Requests -> RequestType]
      /\ request'[r] = Idle
      /\ \A q \in Requests \ {r} : request'[q].at = request[q].at
                                   /\ request'[q].text = request[q].text
  BY <1>1, <1>2, GoesStep, RequestTypeIs
<1>5. torn' \in BOOLEAN /\ unsaved' \in BOOLEAN
  BY <1>2, Zenon
<1>6. BackupTypeOK'
  BY <1>2, <1>3, <1>4, <1>5 DEF BackupInv, BackupTypeOK, RequestType
<1>7. CarriesInv'
  BY <1>1, <1>2, IdleCarries, CarriesKept
<1>8. SavingInv'
  <2>1. r \in Writing /\ Writing' = Writing \ {r}
    BY <1>2, <1>4, IdleCarries DEF Writing
  <2>2. torn' => Writing # {r}
    BY <1>2, Zenon
  <2>3. torn' => Writing' # {}
    BY <2>1, <2>2
  <2>4. \A q \in Requests : request'[q].at = "write" => request'[q].text = memory
    BY <1>4, IdleCarries DEF BackupInv, SavingInv
  <2>5. \/ \E q \in Requests : request'[q].at \in {"save", "write"}
        \/ ~torn' /\ file' = memory'
    BY <1>2, <1>3, <2>3 DEF Writing
  <2> QED BY <1>2, <2>3, <2>4, <2>5 DEF SavingInv
<1>9. CoverInv'
  <2>1. SnapshotCovers' /\ \A c \in Components \ {} : Value(c)' = Value(c)
    BY <1>2, ValuesKept DEF BackupInv, CoverInv, SnapshotCovers
  <2> QED BY <1>1, <1>2, <2>1, IdleCarries, CoverKept
<1> QED BY <1>6, <1>7, <1>8, <1>9 DEF BackupInv

LEMMA SaveFailsStep ==
  ASSUME BackupInv, NEW r \in Requests, SaveFails(r)
  PROVE  BackupInv'
<1>1. Idle \in RequestType /\ {} \in SUBSET Components
  BY IdleType
<1>2. /\ Count /\ unsaved' = TRUE /\ Goes(r, Idle, {})
      /\ UNCHANGED <<memory, file, torn, db, snapshots, uncovered>>
  BY DEF SaveFails
<1>3. /\ request' \in [Requests -> RequestType]
      /\ request'[r] = Idle
      /\ \A q \in Requests \ {r} : request'[q].at = request[q].at
                                   /\ request'[q].text = request[q].text
  BY <1>1, <1>2, GoesStep, RequestTypeIs
<1>4. counted' \in 0..MaxRequests /\ unsaved' \in BOOLEAN
  BY <1>2, BackupAssumption DEF BackupInv, BackupTypeOK, Count
<1>5. BackupTypeOK'
  BY <1>2, <1>3, <1>4 DEF BackupInv, BackupTypeOK, RequestType
<1>6. CarriesInv'
  BY <1>1, <1>2, IdleCarries, CarriesKept
<1>7. SavingInv'
  BY <1>2, <1>3, IdleCarries DEF BackupInv, SavingInv
<1>8. CoverInv'
  <2>1. SnapshotCovers' /\ \A c \in Components \ {} : Value(c)' = Value(c)
    BY <1>2, ValuesKept DEF BackupInv, CoverInv, SnapshotCovers
  <2> QED BY <1>1, <1>2, <2>1, IdleCarries, CoverKept
<1> QED BY <1>5, <1>6, <1>7, <1>8 DEF BackupInv

LEMMA ReadSettingsStep ==
  ASSUME BackupInv, NEW r \in Requests, ReadSettings(r)
  PROVE  BackupInv'
<1> DEFINE q == request[r]
           new == [s \in Sections |-> IF s \notin q.parts THEN memory[s]
                                      ELSE IF q.kind = "restore" THEN Package ELSE Initial]
           rec == [q EXCEPT !.at = IF q.kind = "restore" THEN "commit" ELSE "replace",
                            !.next = new]
<1>1. /\ q.at = "read" /\ Goes(r, rec, {})
      /\ UNCHANGED <<memory, file, torn, db, snapshots, unsaved, uncovered, counted>>
  BY DEF ReadSettings
<1>2. q \in RequestType /\ memory \in Settings
  BY RequestTypeIs DEF BackupInv, BackupTypeOK
<1>3. new \in Settings
  BY <1>2, BackupAssumption DEF Settings, Values, Package, Initial
<1> HIDE DEF new
<1>4. /\ rec \in RequestType
      /\ rec.at = IF q.kind = "restore" THEN "commit" ELSE "replace"
      /\ rec.next = new /\ rec.kind = q.kind /\ rec.parts = q.parts /\ rec.stale = q.stale
  BY <1>2, <1>3 DEF RequestType
<1> HIDE DEF rec
<1>5. RecordCarries(rec)
  BY <1>3, <1>4 DEF RecordCarries, BackupInv, CarriesInv
<1>6. Restoring(rec) => \A c \in (rec.parts \cap Default) \ rec.stale : Covered(c)
  BY <1>1, <1>4 DEF Restoring, BackupInv, CoverInv
<1>7. counted' \in 0..MaxRequests
  BY <1>1 DEF BackupInv, BackupTypeOK
<1>8. request[r].at \notin {"save", "write"} /\ rec.at # "write"
  BY <1>1, <1>4
<1> QED BY <1>1, <1>4, <1>5, <1>6, <1>7, <1>8, PlainStep

LEMMA CountStep ==
  ASSUME BackupInv, Count
  PROVE  counted' \in 0..MaxRequests /\ counted + 1 \in Values
BY BackupAssumption DEF BackupInv, BackupTypeOK, Count, Values, Package

LEMMA RestoreStep ==
  ASSUME BackupInv, NEW r \in Requests, NEW parts \in SUBSET Restorable,
         Restore(r, parts) \/ Clear(r, parts)
  PROVE  BackupInv'
<1>1. parts \in SUBSET Components
  BY BackupAssumption
<1>2. PICK rec \in {[Idle EXCEPT !.at = "snapshot", !.kind = "restore", !.parts = parts],
                    [Idle EXCEPT !.at = "commit", !.kind = "clear", !.parts = parts]} :
         Goes(r, rec, {})
  BY DEF Restore, Clear
<1>3. /\ Count /\ request[r] = Idle
      /\ UNCHANGED <<memory, file, torn, db, snapshots, unsaved, uncovered>>
  BY DEF Restore, Clear
<1>4. rec \in RequestType
  BY <1>1, <1>2 DEF Idle, RequestType
<1>5. RecordCarries(rec) /\ ~Restoring(rec) /\ rec.at # "write"
  BY <1>2 DEF Idle, RecordCarries, Restoring
<1>6. request[r].at \notin {"save", "write"}
  BY <1>3, IdleCarries
<1> QED BY <1>2, <1>3, <1>4, <1>5, <1>6, PlainStep, CountStep

(* After its snapshot, a restore has all default components in it; the      *)
(* other restorations can no longer rely on the directory.                  *)
LEMMA WriteSnapshotStep ==
  ASSUME BackupInv, NEW r \in Requests, WriteSnapshot(r)
  PROVE  BackupInv'
<1> DEFINE on == [request[r] EXCEPT !.at = "read", !.stale = {}]
<1>1. /\ request[r].at = "snapshot"
      /\ UNCHANGED <<memory, file, torn, db, unsaved, uncovered>>
  BY DEF WriteSnapshot
<1>2. request[r] \in RequestType /\ BackupTypeOK
  BY RequestTypeIs DEF BackupInv
<1>3. /\ on \in RequestType
      /\ on.at = "read" /\ on.stale = {} /\ on.kind = request[r].kind
      /\ on.parts = request[r].parts
  BY <1>2 DEF RequestType
<1>4. RecordCarries(on)
  BY <1>3 DEF RecordCarries, BackupInv, CarriesInv
<1>5. \/ \E rec \in {on, Idle} :
           /\ Goes(r, rec, Components)
           /\ snapshots' \in Seq(Snapshots) /\ Len(snapshots') <= MaxFiles
           /\ rec = Idle \/ \E i \in DOMAIN snapshots' : snapshots'[i] = Snapshot
           /\ counted' \in 0..MaxRequests
      \/ Count /\ Goes(r, Idle, {}) /\ UNCHANGED snapshots
  <2>1. UNCHANGED counted => counted' \in 0..MaxRequests
    BY <1>2 DEF BackupTypeOK
  <2>2. CASE snapshots' = Newest(Append(snapshots, Snapshot)) /\ Goes(r, on, Components)
             /\ UNCHANGED counted
    BY <1>2, <2>1, <2>2, SnapshotFiles
  <2>3. CASE /\ Count /\ snapshots # <<>> /\ snapshots' = Append(Front(snapshots), Snapshot)
             /\ Goes(r, on, Components)
    BY <1>2, <2>3, SnapshotFiles, CountStep
  <2>4. CASE /\ Count /\ snapshots' = Newest(<<Snapshot>> \o snapshots)
             /\ Goes(r, IF Len(snapshots) < MaxFiles THEN on ELSE Idle, Components)
    <3>1. CASE Len(snapshots) < MaxFiles
      BY <1>2, <2>4, <3>1, SnapshotFiles, CountStep
    <3>2. CASE ~(Len(snapshots) < MaxFiles)
      BY <1>2, <2>4, <3>2, SnapshotFiles, CountStep
    <3> QED BY <3>1, <3>2
  <2> QED BY <2>2, <2>3, <2>4 DEF WriteSnapshot
<1> HIDE DEF on
<1>6. CASE Count /\ Goes(r, Idle, {}) /\ UNCHANGED snapshots
  BY <1>1, <1>6, IdleType, IdleCarries, PlainStep, CountStep
<1>7. ASSUME NEW rec \in {on, Idle},
             Goes(r, rec, Components),
             snapshots' \in Seq(Snapshots), Len(snapshots') <= MaxFiles,
             rec = Idle \/ \E i \in DOMAIN snapshots' : snapshots'[i] = Snapshot,
             counted' \in 0..MaxRequests
      PROVE  BackupInv'
  <2>1. /\ rec \in RequestType /\ RecordCarries(rec) /\ rec.at # "write"
        /\ Restoring(rec) => rec = on
    BY <1>3, <1>4, <1>7, IdleType, IdleCarries
  <2>2. /\ request' \in [Requests -> RequestType]
        /\ request'[r] = rec
        /\ \A q \in Requests \ {r} :
             /\ request'[q].parts = request[q].parts /\ request'[q].kind = request[q].kind
             /\ request[q].kind = "restore" => request'[q].stale = request[q].stale \cup Components
    BY <1>7, <2>1, GoesStep, RequestTypeIs
  <2>3. BackupTypeOK'
    BY <1>1, <1>2, <1>7, <2>2 DEF BackupTypeOK, RequestType, Snapshots
  <2>4. CarriesInv' /\ SavingInv'
    BY <1>1, <1>7, <2>1, CarriesKept, SavingKept
  <2>5. CoverInv'
    <3>1. SnapshotCovers'
      BY <1>1 DEF BackupInv, CoverInv, SnapshotCovers
    <3>2. SUFFICES ASSUME NEW q \in Requests, Restoring(request'[q]),
                          NEW c \in (request'[q].parts \cap Default) \ request'[q].stale
                   PROVE  Covered(c)'
      BY <3>1 DEF CoverInv, Restoring
    <3>3. c \in Default /\ c \in Components
      BY <3>2, BackupAssumption
    <3>4. q = r
      BY <2>2, <3>2, <3>3 DEF Restoring
    <3>5. rec = on /\ rec # Idle
      BY <2>1, <2>2, <3>2, <3>4, IdleCarries
    <3>6. PICK i \in DOMAIN snapshots' : snapshots'[i] = Snapshot
      BY <1>7, <3>5
    <3>7. snapshots'[i][c] = Value(c)
      BY <3>3, <3>6 DEF Snapshot
    <3>8. Value(c)' = Value(c)
      BY <1>1, <3>3, ValuesKept
    <3> QED BY <3>6, <3>7, <3>8 DEF Covered
  <2> QED BY <2>3, <2>4, <2>5 DEF BackupInv
<1> QED BY <1>5, <1>6, <1>7

(* Others change a table, or a snapshot is deleted.                         *)
LEMMA StaleStep ==
  ASSUME BackupInv, NEW changed \in SUBSET Components,
         request' = [q \in Requests |->
           IF request[q].kind = "restore"
           THEN [request[q] EXCEPT !.stale = request[q].stale \cup changed] ELSE request[q]],
         UNCHANGED <<memory, file, torn, unsaved, uncovered>>,
         db' \in [Tables -> Values],
         snapshots' \in Seq(Snapshots), Len(snapshots') <= MaxFiles,
         \A c \in (Components \cap Default) \ changed : Covered(c) => Covered(c)',
         counted' \in 0..MaxRequests
  PROVE  BackupInv'
<1>1. \A q \in Requests : request[q] \in RequestType
  BY RequestTypeIs
<1>2. \A q \in Requests :
        [request[q] EXCEPT !.stale = request[q].stale \cup changed] \in RequestType
  BY <1>1 DEF RequestType
<1>3. \A q \in Requests :
        /\ request'[q] \in RequestType
        /\ request'[q].at = request[q].at
        /\ request'[q].kind = request[q].kind
        /\ request'[q].parts = request[q].parts
        /\ request'[q].next = request[q].next
        /\ request'[q].text = request[q].text
        /\ request[q].kind = "restore" => request'[q].stale = request[q].stale \cup changed
  BY <1>1, <1>2 DEF RequestType
<1>4. request' \in [Requests -> RequestType]
  BY <1>3
<1>5. BackupTypeOK'
  BY <1>4 DEF BackupInv, BackupTypeOK, RequestType, Snapshots
<1>6. CarriesInv'
  BY <1>3 DEF BackupInv, CarriesInv
<1>7. SavingInv'
  BY <1>3 DEF BackupInv, SavingInv, Writing
<1>8. CoverInv'
  <2>1. SnapshotCovers'
    BY DEF BackupInv, CoverInv, SnapshotCovers
  <2>2. SUFFICES ASSUME NEW q \in Requests, Restoring(request'[q]),
                        NEW c \in (request'[q].parts \cap Default) \ request'[q].stale
                 PROVE  Covered(c)'
    BY <2>1 DEF CoverInv, Restoring
  <2>3. /\ Restoring(request[q])
        /\ c \in (request[q].parts \cap Default) \ request[q].stale
        /\ c \notin changed
    BY <1>3, <2>2 DEF Restoring
  <2>4. Covered(c) /\ c \in Components
    BY <2>3, BackupAssumption DEF BackupInv, CoverInv, Restoring
  <2> QED BY <2>3, <2>4
<1> QED BY <1>5, <1>6, <1>7, <1>8 DEF BackupInv

LEMMA EditStep ==
  ASSUME BackupInv, NEW t \in Tables, Edit(t)
  PROVE  BackupInv'
<1>1. /\ Count /\ db' = [db EXCEPT ![t] = counted + 1]
      /\ request' = [q \in Requests |->
           IF request[q].kind = "restore"
           THEN [request[q] EXCEPT !.stale = request[q].stale \cup {t}] ELSE request[q]]
      /\ UNCHANGED <<memory, file, torn, snapshots, unsaved, uncovered>>
  BY DEF Edit
<1>2. {t} \in SUBSET Components
  BY DEF Components
<1>3. db' \in [Tables -> Values] /\ \A u \in Tables : u # t => db'[u] = db[u]
  BY <1>1, CountStep DEF BackupInv, BackupTypeOK
<1>4. \A c \in Components \ {t} : Value(c)' = Value(c)
  BY <1>1, <1>3, ValuesKept DEF Components
<1>5. \A c \in (Components \cap Default) \ {t} : Covered(c) => Covered(c)'
  BY <1>1, <1>4 DEF Covered
<1>6. snapshots' \in Seq(Snapshots) /\ Len(snapshots') <= MaxFiles
  BY <1>1 DEF BackupInv, BackupTypeOK, Snapshots
<1> QED BY <1>1, <1>2, <1>3, <1>5, <1>6, CountStep, StaleStep

LEMMA DeleteFileStep ==
  ASSUME BackupInv, DeleteFile
  PROVE  BackupInv'
<1>1. PICK i \in DOMAIN snapshots : snapshots' = RemoveAt(snapshots, i)
  BY DEF DeleteFile
<1>2. Count /\ UNCHANGED <<memory, file, torn, db, unsaved, uncovered>>
  BY DEF DeleteFile
<1>3. \A q \in Requests : request[q].stale \cup Components = Components
  BY RequestTypeIs DEF RequestType
<1>4. request' = [q \in Requests |->
           IF request[q].kind = "restore"
           THEN [request[q] EXCEPT !.stale = request[q].stale \cup Components] ELSE request[q]]
  BY <1>3 DEF DeleteFile
<1>5. snapshots' \in Seq(Snapshots) /\ Len(snapshots') <= MaxFiles
  BY <1>1, FileDeleted DEF BackupInv
<1>6. db' \in [Tables -> Values]
  BY <1>2 DEF BackupInv, BackupTypeOK
<1>7. Components \in SUBSET Components
      /\ \A c \in (Components \cap Default) \ Components : Covered(c) => Covered(c)'
  OBVIOUS
<1> QED BY <1>2, <1>4, <1>5, <1>6, <1>7, CountStep, StaleStep

(* What a restore overwrites is covered.                                    *)
LEMMA UncoversStep ==
  ASSUME BackupInv, NEW r \in Requests, request[r].at \in {"commit", "replace"},
         NEW parts \in SUBSET request[r].parts, Uncovers(r, parts)
  PROVE  SnapshotCovers' /\ uncovered' \subseteq Restorable
<1>1. SnapshotCovers /\ uncovered \subseteq Restorable
  BY DEF BackupInv, CoverInv, BackupTypeOK
<1>2. CASE request[r].kind # "restore"
  BY <1>1, <1>2 DEF Uncovers, SnapshotCovers
<1>3. CASE request[r].kind = "restore"
  <2>1. \A c \in (parts \cap Default) \ request[r].stale : Covered(c)
    BY <1>3 DEF BackupInv, CoverInv
  <2>2. uncovered' = uncovered \cup
         {c \in parts \ request[r].stale :
            /\ Value(c) # Package
            /\ \A i \in DOMAIN snapshots : c \notin Default \/ snapshots[i][c] # Value(c)}
    BY <1>3 DEF Uncovers
  <2>3. request[r].parts \subseteq Restorable
    BY <1>3 DEF BackupInv, CarriesInv
  <2> QED BY <1>1, <2>1, <2>2, <2>3 DEF SnapshotCovers, Covered
<1> QED BY <1>2, <1>3

LEMMA CommitStep ==
  ASSUME BackupInv, NEW r \in Requests, Commit(r)
  PROVE  BackupInv'
<1> DEFINE q == request[r]
           parts == q.parts \cap Tables
           new == IF q.kind = "restore" THEN Package ELSE Initial
           after == [q EXCEPT !.at = IF q.kind = "clear" THEN "read" ELSE "replace"]
           rec == IF q.parts \subseteq Tables THEN Idle ELSE after
<1>1. /\ q.at = "commit"
      /\ UNCHANGED <<memory, file, torn, snapshots, unsaved>>
  BY DEF Commit
<1>2. CASE Count /\ Goes(r, Idle, {}) /\ UNCHANGED <<db, uncovered>>
  BY <1>1, <1>2, IdleType, IdleCarries, PlainStep, CountStep
<1>3. CASE /\ db' = [t \in Tables |-> IF t \in parts THEN new ELSE db[t]]
           /\ Uncovers(r, parts)
           /\ Goes(r, rec, parts)
           /\ UNCHANGED counted
  <2>1. q \in RequestType /\ db \in [Tables -> Values]
    BY RequestTypeIs DEF BackupInv, BackupTypeOK
  <2>2. new \in Values
    BY BackupAssumption DEF Values, Package, Initial
  <2>3. db' \in [Tables -> Values]
    BY <1>3, <2>1, <2>2
  <2>4. /\ after \in RequestType
        /\ after.at = IF q.kind = "clear" THEN "read" ELSE "replace"
        /\ after.kind = q.kind /\ after.parts = q.parts /\ after.next = q.next
        /\ after.stale = q.stale
    BY <2>1 DEF RequestType
  <2>5. RecordCarries(after)
    BY <1>1, <2>4 DEF RecordCarries, BackupInv, CarriesInv
  <2>6. parts \in SUBSET Components /\ parts \in SUBSET q.parts
    BY <2>1 DEF RequestType
  <2>7. /\ rec \in RequestType /\ RecordCarries(rec) /\ rec.at # "write"
        /\ Restoring(rec) => rec = after
    BY <2>4, <2>5, IdleType, IdleCarries
  <2>8. SnapshotCovers' /\ uncovered' \subseteq Restorable
    BY <1>1, <1>3, <2>6, UncoversStep
  <2>9. \A t \in Tables : db'[t] = IF t \in parts THEN new ELSE db[t]
    BY <1>3
  <2>10. \A c \in Components \ parts : Value(c)' = Value(c)
    BY <1>1, <2>9, ValuesKept DEF Components
  <2>11. Restoring(rec) => \A c \in (rec.parts \cap Default) \ rec.stale : Covered(c)'
    <3> SUFFICES ASSUME Restoring(rec), NEW c \in (rec.parts \cap Default) \ rec.stale
                 PROVE  Covered(c)'
      OBVIOUS
    <3>1. rec = after /\ q.kind = "restore" /\ c \in (q.parts \cap Default) \ q.stale
      BY <2>4, <2>7 DEF Restoring
    <3>2. Covered(c) /\ c \in Components
      BY <1>1, <3>1, BackupAssumption DEF BackupInv, CoverInv
    <3>3. CASE c \in Tables
      <4>1. db'[c] = Package
        BY <2>9, <3>1, <3>3
      <4>2. Value(c)' = Package
        BY <3>3, <4>1, ValuesKept
      <4> QED BY <4>2 DEF Covered, Package
    <3>4. CASE c \notin Tables
      BY <1>1, <2>10, <3>2, <3>4 DEF Covered
    <3> QED BY <3>3, <3>4
  <2> HIDE DEF rec, after, new, parts
  <2>12. Goes(r, rec, parts)
    BY <1>3
  <2>13. CoverInv'
    BY <1>1, <2>6, <2>7, <2>8, <2>10, <2>11, <2>12, CoverKept
  <2>14. CarriesInv' /\ SavingInv'
    BY <1>1, <2>6, <2>7, <2>12, CarriesKept, SavingKept
  <2>15. request' \in [Requests -> RequestType]
    BY <2>6, <2>7, <2>12, GoesStep, RequestTypeIs
  <2>16. BackupTypeOK'
    BY <1>1, <1>3, <2>3, <2>8, <2>15 DEF BackupInv, BackupTypeOK, RequestType
  <2> QED BY <2>13, <2>14, <2>16 DEF BackupInv
<1> QED BY <1>2, <1>3 DEF Commit

LEMMA ReplaceStep ==
  ASSUME BackupInv, NEW r \in Requests, Replace(r)
  PROVE  BackupInv'
<1> DEFINE q == request[r]
           rec == [q EXCEPT !.at = "save", !.next = <<>>]
           changed == {s \in Sections : q.next[s] # memory[s]}
<1>1. /\ q.at = "replace" /\ Unlocked
      /\ Uncovers(r, q.parts \cap Sections)
      /\ memory' = q.next
      /\ Goes(r, rec, changed)
      /\ UNCHANGED <<file, torn, db, snapshots, unsaved, counted>>
  BY DEF Replace
<1>2. q \in RequestType /\ q.next \in Settings
  BY <1>1, RequestTypeIs DEF BackupInv, CarriesInv
<1>3. /\ rec \in RequestType
      /\ rec.at = "save" /\ rec.kind = q.kind /\ rec.parts = q.parts
  BY <1>2 DEF RequestType
<1>4. RecordCarries(rec) /\ ~Restoring(rec)
  BY <1>3 DEF RecordCarries, Restoring, BackupInv, CarriesInv
<1>5. changed \in SUBSET Components
  BY DEF Components
<1>6. \A c \in Components \ changed : Value(c)' = Value(c)
  BY <1>1, ValuesKept DEF Components
<1>7. SnapshotCovers' /\ uncovered' \subseteq Restorable
  BY <1>1, UncoversStep
<1> HIDE DEF rec, changed
<1>8. CoverInv'
  BY <1>1, <1>3, <1>4, <1>5, <1>6, <1>7, CoverKept
<1>9. CarriesInv'
  BY <1>1, <1>3, <1>4, <1>5, CarriesKept
<1>10. /\ request' \in [Requests -> RequestType]
       /\ request'[r] = rec
       /\ \A p \in Requests \ {r} : request'[p].at = request[p].at
  BY <1>1, <1>3, <1>5, GoesStep, RequestTypeIs
<1>11. SavingInv'
  <2>1. \A p \in Requests : request'[p].at # "write"
    BY <1>1, <1>3, <1>10 DEF Unlocked, Writing
  <2>2. torn' => unsaved'
    BY <1>1 DEF BackupInv, SavingInv, Unlocked
  <2> QED BY <1>3, <1>10, <2>1, <2>2 DEF SavingInv
<1>12. BackupTypeOK'
  BY <1>1, <1>2, <1>7, <1>10 DEF BackupInv, BackupTypeOK, RequestType
<1> QED BY <1>8, <1>9, <1>11, <1>12 DEF BackupInv

LEMMA BackupStep == BackupInv /\ BackupNext => BackupInv'
BY SetStep, RestoreStep, SaveBeginsStep, SaveEndsStep, SaveFailsStep, WriteSnapshotStep,
   ReadSettingsStep, CommitStep, ReplaceStep, EditStep, DeleteFileStep
DEF BackupNext

(* A restart reads the file, or takes the defaults for one that is cut off. *)
LEMMA BackupRestarts ==
  ASSUME BackupInv, BackupStops, counted' \in 0..MaxRequests
  PROVE  BackupInv'
<1>1. /\ memory' = IF torn THEN [s \in Sections |-> Initial] ELSE file
      /\ unsaved' = torn
      /\ request' = [r \in Requests |-> Idle]
      /\ UNCHANGED <<file, torn, db, snapshots, uncovered>>
  BY DEF BackupStops
<1>2. Initial \in Values
  BY BackupAssumption DEF Initial, Values, Package
<1>3. memory' \in Settings
  BY <1>1, <1>2 DEF BackupInv, BackupTypeOK, Settings
<1>4. request' \in [Requests -> RequestType] /\ \A r \in Requests : request'[r] = Idle
  BY <1>1, IdleType
<1>5. unsaved' \in BOOLEAN
  BY <1>1, Zenon DEF BackupInv, BackupTypeOK
<1>6. BackupTypeOK'
  BY <1>1, <1>3, <1>4, <1>5 DEF BackupInv, BackupTypeOK, RequestType
<1>7. \A r \in Requests : /\ request'[r].at = "idle"
                          /\ RecordCarries(request'[r]) /\ ~Restoring(request'[r])
  BY <1>4, IdleCarries
<1>8. CarriesInv' /\ CoverInv'
  BY <1>1, <1>7 DEF CarriesInv, RecordCarries, Restoring, BackupInv, CoverInv, SnapshotCovers
<1>9. torn' => unsaved'
  BY <1>1, Zenon
<1>10. unsaved' \/ (~torn' /\ file' = memory')
  <2>1. torn => unsaved'
    BY <1>1, Zenon
  <2>2. ~torn => ~torn'
    BY <1>1, Zenon
  <2>3. ~torn => file' = memory'
    BY <1>1
  <2> QED BY <2>1, <2>2, <2>3, Zenon
<1>11. SavingInv'
  BY <1>7, <1>9, <1>10 DEF SavingInv
<1> QED BY <1>6, <1>8, <1>11 DEF BackupInv

LEMMA BackupRests == BackupInv /\ UNCHANGED backup => BackupInv'
BY DEF BackupInv, BackupTypeOK, CarriesInv, SavingInv, Writing, CoverInv, SnapshotCovers, Covered,
       Value, backup

LEMMA BackupOfMaintenance == BackupInv /\ [Next]_vars => BackupInv'
<1> SUFFICES ASSUME BackupInv, [Next]_vars PROVE BackupInv'
  OBVIOUS
<1>1. CASE BackupNext
  BY <1>1, BackupStep
<1>2. CASE RestartByUpdate \/ RestartOtherwise
  <2>1. counted' \in 0..MaxRequests
    BY <1>2, CountStep DEF RestartByUpdate, RestartOtherwise, BackupInv, BackupTypeOK
  <2> QED BY <1>2, <2>1, BackupRestarts DEF RestartByUpdate, RestartOtherwise
<1>3. CASE UNCHANGED backup
  BY <1>3, BackupRests
<1> QED BY <1>1, <1>2, <1>3 DEF Next, Files, vars

(* When no save is under way and the last one did not fail, the file holds  *)
(* the settings of the memory, in whatever order setters, restores and      *)
(* clearings of any number of threads ran.                                  *)
THEOREM FileHoldsMemory == Spec => []FileIsCurrent
<1>1. BackupInv => FileIsCurrent
  <2> SUFFICES ASSUME BackupInv, ~unsaved,
                      \A r \in Requests : request[r].at \notin {"save", "write"}
               PROVE  ~torn /\ file = memory
    BY DEF FileIsCurrent
  <2> QED BY DEF BackupInv, SavingInv
<1> QED BY <1>1, BackupAtInit, BackupOfMaintenance, PTL DEF Spec

(* What a restore replaces of the default components is in a snapshot,      *)
(* unless it was changed, or the snapshot removed, after it was written.    *)
THEOREM ReplacedIsInSnapshot == Spec => []SnapshotCovers
<1>1. BackupInv => SnapshotCovers
  BY DEF BackupInv, CoverInv
<1> QED BY <1>1, BackupAtInit, BackupOfMaintenance, PTL DEF Spec


(* A nonempty set of numbers up to a bound has a least one.                 *)
LEMMA LeastNumber ==
  ASSUME NEW top \in Nat, NEW S, S \subseteq 1..top, S # {}
  PROVE  \E n \in S : \A m \in S : n <= m
<1> DEFINE R == StrictSubsetOrdering(1..top)
           T == {1..n : n \in S}
<1>1. IsWellFoundedOn(R, SUBSET (1..top))
  <2>1. IsFiniteSet(1..top)
    BY FS_Interval
  <2>2. FiniteSubsetsOf(1..top) = SUBSET (1..top)
    BY <2>1, FS_FiniteSubsetsOfFinite
  <2>3. IsWellFoundedOn(R, FiniteSubsetsOf(1..top))
    BY FS_StrictSubsetOrderingWellFounded
  <2> QED BY <2>2, <2>3
<1>2. T \subseteq SUBSET (1..top)
  <2> SUFFICES ASSUME NEW n \in S PROVE 1..n \subseteq 1..top
    BY Zenon
  <2> QED OBVIOUS
<1>3. T # {}
  OBVIOUS
<1>4. PICK t \in T : \A u \in T : <<u, t>> \notin R
  <2> HIDE DEF R, T
  <2> QED BY <1>1, <1>2, <1>3, WFMin
<1>5. PICK n \in S : t = 1..n
  OBVIOUS
<1>6. ASSUME NEW m \in S PROVE n <= m
  <2> SUFFICES ASSUME m < n PROVE FALSE
    OBVIOUS
  <2>1. 1..m \subseteq 1..n /\ 1..m # 1..n
    <3>1. n \in 1..n /\ n \notin 1..m /\ 1..m \subseteq 1..n
      OBVIOUS
    <3> QED BY <3>1
  <2>2. <<1..m, t>> \notin R
    BY <1>4
  <2>3. 1..m \in SUBSET (1..top) /\ 1..n \in SUBSET (1..top)
    BY <1>2
  <2> QED BY <2>1, <2>2, <2>3, <1>5, Zenon DEF StrictSubsetOrdering
<1> QED BY <1>6

-----------------------------------------------------------------------------
(* eSIM profiles.  Notifications are numbered as they are written.          *)
NotesOK(ws, ns, cs) ==
  /\ IsFiniteSet(ws)
  /\ \A w \in ws : /\ w.note \in Notes /\ w.by \in Jobs \cup {Earlier, Nobody}
                   /\ w.note.seq <= Cardinality(ws)
  /\ \A n \in ns \cup cs : n \in Notes /\ n.seq <= Cardinality(ws)

(* What NotificationsKept says of the notifications.                        *)
KeptOK(ws, ns, cs) ==
  \A w \in ws :
    /\ w.note \in ns \cup cs
    /\ w.by = Earlier \/ w.note.op = "delete" => w.note \in ns /\ w.note \notin cs

EsimJob ==
  [at : Steps, kind : {"none", "enable", "download"}, profile : Profiles \cup {NoProfile},
   before : SUBSET Nat, previous : SUBSET Profiles, present : SUBSET Profiles,
   tries : Nat, rest : SUBSET Notes, failed : BOOLEAN]

Unready == {"idle", "previous", "before"}
Working == {"check", "work", "look", "scan", "deliver"}

(* The notification w is one that the request j has to deliver.             *)
Due(j, r, w) ==
  w.by = j /\ w.note.op # "disable" /\ r.profile \in {w.note.profile, NoProfile}

(* What was there before the work is in the snapshot, and what the request  *)
(* had the eSIM write since is not, and is of its operation.                *)
SnapshotOK(j, r, ws) ==
  /\ r.before # NoSnapshot =>
       \A w \in ws : /\ w.by = Earlier => w.note.seq \in r.before
                     /\ w.by = j => w.note.seq \notin r.before
  /\ \A w \in ws : w.by = j =>
       IF r.kind = "enable"
       THEN w.note.op = "disable" \/ (w.note.op = "enable" /\ w.note.profile = r.profile)
       ELSE w.note.op = "install"

(* What a delivery has still to submit is new, and all that is due is among *)
(* it or was submitted, unless a failure will be told.                      *)
RestOK(j, r, ws, ns, cs) ==
  /\ r.rest # {}
  /\ \A n \in r.rest : n.op # "delete" /\ \A w \in ws : w.note = n => w.by # Earlier
  /\ r.failed \/ \A w \in ws : Due(j, r, w) =>
                   w.note \in r.rest \/ (w.note \in cs /\ w.note \notin ns)

FirstOf(rest) == CHOOSE n \in rest : \A m \in rest : n.seq <= m.seq

EsimJobOK(j, r, ws, ns, cs) ==
  /\ r \in EsimJob
  /\ \A s \in r.before : s <= Cardinality(ws)
  /\ r.at \in Unready => \A w \in ws : w.by # j
  /\ r.at \in (Unready \ {"idle"}) \cup Working =>
       /\ r.kind \in {"enable", "download"}
       /\ r.kind = "enable" => r.profile \in Profiles /\ r.at # "scan"
  /\ r.at \in Working => SnapshotOK(j, r, ws)
  /\ r.at \in {"process", "remove"} => RestOK(j, r, ws, ns, cs)
  /\ r.at = "remove" => FirstOf(r.rest) \in cs
  /\ r.at = "done" => r.failed \/ \A w \in ws : Due(j, r, w) => w.note \in cs /\ w.note \notin ns

EsimInv ==
  /\ NotesOK(written, notes, carrier)
  /\ KeptOK(written, notes, carrier)
  /\ job \in [Jobs -> EsimJob]
  /\ \A j \in Jobs : EsimJobOK(j, job[j], written, notes, carrier)

LEMMA FirstIs ==
  ASSUME NEW rest, rest \subseteq Notes, rest # {}
  PROVE  FirstOf(rest) \in rest
<1> DEFINE S == {n.seq : n \in rest}
<1>1. S \subseteq 1..MaxNotes /\ S # {} /\ MaxNotes \in Nat
  BY EsimAssumption DEF Notes, Numbers
<1>2. PICK s \in S : \A m \in S : s <= m
  <2> HIDE DEF S
  <2> QED BY <1>1, LeastNumber
<1>3. PICK n \in rest : n.seq = s
  OBVIOUS
<1>4. \A m \in rest : n.seq <= m.seq
  BY <1>2, <1>3
<1> QED BY <1>4 DEF FirstOf

(* The eSIM writes: new notifications, with numbers of their own.           *)
Wrote(new, events, by, ws, ns, wt, nt) ==
  /\ new \subseteq Notes
  /\ nt = ns \cup new
  /\ wt = ws \cup {[note |-> n, by |-> by] : n \in new}
  /\ IsFiniteSet(wt) /\ Cardinality(ws) <= Cardinality(wt)
  /\ \A n \in new : /\ Cardinality(ws) < n.seq /\ n.seq <= Cardinality(wt)
                    /\ <<n.op, n.profile>> \in events

LEMMA WriteIs ==
  ASSUME NEW events, events \subseteq Operations \X Profiles, NEW by,
         NotesOK(written, notes, carrier), Write(events, by)
  PROVE  \E new : Wrote(new, events, by, written, notes, written', notes')
<1> DEFINE C == Cardinality(written)
           next(asked) == (C + 1)..(C + Cardinality(asked))
<1>0. IsFiniteSet(written) /\ C \in Nat
  BY FS_CardinalityType DEF NotesOK
<1>1. PICK asked \in SUBSET events :
        /\ next(asked) \subseteq Numbers
        /\ \E number \in Bijection(asked, next(asked)) :
             LET new == {Note(number[e], e[1], e[2]) : e \in asked}
             IN  /\ notes' = notes \cup new
                 /\ written' = written \cup {[note |-> n, by |-> by] : n \in new}
  BY DEF Write
<1> DEFINE N == next(asked)
<1>2. PICK number \in Bijection(asked, N) :
        /\ notes' = notes \cup {Note(number[e], e[1], e[2]) : e \in asked}
        /\ written' = written \cup {[note |-> n, by |-> by] :
                                      n \in {Note(number[e], e[1], e[2]) : e \in asked}}
  BY <1>1
<1> DEFINE new == {Note(number[e], e[1], e[2]) : e \in asked}
           more == {[note |-> n, by |-> by] : n \in new}
<1>3. number \in [asked -> N] /\ (\A d, e \in asked : number[d] = number[e] => d = e)
      /\ \A n \in N : \E e \in asked : number[e] = n
  BY <1>2 DEF Bijection, Injection, Surjection, IsInjective
<1>4. IsFiniteSet(asked) /\ Cardinality(asked) \in Nat
  <2>1. N \subseteq 1..MaxNotes /\ IsFiniteSet(1..MaxNotes)
    BY <1>1, EsimAssumption, FS_Interval DEF Numbers
  <2>2. IsFiniteSet(N)
    BY <2>1, FS_Subset
  <2>3. number \in Injection(asked, N)
    BY <1>2 DEF Bijection
  <2> HIDE DEF N
  <2>4. IsFiniteSet(asked)
    BY <2>2, <2>3, FS_Injection
  <2> QED BY <2>4, FS_CardinalityType
<1>5. \A n \in new : n \in Notes /\ C < n.seq /\ n.seq <= C + Cardinality(asked)
                     /\ <<n.op, n.profile>> \in events
  <2> SUFFICES ASSUME NEW e \in asked
               PROVE  /\ Note(number[e], e[1], e[2]) \in Notes
                      /\ C < Note(number[e], e[1], e[2]).seq
                      /\ Note(number[e], e[1], e[2]).seq <= C + Cardinality(asked)
                      /\ <<Note(number[e], e[1], e[2]).op,
                           Note(number[e], e[1], e[2]).profile>> \in events
    OBVIOUS
  <2>1. e \in Operations \X Profiles /\ e = <<e[1], e[2]>> /\ e \in events
    BY <1>1
  <2>2. number[e] \in N /\ number[e] \in Numbers
    BY <1>1, <1>3
  <2>3. C < number[e] /\ number[e] <= C + Cardinality(asked)
    BY <2>2, <1>0, <1>4
  <2> QED BY <2>1, <2>2, <2>3 DEF Note, Notes
<1>6. ExistsBijection(asked, more)
  <2> DEFINE f == [e \in asked |-> [note |-> Note(number[e], e[1], e[2]), by |-> by]]
  <2>1. f \in [asked -> more]
    OBVIOUS
  <2>2. ASSUME NEW d \in asked, NEW e \in asked, f[d] = f[e] PROVE d = e
    <3>1. f[d].note.seq = number[d] /\ f[e].note.seq = number[e]
      BY DEF Note
    <3> QED BY <3>1, <2>2, <1>3
  <2>3. \A m \in more : \E e \in asked : f[e] = m
    OBVIOUS
  <2> HIDE DEF f, more
  <2>4. f \in Bijection(asked, more)
    BY <2>1, <2>2, <2>3 DEF Bijection, Injection, Surjection, IsInjective
  <2> QED BY <2>4 DEF ExistsBijection
<1>7. IsFiniteSet(more) /\ Cardinality(more) = Cardinality(asked)
  <2> HIDE DEF more
  <2> QED BY <1>4, <1>6, FS_Bijection
<1>8. written \cap more = {}
  <2> SUFFICES ASSUME NEW n \in new, [note |-> n, by |-> by] \in written PROVE FALSE
    OBVIOUS
  <2>1. n.seq <= C
    BY DEF NotesOK
  <2>2. n \in Notes /\ C < n.seq
    BY <1>5
  <2>3. n.seq \in Nat
    BY <2>2, EsimAssumption DEF Notes, Numbers
  <2> HIDE DEF new
  <2> QED BY <2>1, <2>2, <2>3, <1>0
<1>9. IsFiniteSet(written') /\ Cardinality(written') = C + Cardinality(asked)
  <2>1. written' = written \cup more
    BY <1>2
  <2> HIDE DEF more, new
  <2>2. IsFiniteSet(written \cup more)
        /\ Cardinality(written \cup more) = Cardinality(written) + Cardinality(more)
                                            - Cardinality(written \cap more)
    BY <1>0, <1>7, FS_Union
  <2>3. Cardinality(written \cap more) = 0
    BY <1>8, FS_EmptySet
  <2>4. Cardinality(written \cup more) = C + Cardinality(asked)
    BY <2>2, <2>3, <1>0, <1>4, <1>7
  <2> QED BY <2>1, <2>2, <2>4
<1>10. Wrote(new, events, by, written, notes, written', notes')
  <2>1. new \subseteq Notes
    BY <1>5
  <2>2. notes' = notes \cup new /\ written' = written \cup {[note |-> n, by |-> by] : n \in new}
    BY <1>2
  <2>3. \A n \in new : /\ Cardinality(written) < n.seq
                       /\ n.seq <= Cardinality(written')
                       /\ <<n.op, n.profile>> \in events
    BY <1>5, <1>9
  <2>4. Cardinality(written) <= Cardinality(written')
    BY <1>0, <1>4, <1>9
  <2> HIDE DEF new
  <2> QED BY <2>1, <2>2, <2>3, <2>4, <1>9 DEF Wrote
<1> QED BY <1>10

LEMMA NotesAre ==
  ASSUME NEW ws, NEW ns, NEW cs, NotesOK(ws, ns, cs)
  PROVE  /\ Cardinality(ws) \in Nat
         /\ \A w \in ws : w.note.seq \in Nat
         /\ \A n \in ns \cup cs : n.seq \in Nat
         /\ \A n \in Notes : n.seq \in Nat
<1>1. \A n \in Notes : n.seq \in Nat
  BY EsimAssumption DEF Notes, Numbers
<1>2. Cardinality(ws) \in Nat
  BY FS_CardinalityType DEF NotesOK
<1> QED BY <1>1, <1>2 DEF NotesOK

(* New notifications disturb nothing that was said of the old ones.         *)
LEMMA WroteKeepsNotes ==
  ASSUME NEW ws, NEW ns, NEW cs, NEW wt, NEW nt, NEW new, NEW events,
         NEW by \in Jobs \cup {Nobody},
         NotesOK(ws, ns, cs), KeptOK(ws, ns, cs), Wrote(new, events, by, ws, ns, wt, nt)
  PROVE  NotesOK(wt, nt, cs) /\ KeptOK(wt, nt, cs)
<1>1. /\ Cardinality(ws) \in Nat
      /\ \A n \in Notes : n.seq \in Nat
      /\ \A w \in ws : w.note.seq \in Nat
  BY NotesAre
<1>2. Cardinality(wt) \in Nat
  BY FS_CardinalityType DEF Wrote
<1>3. \A w \in wt : w \in ws \/ (w.note \in new /\ w.by = by)
  BY DEF Wrote
<1>4. \A n \in new : n \in Notes /\ n \notin cs /\ n \in nt
  <2> SUFFICES ASSUME NEW n \in new PROVE n \in Notes /\ n \notin cs /\ n \in nt
    OBVIOUS
  <2>1. n \in Notes /\ Cardinality(ws) < n.seq /\ n \in nt
    BY DEF Wrote
  <2>2. n \in cs => n.seq <= Cardinality(ws)
    BY DEF NotesOK
  <2> QED BY <2>1, <2>2, <1>1
<1>5. NotesOK(wt, nt, cs)
  <2>1. ASSUME NEW w \in wt
        PROVE  /\ w.note \in Notes /\ w.by \in Jobs \cup {Earlier, Nobody}
               /\ w.note.seq <= Cardinality(wt)
    <3>1. CASE w \in ws
      BY <3>1, <1>1, <1>2 DEF NotesOK, Wrote
    <3>2. CASE w.note \in new /\ w.by = by
      BY <3>2, <1>4 DEF Wrote
    <3> QED BY <3>1, <3>2, <1>3
  <2>2. ASSUME NEW n \in nt \cup cs PROVE n \in Notes /\ n.seq <= Cardinality(wt)
    <3>1. CASE n \in ns \cup cs
      BY <3>1, <1>1, <1>2 DEF NotesOK, Wrote
    <3>2. CASE n \in new
      BY <3>2, <1>4 DEF Wrote
    <3> QED BY <3>1, <3>2 DEF Wrote
  <2>3. IsFiniteSet(wt)
    BY DEF Wrote
  <2> QED BY <2>1, <2>2, <2>3 DEF NotesOK
<1>6. ASSUME NEW w \in wt
      PROVE  /\ w.note \in nt \cup cs
             /\ w.by = Earlier \/ w.note.op = "delete" => w.note \in nt /\ w.note \notin cs
  <2>1. CASE w \in ws
    BY <2>1 DEF KeptOK, Wrote
  <2>2. CASE w.note \in new
    BY <2>2, <1>4
  <2> QED BY <2>1, <2>2, <1>3
<1> QED BY <1>5, <1>6 DEF KeptOK

LEMMA WroteKeepsOthers ==
  ASSUME NEW ws, NEW ns, NEW cs, NEW wt, NEW nt, NEW new, NEW events,
         NEW by \in Jobs \cup {Nobody}, NEW k \in Jobs, k # by, NEW r,
         NotesOK(ws, ns, cs), Wrote(new, events, by, ws, ns, wt, nt),
         EsimJobOK(k, r, ws, ns, cs)
  PROVE  EsimJobOK(k, r, wt, nt, cs)
<1>1. /\ Cardinality(ws) \in Nat
      /\ \A n \in Notes : n.seq \in Nat
  BY NotesAre
<1>2. Cardinality(wt) \in Nat
  BY FS_CardinalityType DEF Wrote
<1>3. \A w \in wt : w \in ws \/ w.by = by
  BY DEF Wrote
<1>4. \A w \in wt : w.by = Earlier \/ w.by = k => w \in ws
  BY <1>3, AuthorsAssumption DEF Earlier, Nobody
<1>5. \A w \in ws : w.note \notin ns => w.note \notin nt
  <2> SUFFICES ASSUME NEW w \in ws, w.note \in new PROVE FALSE
    BY DEF Wrote
  <2>1. w.note \in Notes /\ w.note.seq <= Cardinality(ws) /\ Cardinality(ws) < w.note.seq
    BY DEF NotesOK, Wrote
  <2> QED BY <2>1, <1>1
<1>6. r \in EsimJob
  BY DEF EsimJobOK
<1>7. \A s \in r.before : s <= Cardinality(wt)
  BY <1>1, <1>2, <1>6 DEF EsimJobOK, EsimJob, Wrote
<1>8. SnapshotOK(k, r, ws) => SnapshotOK(k, r, wt)
  BY <1>4 DEF SnapshotOK
<1>9. RestOK(k, r, ws, ns, cs) => RestOK(k, r, wt, nt, cs)
  BY <1>4, <1>5 DEF RestOK, Due
<1>10. r.at \in Unready /\ (\A w \in ws : w.by # k) => \A w \in wt : w.by # k
  BY <1>4
<1>11. (\A w \in ws : Due(k, r, w) => w.note \in cs /\ w.note \notin ns)
         => \A w \in wt : Due(k, r, w) => w.note \in cs /\ w.note \notin nt
  BY <1>4, <1>5 DEF Due
<1> QED BY <1>6, <1>7, <1>8, <1>9, <1>10, <1>11 DEF EsimJobOK

(* What is submitted or removed only helps.                                 *)
LEMMA CarriedKeepsJobs ==
  ASSUME NEW ws, NEW ns, NEW cs, NEW nt, NEW ct, nt \subseteq ns, cs \subseteq ct,
         NEW k, NEW r, EsimJobOK(k, r, ws, ns, cs)
  PROVE  EsimJobOK(k, r, ws, nt, ct)
<1>1. RestOK(k, r, ws, ns, cs) => RestOK(k, r, ws, nt, ct)
  BY DEF RestOK
<1> QED BY <1>1 DEF EsimJobOK

LEMMA EsimChanges ==
  ASSUME EsimInv, NEW j \in Jobs, NEW new, job' = [job EXCEPT ![j] = new],
         NotesOK(written', notes', carrier'), KeptOK(written', notes', carrier'),
         EsimJobOK(j, new, written', notes', carrier'),
         \A k \in Jobs \ {j} : EsimJobOK(k, job[k], written', notes', carrier')
  PROVE  EsimInv'
<1>1. job' \in [Jobs -> EsimJob]
  BY DEF EsimInv, EsimJobOK
<1>2. \A k \in Jobs : EsimJobOK(k, job'[k], written', notes', carrier')
  BY DEF EsimInv
<1> QED BY <1>1, <1>2 DEF EsimInv

(* A step of one request that writes and delivers nothing.                  *)
LEMMA EsimJobMoves ==
  ASSUME EsimInv, NEW j \in Jobs, NEW new, job' = [job EXCEPT ![j] = new],
         UNCHANGED <<written, notes, carrier>>,
         EsimJobOK(j, new, written, notes, carrier)
  PROVE  EsimInv'
<1>1. \A k \in Jobs \ {j} : EsimJobOK(k, job[k], written', notes', carrier')
  BY DEF EsimInv
<1>2. NotesOK(written', notes', carrier') /\ KeptOK(written', notes', carrier')
  BY DEF EsimInv
<1>3. EsimJobOK(j, new, written', notes', carrier')
  OBVIOUS
<1> QED BY <1>1, <1>2, <1>3, EsimChanges

LEMMA GoneOK ==
  ASSUME NEW j, NEW ws, NEW ns, NEW cs
  PROVE  EsimJobOK(j, Gone, ws, ns, cs)
<1>1. Gone \in EsimJob /\ Gone.at = "gone" /\ Gone.before = {}
  BY DEF Gone, Waiting, EsimJob, Steps
<1> QED BY <1>1 DEF EsimJobOK, Unready, Working

LEMMA WaitingOK ==
  ASSUME NEW j, NEW ws, NEW ns, NEW cs, \A w \in ws : w.by # j
  PROVE  EsimJobOK(j, Waiting, ws, ns, cs)
<1>1. Waiting \in EsimJob /\ Waiting.at = "idle" /\ Waiting.before = {}
  BY DEF Waiting, EsimJob, Steps
<1> QED BY <1>1 DEF EsimJobOK, Unready, Working

SwitchEvents(p) == {<<"enable", p>>} \cup {<<"disable", q>> : q \in Enabled}

LEMMA SwitchWrites ==
  ASSUME EsimInv, NEW p \in Profiles, NEW by, Switch(p, by)
  PROVE  \E new : Wrote(new, SwitchEvents(p), by, written, notes, written', notes')
<1>1. SwitchEvents(p) \subseteq Operations \X Profiles
  BY DEF SwitchEvents, Enabled, Operations
<1>2. Write(SwitchEvents(p), by)
  BY DEF Switch, SwitchEvents
<1> QED BY <1>1, <1>2, WriteIs DEF EsimInv

LEMMA InstallsWrites ==
  ASSUME EsimInv, NEW p \in Profiles, NEW by, Installs(p, by)
  PROVE  \E new : Wrote(new, {<<"install", p>>}, by, written, notes, written', notes')
<1>1. {<<"install", p>>} \subseteq Operations \X Profiles
  BY DEF Operations
<1>2. Write({<<"install", p>>}, by)
  BY DEF Installs
<1> QED BY <1>1, <1>2, WriteIs DEF EsimInv

LEMMA NobodyWrites ==
  ASSUME EsimInv, UNCHANGED <<job, carrier>>, NEW events, NEW new,
         Wrote(new, events, Nobody, written, notes, written', notes')
  PROVE  EsimInv'
<1>1. NotesOK(written', notes', carrier) /\ KeptOK(written', notes', carrier)
  BY WroteKeepsNotes DEF EsimInv
<1>2. ASSUME NEW k \in Jobs PROVE EsimJobOK(k, job[k], written', notes', carrier)
  <2>1. k # Nobody /\ EsimJobOK(k, job[k], written, notes, carrier)
    BY AuthorsAssumption DEF EsimInv
  <2> QED BY <2>1, WroteKeepsOthers DEF EsimInv
<1> QED BY <1>1, <1>2 DEF EsimInv

(* A request that fails may have had its effect as if nobody had asked.     *)
LEMMA AuthorWrites ==
  ASSUME EsimInv, NEW j \in Jobs, NEW by \in {j, Nobody}, NEW new,
         job' = [job EXCEPT ![j] = new], carrier' = carrier, NEW more, NEW events,
         Wrote(more, events, by, written, notes, written', notes'),
         EsimJobOK(j, new, written', notes', carrier)
  PROVE  EsimInv'
<1>1. NotesOK(written', notes', carrier) /\ KeptOK(written', notes', carrier)
  BY WroteKeepsNotes DEF EsimInv
<1>2. ASSUME NEW k \in Jobs \ {j} PROVE EsimJobOK(k, job[k], written', notes', carrier)
  <2>1. k # by /\ EsimJobOK(k, job[k], written, notes, carrier)
    BY AuthorsAssumption DEF EsimInv
  <2> QED BY <2>1, WroteKeepsOthers DEF EsimInv
<1> QED BY <1>1, <1>2, EsimChanges

(* What the work of a request writes is new to its snapshot.                *)
LEMMA OwnWrite ==
  ASSUME NEW j \in Jobs, NEW ws, NEW ns, NEW cs, NEW wt, NEW nt, NEW new, NEW events,
         NotesOK(ws, ns, cs), Wrote(new, events, j, ws, ns, wt, nt),
         NEW r, EsimJobOK(j, r, ws, ns, cs), r.at = "work",
         IF r.kind = "enable" THEN events \subseteq SwitchEvents(r.profile)
                              ELSE \A e \in events : e[1] = "install"
  PROVE  SnapshotOK(j, r, wt)
<1>1. /\ Cardinality(ws) \in Nat
      /\ \A n \in Notes : n.seq \in Nat
  BY NotesAre
<1>2. \A w \in wt : w \in ws \/ (w.note \in new /\ w.by = j)
  BY DEF Wrote
<1>3. r.before \subseteq Nat /\ SnapshotOK(j, r, ws) /\ \A s \in r.before : s <= Cardinality(ws)
  BY DEF EsimJobOK, EsimJob, Working
<1>4. \A n \in new : n.seq \notin r.before
  <2> SUFFICES ASSUME NEW n \in new, n.seq \in r.before PROVE FALSE
    OBVIOUS
  <2>1. n.seq <= Cardinality(ws)
    BY <1>3
  <2>2. Cardinality(ws) < n.seq /\ n \in Notes
    BY DEF Wrote
  <2> QED BY <2>1, <2>2, <1>1
<1>5. j # Earlier
  BY AuthorsAssumption
<1>6. \A n \in new : IF r.kind = "enable"
                     THEN n.op = "disable" \/ (n.op = "enable" /\ n.profile = r.profile)
                     ELSE n.op = "install"
  <2> SUFFICES ASSUME NEW n \in new
               PROVE  IF r.kind = "enable"
                      THEN n.op = "disable" \/ (n.op = "enable" /\ n.profile = r.profile)
                      ELSE n.op = "install"
    OBVIOUS
  <2>1. <<n.op, n.profile>> \in events
    BY DEF Wrote
  <2> QED BY <2>1 DEF SwitchEvents
<1> QED BY <1>2, <1>3, <1>4, <1>5, <1>6 DEF SnapshotOK

LEMMA LateEffectStep == ASSUME EsimInv, NEW p \in Profiles, LateEffect(p) PROVE EsimInv'
<1>1. UNCHANGED <<carrier, job>>
  BY DEF LateEffect
<1>2. CASE Switch(p, Nobody)
  BY <1>1, <1>2, SwitchWrites, NobodyWrites
<1>3. CASE Installs(p, Nobody)
  BY <1>1, <1>3, InstallsWrites, NobodyWrites
<1>4. CASE UNCHANGED <<notes, written>>
  BY <1>1, <1>4 DEF EsimInv
<1> QED BY <1>2, <1>3, <1>4 DEF LateEffect

LEMMA DeleteProfileStep == ASSUME EsimInv, NEW p \in Profiles, DeleteProfile(p) PROVE EsimInv'
<1>1. {<<"delete", p>>} \subseteq Operations \X Profiles
  BY DEF Operations
<1>2. \E new : Wrote(new, {<<"delete", p>>}, Nobody, written, notes, written', notes')
  BY <1>1, WriteIs DEF DeleteProfile, EsimInv
<1> QED BY <1>2, NobodyWrites DEF DeleteProfile

(* Before the work.                                                         *)
LEMMA AskEnableStep ==
  ASSUME EsimInv, NEW j \in Jobs, NEW p \in Profiles, AskEnable(j, p) PROVE EsimInv'
<1> DEFINE new == [Waiting EXCEPT !.at = "previous", !.kind = "enable", !.profile = p]
<1>1. new \in EsimJob /\ new.at = "previous" /\ new.kind = "enable" /\ new.profile = p
      /\ new.before = {}
  BY DEF Waiting, EsimJob, Steps
<1>2. \A w \in written : w.by # j
  BY DEF AskEnable, Is, EsimInv, EsimJobOK, Unready
<1>3. job' = [job EXCEPT ![j] = new] /\ UNCHANGED <<written, notes, carrier>>
  BY DEF AskEnable
<1> HIDE DEF new
<1>4. EsimJobOK(j, new, written, notes, carrier)
  BY <1>1, <1>2 DEF EsimJobOK, Unready, Working
<1> QED BY <1>3, <1>4, EsimJobMoves

LEMMA AskDownloadStep ==
  ASSUME EsimInv, NEW j \in Jobs, AskDownload(j) PROVE EsimInv'
<1> DEFINE new == [Waiting EXCEPT !.at = "previous", !.kind = "download"]
<1>1. new \in EsimJob /\ new.at = "previous" /\ new.kind = "download" /\ new.before = {}
  BY DEF Waiting, EsimJob, Steps
<1>2. \A w \in written : w.by # j
  BY DEF AskDownload, Is, EsimInv, EsimJobOK, Unready
<1>3. job' = [job EXCEPT ![j] = new] /\ UNCHANGED <<written, notes, carrier>>
  BY DEF AskDownload
<1> HIDE DEF new
<1>4. EsimJobOK(j, new, written, notes, carrier)
  BY <1>1, <1>2 DEF EsimJobOK, Unready, Working
<1> QED BY <1>3, <1>4, EsimJobMoves

LEMMA TakeProfilesStep ==
  ASSUME EsimInv, NEW j \in Jobs, TakeProfiles(j) PROVE EsimInv'
<1>1. PICK previous \in SUBSET Profiles, present \in SUBSET Profiles :
        job' = [job EXCEPT ![j] = [job[j] EXCEPT !.at = "before", !.previous = previous,
                                                 !.present = present]]
  <2>1. job[j] \in EsimJob /\ Enabled \subseteq Profiles /\ Present \subseteq Profiles
    BY DEF EsimInv, Enabled, Present
  <2>2. CASE job' = [job EXCEPT ![j].at = "before", ![j].previous = Enabled,
                                ![j].present = Present]
    BY <2>1, <2>2
  <2>3. CASE job' = [job EXCEPT ![j].at = "before", ![j].present = Profiles]
    <3>1. job' = [job EXCEPT ![j] = [job[j] EXCEPT !.at = "before",
                                       !.previous = job[j].previous, !.present = Profiles]]
      BY <2>1, <2>3 DEF EsimJob, EsimInv
    <3>2. job[j].previous \in SUBSET Profiles
      BY <2>1 DEF EsimJob
    <3> QED BY <3>1, <3>2
  <2> QED BY <2>2, <2>3 DEF TakeProfiles
<1> DEFINE new == [job[j] EXCEPT !.at = "before", !.previous = previous, !.present = present]
<1>2. job[j] \in EsimJob /\ job[j].at = "previous"
      /\ EsimJobOK(j, job[j], written, notes, carrier)
  BY DEF EsimInv, TakeProfiles, Is
<1>3. /\ new \in EsimJob /\ new.at = "before" /\ new.kind = job[j].kind
      /\ new.profile = job[j].profile /\ new.before = job[j].before
  BY <1>2 DEF EsimJob, Steps
<1>4. job' = [job EXCEPT ![j] = new] /\ UNCHANGED <<written, notes, carrier>>
  BY <1>1 DEF TakeProfiles
<1> HIDE DEF new
<1>5. EsimJobOK(j, new, written, notes, carrier)
  BY <1>2, <1>3 DEF EsimJobOK, Unready, Working
<1> QED BY <1>4, <1>5, EsimJobMoves

(* What is there before the work is in the snapshot: the notifications of   *)
(* earlier operations all are, those of the request do not exist yet.       *)
LEMMA TakeBeforeStep ==
  ASSUME EsimInv, NEW j \in Jobs, TakeBefore(j) PROVE EsimInv'
<1>1. PICK before \in {NoSnapshot, {n.seq : n \in notes}} :
        job' = [job EXCEPT ![j].at = Begins(job[j].kind), ![j].before = before]
  BY DEF TakeBefore
<1> DEFINE new == [job[j] EXCEPT !.at = Begins(job[j].kind), !.before = before]
<1>2. job[j] \in EsimJob /\ job[j].at = "before"
      /\ EsimJobOK(j, job[j], written, notes, carrier)
  BY DEF EsimInv, TakeBefore, Is
<1>3. /\ Cardinality(written) \in Nat
      /\ \A n \in notes : n.seq \in Nat /\ n.seq <= Cardinality(written)
  BY NotesAre DEF EsimInv, NotesOK
<1>4. before \subseteq Nat /\ \A s \in before : s <= Cardinality(written)
  BY <1>3 DEF NoSnapshot
<1>5. Begins(job[j].kind) \in {"check", "work"}
  BY DEF Begins
<1>6. /\ new \in EsimJob /\ new.at = Begins(job[j].kind) /\ new.kind = job[j].kind
      /\ new.profile = job[j].profile /\ new.before = before
  BY <1>2, <1>4, <1>5 DEF EsimJob, Steps
<1>7. \A w \in written : w.by # j
  BY <1>2 DEF EsimJobOK, Unready
<1>8. before # NoSnapshot => \A w \in written : w.by = Earlier => w.note.seq \in before
  BY DEF EsimInv, KeptOK
<1>9. job' = [job EXCEPT ![j] = new] /\ UNCHANGED <<written, notes, carrier>>
  BY <1>1, <1>2 DEF TakeBefore, EsimInv
<1> HIDE DEF new
<1>10. SnapshotOK(j, new, written)
  BY <1>6, <1>7, <1>8 DEF SnapshotOK
<1>11. EsimJobOK(j, new, written, notes, carrier)
  BY <1>2, <1>4, <1>5, <1>6, <1>10 DEF EsimJobOK, Unready, Working
<1> QED BY <1>9, <1>11, EsimJobMoves

(* A working request moves on and keeps what it knows.                      *)
LEMMA WorkingIs ==
  ASSUME NEW j \in Jobs, NEW r, NEW ws, NEW ns, NEW cs, EsimJobOK(j, r, ws, ns, cs),
         r.at \in Working, NEW at \in Working \ {"scan"}, NEW tries \in Nat
  PROVE  LET new == [r EXCEPT !.at = at, !.tries = tries]
         IN  EsimJobOK(j, new, ws, ns, cs)
<1> DEFINE new == [r EXCEPT !.at = at, !.tries = tries]
<1>1. r \in EsimJob
  BY DEF EsimJobOK
<1>2. /\ new \in EsimJob /\ new.at = at /\ new.kind = r.kind
      /\ new.profile = r.profile /\ new.before = r.before
  BY <1>1 DEF EsimJob, Steps, Working
<1> HIDE DEF new
<1>3. SnapshotOK(j, new, ws)
  BY <1>2 DEF EsimJobOK, SnapshotOK
<1>4. EsimJobOK(j, new, ws, ns, cs)
  BY <1>2, <1>3 DEF EsimJobOK, Unready, Working
<1> QED BY <1>4 DEF new

LEMMA StepsToWorking ==
  ASSUME EsimInv, NEW j \in Jobs, job[j].at \in Working,
         NEW at \in Working \ {"scan"}, StepsTo(j, at),
         UNCHANGED <<written, notes, carrier>>
  PROVE  EsimInv'
<1> DEFINE new == [job[j] EXCEPT !.at = at, !.tries = job[j].tries]
<1>1. job[j] \in EsimJob /\ job[j].tries \in Nat
      /\ EsimJobOK(j, job[j], written, notes, carrier)
  BY DEF EsimInv, EsimJob
<1>2. job' = [job EXCEPT ![j] = new]
  BY <1>1 DEF StepsTo, EsimInv, EsimJob
<1>3. EsimJobOK(j, new, written, notes, carrier)
  BY <1>1, WorkingIs
<1> HIDE DEF new
<1> QED BY <1>2, <1>3, EsimJobMoves

LEMMA GivesUpStep ==
  ASSUME EsimInv, NEW j \in Jobs, GivesUp(j), UNCHANGED <<written, notes, carrier>>
  PROVE  EsimInv'
BY GoneOK, EsimJobMoves DEF GivesUp

LEMMA CheckStep == ASSUME EsimInv, NEW j \in Jobs, Check(j) PROVE EsimInv'
<1>1. UNCHANGED <<written, notes, carrier>> /\ job[j].at = "check"
  BY DEF Check, Is
<1>2. CASE GivesUp(j)
  BY <1>1, <1>2, GivesUpStep
<1>3. CASE StepsTo(j, "work")
  BY <1>1, <1>3, StepsToWorking DEF Working
<1> QED BY <1>2, <1>3 DEF Check

LEMMA LookStep == ASSUME EsimInv, NEW j \in Jobs, Look(j) PROVE EsimInv'
<1>1. UNCHANGED <<written, notes, carrier>> /\ job[j].at = "look"
  BY DEF Look, Is
<1>2. CASE GivesUp(j)
  BY <1>1, <1>2, GivesUpStep
<1>3. CASE StepsTo(j, "work") \/ StepsTo(j, "deliver")
  BY <1>1, <1>3, StepsToWorking DEF Working
<1> QED BY <1>2, <1>3 DEF Look

(* A request that works: after its write, in whichever working step.        *)
LEMMA WroteAndMoves ==
  ASSUME EsimInv, NEW j \in Jobs, NEW events, NEW more,
         Wrote(more, events, j, written, notes, written', notes'), carrier' = carrier,
         job[j].at = "work",
         IF job[j].kind = "enable" THEN events \subseteq SwitchEvents(job[j].profile)
                                   ELSE \A e \in events : e[1] = "install",
         NEW new \in EsimJob, new.at \in Working, new.kind = job[j].kind,
         new.before = job[j].before,
         new.kind = "enable" => new.profile = job[j].profile /\ new.at # "scan",
         job' = [job EXCEPT ![j] = new]
  PROVE  EsimInv'
<1>1. EsimJobOK(j, job[j], written, notes, carrier) /\ NotesOK(written, notes, carrier)
  BY DEF EsimInv
<1>2. SnapshotOK(j, job[j], written')
  BY <1>1, OwnWrite
<1>3. SnapshotOK(j, new, written')
  BY <1>2 DEF SnapshotOK
<1>4. \A s \in new.before : s <= Cardinality(written')
  <2>1. Cardinality(written) \in Nat /\ Cardinality(written') \in Nat
    BY <1>1, FS_CardinalityType DEF NotesOK, Wrote
  <2>2. new.before \subseteq Nat /\ \A s \in new.before : s <= Cardinality(written)
    BY <1>1 DEF EsimJobOK, EsimJob
  <2> QED BY <2>1, <2>2 DEF Wrote
<1>5. EsimJobOK(j, new, written', notes', carrier)
  BY <1>1, <1>3, <1>4 DEF EsimJobOK, Unready, Working
<1> QED BY <1>5, AuthorWrites

LEMMA EnableSucceedsStep ==
  ASSUME EsimInv, NEW j \in Jobs, EnableSucceeds(j) PROVE EsimInv'
<1> DEFINE new == [job[j] EXCEPT !.at = "deliver"]
<1>1. job[j] \in EsimJob /\ job[j].at = "work" /\ job[j].kind = "enable"
      /\ job[j].profile \in Profiles
  BY DEF EsimInv, EnableSucceeds, Is, EsimJobOK, Working
<1>2. PICK more : Wrote(more, SwitchEvents(job[j].profile), j, written, notes, written', notes')
  BY <1>1, SwitchWrites DEF EnableSucceeds
<1>3. new \in EsimJob /\ new.at = "deliver" /\ new.kind = "enable"
      /\ new.before = job[j].before /\ new.profile = job[j].profile
  BY <1>1 DEF EsimJob, Steps
<1>4. job' = [job EXCEPT ![j] = new] /\ carrier' = carrier
  BY DEF EnableSucceeds, StepsTo
<1> HIDE DEF new
<1> QED BY <1>1, <1>2, <1>3, <1>4, WroteAndMoves DEF Working

LEMMA EnableFailsStep ==
  ASSUME EsimInv, NEW j \in Jobs, EnableFails(j) PROVE EsimInv'
<1>1. job[j] \in EsimJob /\ job[j].at = "work" /\ job[j].kind = "enable"
      /\ job[j].profile \in Profiles /\ carrier' = carrier
      /\ EsimJobOK(j, job[j], written, notes, carrier)
  BY DEF EsimInv, EnableFails, Is, EsimJobOK, Working
<1>2. CASE GivesUp(j)
  <2>1. CASE UNCHANGED <<notes, written>>
    BY <1>1, <1>2, <2>1, GivesUpStep
  <2>2. CASE Switch(job[j].profile, j)
    <3>1. PICK more : Wrote(more, SwitchEvents(job[j].profile), j, written, notes, written', notes')
      BY <1>1, <2>2, SwitchWrites
    <3> QED BY <1>1, <1>2, <3>1, GoneOK, AuthorWrites DEF GivesUp
  <2> QED BY <2>1, <2>2 DEF EnableFails
<1>3. CASE \E tries \in Nat : job' = [job EXCEPT ![j] = [job[j] EXCEPT !.at = "look",
                                                                  !.tries = tries]]
  <2>1. PICK tries \in Nat : job' = [job EXCEPT ![j] = [job[j] EXCEPT !.at = "look",
                                                                 !.tries = tries]]
    BY <1>3
  <2> DEFINE new == [job[j] EXCEPT !.at = "look", !.tries = tries]
  <2>2. EsimJobOK(j, new, written, notes, carrier)
    BY <1>1, WorkingIs DEF Working
  <2>3. new \in EsimJob /\ new.at = "look" /\ new.kind = "enable"
        /\ new.before = job[j].before /\ new.profile = job[j].profile
    BY <1>1 DEF EsimJob, Steps
  <2>4. job' = [job EXCEPT ![j] = new]
    BY <2>1
  <2> HIDE DEF new
  <2>5. CASE UNCHANGED <<notes, written>>
    BY <1>1, <2>2, <2>4, <2>5, EsimJobMoves
  <2>6. CASE Switch(job[j].profile, j)
    <3>1. PICK more : Wrote(more, SwitchEvents(job[j].profile), j, written, notes, written', notes')
      BY <1>1, <2>6, SwitchWrites
    <3> QED BY <1>1, <2>3, <2>4, <3>1, WroteAndMoves DEF Working
  <2> QED BY <2>5, <2>6 DEF EnableFails
<1>4. \E retryable \in BOOLEAN :
        IF retryable \/ job[j].tries > 0
        THEN job' = [job EXCEPT ![j].at = "look",
                                ![j].tries = IF retryable THEN @ + 1 ELSE MaxTries]
        ELSE GivesUp(j)
  BY DEF EnableFails
<1>5. job[j].tries + 1 \in Nat /\ MaxTries \in Nat
  BY <1>1, EsimAssumption DEF EsimJob
<1>6. PICK tries \in {job[j].tries + 1, MaxTries} :
        \/ GivesUp(j)
        \/ job' = [job EXCEPT ![j].at = "look", ![j].tries = tries]
  BY <1>4 DEF EsimInv, EsimJob
<1>7. GivesUp(j) \/ job' = [job EXCEPT ![j] = [job[j] EXCEPT !.at = "look", !.tries = tries]]
  BY <1>1, <1>6 DEF EsimInv, EsimJob
<1> QED BY <1>2, <1>3, <1>5, <1>6, <1>7

LEMMA DownloadSucceedsStep ==
  ASSUME EsimInv, NEW j \in Jobs, DownloadSucceeds(j) PROVE EsimInv'
<1>1. job[j] \in EsimJob /\ job[j].at = "work" /\ job[j].kind = "download" /\ carrier' = carrier
  BY DEF EsimInv, DownloadSucceeds, Is
<1>2. PICK p \in Profiles :
        /\ Installs(p, j)
        /\ \/ job' = [job EXCEPT ![j].at = "deliver", ![j].profile = p]
           \/ StepsTo(j, "scan")
  BY DEF DownloadSucceeds
<1>3. PICK more : Wrote(more, {<<"install", p>>}, j, written, notes, written', notes')
  BY <1>2, InstallsWrites
<1>4. \A e \in {<<"install", p>>} : e[1] = "install"
  OBVIOUS
<1>5. PICK at \in {"deliver", "scan"}, q \in Profiles \cup {NoProfile} :
        job' = [job EXCEPT ![j] = [job[j] EXCEPT !.at = at, !.profile = q]]
  <2>1. CASE job' = [job EXCEPT ![j].at = "deliver", ![j].profile = p]
    BY <1>1, <2>1
  <2>2. CASE StepsTo(j, "scan")
    <3>1. job' = [job EXCEPT ![j] = [job[j] EXCEPT !.at = "scan", !.profile = job[j].profile]]
      BY <1>1, <2>2 DEF StepsTo, EsimJob
    <3>2. job[j].profile \in Profiles \cup {NoProfile}
      BY <1>1 DEF EsimJob
    <3> QED BY <3>1, <3>2
  <2> QED BY <1>2, <2>1, <2>2
<1> DEFINE new == [job[j] EXCEPT !.at = at, !.profile = q]
<1>6. new \in EsimJob /\ new.at = at /\ new.kind = "download" /\ new.before = job[j].before
  BY <1>1 DEF EsimJob, Steps
<1>7. job' = [job EXCEPT ![j] = new]
  BY <1>5
<1> HIDE DEF new
<1> QED BY <1>1, <1>3, <1>4, <1>6, <1>7, WroteAndMoves DEF Working

LEMMA ScanStep == ASSUME EsimInv, NEW j \in Jobs, Scan(j) PROVE EsimInv'
<1>1. PICK q \in Profiles \cup {NoProfile} :
        job' = [job EXCEPT ![j] = [job[j] EXCEPT !.at = "deliver", !.profile = q]]
  BY DEF Scan, Present
<1> DEFINE new == [job[j] EXCEPT !.at = "deliver", !.profile = q]
<1>2. /\ job[j] \in EsimJob /\ job[j].at = "scan"
      /\ EsimJobOK(j, job[j], written, notes, carrier)
  BY DEF EsimInv, Scan, Is
<1>3. new \in EsimJob /\ new.at = "deliver" /\ new.kind = job[j].kind /\ new.profile = q
      /\ new.before = job[j].before
  BY <1>2 DEF EsimJob, Steps
<1>4. job' = [job EXCEPT ![j] = new] /\ UNCHANGED <<written, notes, carrier>>
  BY <1>1 DEF Scan
<1>5. job[j].kind = "download"
  BY <1>2 DEF EsimJobOK, Working
<1> HIDE DEF new
<1>6. SnapshotOK(j, new, written)
  BY <1>2, <1>3, <1>5 DEF EsimJobOK, Working, SnapshotOK
<1>7. EsimJobOK(j, new, written, notes, carrier)
  BY <1>2, <1>3, <1>5, <1>6 DEF EsimJobOK, Working, Unready
<1> QED BY <1>4, <1>7, EsimJobMoves

LEMMA DownloadFailsStep ==
  ASSUME EsimInv, NEW j \in Jobs, DownloadFails(j) PROVE EsimInv'
<1>1. GivesUp(j) /\ carrier' = carrier
  BY DEF DownloadFails
<1>2. CASE UNCHANGED <<notes, written>>
  BY <1>1, <1>2, GivesUpStep
<1>3. CASE \E p \in Profiles : Installs(p, Nobody)
  <2>1. PICK p \in Profiles : Installs(p, Nobody)
    BY <1>3
  <2>2. PICK more : Wrote(more, {<<"install", p>>}, Nobody, written, notes, written', notes')
    BY <2>1, InstallsWrites
  <2> QED BY <1>1, <2>2, GoneOK, AuthorWrites DEF GivesUp
<1> QED BY <1>2, <1>3 DEF DownloadFails

LEMMA DownloadDroppedStep ==
  ASSUME EsimInv, NEW j \in Jobs, DownloadDropped(j) PROVE EsimInv'
BY GivesUpStep DEF DownloadDropped

Ended(r, failed) ==
  [Waiting EXCEPT !.at = "done", !.kind = r.kind, !.profile = r.profile, !.failed = failed]

LEMMA EndedIs ==
  ASSUME NEW r \in EsimJob, NEW failed \in BOOLEAN
  PROVE  /\ Ended(r, failed) \in EsimJob /\ Ended(r, failed).at = "done"
         /\ Ended(r, failed).before = {} /\ Ended(r, failed).profile = r.profile
         /\ Ended(r, failed).failed = failed
BY DEF Ended, Waiting, EsimJob, Steps

LEMMA EndedOK ==
  ASSUME NEW j, NEW r \in EsimJob, NEW failed \in BOOLEAN, NEW ws, NEW ns, NEW cs,
         failed \/ \A w \in ws : Due(j, r, w) => w.note \in cs /\ w.note \notin ns
  PROVE  EsimJobOK(j, Ended(r, failed), ws, ns, cs)
<1> DEFINE new == Ended(r, failed)
<1>1. new \in EsimJob /\ new.at = "done" /\ new.before = {} /\ new.profile = r.profile
      /\ new.failed = failed
  BY EndedIs
<1>2. \A w \in ws : Due(j, new, w) => Due(j, r, w)
  BY <1>1 DEF Due
<1> HIDE DEF new
<1>3. EsimJobOK(j, new, ws, ns, cs)
  BY <1>1, <1>2 DEF EsimJobOK, Unready, Working
<1> QED BY <1>3 DEF new

(* The profile of the request is told by the snapshot: all that it has to   *)
(* deliver is selected.                                                     *)
LEMMA SelectedAreDue ==
  ASSUME EsimInv, NEW j \in Jobs, job[j].at = "deliver", job[j].before # NoSnapshot,
         Selected(j) # {}, NEW w \in written, Due(j, job[j], w)
  PROVE  w.note \in Selected(j) \/ (w.note \in carrier /\ w.note \notin notes)
<1>1. /\ job[j].kind \in {"enable", "download"}
      /\ w.note.seq \notin job[j].before
      /\ IF job[j].kind = "enable"
         THEN w.note.op = "enable" /\ w.note.profile = job[j].profile
         ELSE w.note.op = "install"
  BY DEF EsimInv, EsimJobOK, SnapshotOK, Working, Due
<1>2. w.note \in notes \cup carrier
  BY DEF EsimInv, KeptOK
<1>3. SUFFICES ASSUME w.note \in notes PROVE w.note \in Selected(j)
  BY <1>2
<1>4. w.note \in New(j)
  BY <1>1, <1>3 DEF New
<1>5. CASE job[j].kind = "enable"
  <2>1. Target(j) = {job[j].profile}
    BY <1>5 DEF Target
  <2> QED BY <1>1, <1>4, <1>5, <2>1 DEF Selected
<1>6. CASE job[j].kind = "download"
  <2>1. w.note.profile \in Target(j)
    <3>1. CASE job[j].profile # NoProfile
      BY <3>1 DEF Target, Due
    <3>2. CASE job[j].profile = NoProfile
      <4>1. Inferred(j) # {}
        BY <1>6, <3>2 DEF Selected, Target
      <4>2. Inferred(j) = {n.profile : n \in {m \in New(j) : m.op = "install"}}
        BY <4>1 DEF Inferred
      <4>3. w.note.profile \in Inferred(j)
        BY <1>1, <1>4, <1>6, <4>2
      <4> QED BY <1>6, <3>2, <4>3 DEF Target
    <3> QED BY <3>1, <3>2
  <2> QED BY <1>1, <1>4, <1>6, <2>1 DEF Selected
<1> QED BY <1>1, <1>5, <1>6

LEMMA ExpectedIs == \A j : (~Expected(j)) \in BOOLEAN
BY DEF Expected

LEMMA DeliverStep == ASSUME EsimInv, NEW j \in Jobs, Deliver(j) PROVE EsimInv'
<1>1. /\ job[j] \in EsimJob /\ job[j].at = "deliver"
      /\ EsimJobOK(j, job[j], written, notes, carrier)
      /\ UNCHANGED <<written, notes, carrier>>
  BY DEF EsimInv, Deliver, Is
<1>2. CASE Ends(j, TRUE)
  <2>1. job' = [job EXCEPT ![j] = Ended(job[j], TRUE)]
    BY <1>2 DEF Ends, Ended
  <2>2. EsimJobOK(j, Ended(job[j], TRUE), written, notes, carrier)
    BY <1>1, EndedOK
  <2> QED BY <1>1, <2>1, <2>2, EsimJobMoves
<1> DEFINE new == [Waiting EXCEPT !.at = "process", !.kind = job[j].kind,
                                  !.profile = job[j].profile,
                                  !.rest = Selected(j), !.failed = ~Expected(j)]
<1>3. CASE job[j].before # NoSnapshot /\ Selected(j) # {} /\ job' = [job EXCEPT ![j] = new]
  <2>1. Selected(j) \subseteq New(j) /\ New(j) \subseteq notes /\ notes \subseteq Notes
    BY DEF Selected, New, EsimInv, NotesOK
  <2>2. (~Expected(j)) \in BOOLEAN
    BY ExpectedIs
  <2>3. new \in EsimJob /\ new.at = "process" /\ new.profile = job[j].profile
        /\ new.rest = Selected(j) /\ new.before = {}
    BY <1>1, <2>1, <2>2 DEF Waiting, EsimJob, Steps
  <2> HIDE DEF new
  <2>4. \A n \in Selected(j) : n.op # "delete" /\ \A w \in written : w.note = n => w.by # Earlier
    <3>1. \A n \in Selected(j) : n.op # "delete"
      BY DEF Selected
    <3>2. \A n \in Selected(j) : n.seq \notin job[j].before
      BY <2>1 DEF New
    <3>3. \A w \in written : w.by = Earlier => w.note.seq \in job[j].before
      BY <1>1, <1>3 DEF EsimJobOK, SnapshotOK, Working
    <3> QED BY <3>1, <3>2, <3>3
  <2>5. \A w \in written : Due(j, new, w) => Due(j, job[j], w)
    BY <2>3 DEF Due
  <2>6. RestOK(j, new, written, notes, carrier)
    BY <1>1, <1>3, <2>3, <2>4, <2>5, SelectedAreDue DEF RestOK
  <2>7. EsimJobOK(j, new, written, notes, carrier)
    BY <2>3, <2>6 DEF EsimJobOK, Unready, Working
  <2> QED BY <1>1, <1>3, <2>7, EsimJobMoves
<1> QED BY <1>2, <1>3 DEF Deliver

(* A delivery takes the first notification off its list: it is away, or the *)
(* failure will be told.                                                    *)
LEMMA AfterStep ==
  ASSUME EsimInv, NEW j \in Jobs, NEW failed \in BOOLEAN,
         job[j].at \in {"process", "remove"}, After(j, failed), written' = written,
         NotesOK(written, notes', carrier'), KeptOK(written, notes', carrier'),
         notes' \subseteq notes, carrier \subseteq carrier',
         failed \/ (Current(j) \in carrier' /\ Current(j) \notin notes')
  PROVE  EsimInv'
<1>1. /\ job[j] \in EsimJob /\ job[j].failed \in BOOLEAN
      /\ EsimJobOK(j, job[j], written, notes, carrier)
  BY DEF EsimInv, EsimJob
<1>2. RestOK(j, job[j], written, notes, carrier)
  BY <1>1 DEF EsimJobOK
<1> DEFINE rest == job[j].rest \ {Current(j)}
           over == job[j].failed \/ failed
<1>3. over \in BOOLEAN
  OBVIOUS
<1>4. over \/ \A w \in written : Due(j, job[j], w) =>
                w.note \in rest \/ (w.note \in carrier' /\ w.note \notin notes')
  BY <1>2 DEF RestOK
<1>5. \A k \in Jobs \ {j} : EsimJobOK(k, job[k], written', notes', carrier')
  BY CarriedKeepsJobs DEF EsimInv
<1>6. CASE rest = {}
  <2>1. job' = [job EXCEPT ![j] = Ended(job[j], over)]
    BY <1>6 DEF After, Ends, Ended
  <2> HIDE DEF over
  <2>2. EsimJobOK(j, Ended(job[j], over), written, notes', carrier')
    BY <1>1, <1>3, <1>4, <1>6, EndedOK
  <2> QED BY <1>5, <2>1, <2>2, EsimChanges
<1>7. CASE rest # {}
  <2> DEFINE new == [job[j] EXCEPT !.at = "process", !.rest = rest, !.failed = over]
  <2>1. job' = [job EXCEPT ![j] = new]
    BY <1>1, <1>7 DEF After, EsimInv
  <2>2. rest \subseteq Notes /\ \A n \in rest : n \in job[j].rest
    BY <1>1 DEF EsimJob
  <2> HIDE DEF rest, over
  <2>3. new \in EsimJob /\ new.at = "process" /\ new.rest = rest /\ new.failed = over
        /\ new.profile = job[j].profile /\ new.before = job[j].before
    BY <1>1, <1>3, <2>2 DEF EsimJob, Steps
  <2> HIDE DEF new
  <2>4. \A w \in written : Due(j, new, w) => Due(j, job[j], w)
    BY <2>3 DEF Due
  <2>5. RestOK(j, new, written, notes', carrier')
    BY <1>2, <1>4, <1>7, <2>2, <2>3, <2>4 DEF RestOK
  <2>6. EsimJobOK(j, new, written, notes', carrier')
    BY <1>1, <2>3, <2>5 DEF EsimJobOK, Unready, Working
  <2> QED BY <1>5, <2>1, <2>6, EsimChanges
<1> QED BY <1>6, <1>7

LEMMA CurrentIs ==
  ASSUME EsimInv, NEW j \in Jobs, job[j].at \in {"process", "remove"}
  PROVE  /\ Current(j) = FirstOf(job[j].rest) /\ Current(j) \in job[j].rest
         /\ Current(j).op # "delete"
         /\ \A w \in written : w.note = Current(j) => w.by # Earlier
         /\ job[j].at = "remove" => Current(j) \in carrier
<1>1. Current(j) = FirstOf(job[j].rest)
  BY DEF Current, FirstOf
<1>2. RestOK(j, job[j], written, notes, carrier) /\ job[j].rest \subseteq Notes
  BY DEF EsimInv, EsimJobOK, EsimJob
<1>3. Current(j) \in job[j].rest
  BY <1>1, <1>2, FirstIs DEF RestOK
<1>4. job[j].at = "remove" => Current(j) \in carrier
  BY <1>1 DEF EsimInv, EsimJobOK
<1> QED BY <1>1, <1>2, <1>3, <1>4 DEF RestOK

(* A notification of the delivery is submitted, or removed when it was.     *)
LEMMA SubmitKeeps ==
  ASSUME EsimInv, NEW n, n.op # "delete", \A w \in written : w.note = n => w.by # Earlier,
         NEW ct, carrier \subseteq ct, ct \subseteq carrier \cup (notes \cap {n})
  PROVE  NotesOK(written, notes, ct) /\ KeptOK(written, notes, ct)
<1>1. NotesOK(written, notes, ct)
  BY DEF EsimInv, NotesOK
<1>2. KeptOK(written, notes, ct)
  BY DEF EsimInv, KeptOK
<1> QED BY <1>1, <1>2

LEMMA RemoveKeeps ==
  ASSUME EsimInv, NEW n, n.op # "delete", \A w \in written : w.note = n => w.by # Earlier,
         n \in carrier, NEW nt \in {notes, notes \ {n}}
  PROVE  NotesOK(written, nt, carrier) /\ KeptOK(written, nt, carrier)
<1>1. NotesOK(written, nt, carrier)
  BY DEF EsimInv, NotesOK
<1>2. KeptOK(written, nt, carrier)
  BY DEF EsimInv, KeptOK
<1> QED BY <1>1, <1>2

LEMMA ProcessStep == ASSUME EsimInv, NEW j \in Jobs, Process(j) PROVE EsimInv'
<1> DEFINE new == [job[j] EXCEPT !.at = "remove"]
<1>1. /\ job[j] \in EsimJob /\ job[j].at = "process" /\ Current(j) \in notes
      /\ carrier' = carrier \cup {Current(j)} /\ UNCHANGED <<notes, written>>
      /\ job' = [job EXCEPT ![j] = new]
      /\ EsimJobOK(j, job[j], written, notes, carrier)
  BY DEF Process, Is, EsimInv, StepsTo
<1>2. /\ Current(j) = FirstOf(job[j].rest) /\ Current(j).op # "delete"
      /\ \A w \in written : w.note = Current(j) => w.by # Earlier
  BY <1>1, CurrentIs
<1>3. NotesOK(written, notes, carrier') /\ KeptOK(written, notes, carrier')
  BY <1>1, <1>2, SubmitKeeps
<1>4. \A k \in Jobs : EsimJobOK(k, job[k], written, notes, carrier')
  BY <1>1, CarriedKeepsJobs DEF EsimInv
<1>5. /\ new \in EsimJob /\ new.at = "remove" /\ new.rest = job[j].rest
      /\ new.failed = job[j].failed /\ new.profile = job[j].profile
      /\ new.before = job[j].before
  BY <1>1 DEF EsimJob, Steps
<1> HIDE DEF new
<1>6. \A w \in written : Due(j, new, w) => Due(j, job[j], w)
  BY <1>5 DEF Due
<1>7. RestOK(j, new, written, notes, carrier')
  <2>1. RestOK(j, job[j], written, notes, carrier')
    BY <1>1, <1>4 DEF EsimJobOK
  <2> QED BY <1>5, <1>6, <2>1 DEF RestOK
<1>8. FirstOf(new.rest) \in carrier'
  BY <1>1, <1>2, <1>5
<1>9. EsimJobOK(j, new, written, notes, carrier')
  BY <1>1, <1>5, <1>7, <1>8 DEF EsimJobOK, Unready, Working
<1> QED BY <1>1, <1>3, <1>4, <1>9, EsimChanges

LEMMA ProcessFailsStep == ASSUME EsimInv, NEW j \in Jobs, ProcessFails(j) PROVE EsimInv'
<1>1. /\ job[j].at = "process" /\ After(j, TRUE) /\ UNCHANGED <<notes, written>>
      /\ carrier' \in {carrier, carrier \cup (notes \cap {Current(j)})}
  BY DEF ProcessFails, Is
<1>2. /\ Current(j).op # "delete"
      /\ \A w \in written : w.note = Current(j) => w.by # Earlier
  BY <1>1, CurrentIs
<1>3. NotesOK(written, notes, carrier') /\ KeptOK(written, notes, carrier')
  BY <1>1, <1>2, SubmitKeeps
<1> QED BY <1>1, <1>3, AfterStep

LEMMA RemoveNoteStep == ASSUME EsimInv, NEW j \in Jobs, RemoveNote(j) PROVE EsimInv'
<1>1. /\ job[j].at = "remove" /\ After(j, FALSE) /\ UNCHANGED <<carrier, written>>
      /\ notes' = notes \ {Current(j)}
  BY DEF RemoveNote, Is
<1>2. /\ Current(j).op # "delete" /\ Current(j) \in carrier
      /\ \A w \in written : w.note = Current(j) => w.by # Earlier
  BY <1>1, CurrentIs
<1>3. NotesOK(written, notes', carrier) /\ KeptOK(written, notes', carrier)
  BY <1>1, <1>2, RemoveKeeps
<1> QED BY <1>1, <1>2, <1>3, AfterStep

LEMMA RemoveFailsStep == ASSUME EsimInv, NEW j \in Jobs, RemoveFails(j) PROVE EsimInv'
<1>1. /\ job[j].at = "remove" /\ After(j, TRUE) /\ UNCHANGED <<carrier, written>>
      /\ notes' \in {notes, notes \ {Current(j)}}
  BY DEF RemoveFails, Is
<1>2. /\ Current(j).op # "delete" /\ Current(j) \in carrier
      /\ \A w \in written : w.note = Current(j) => w.by # Earlier
  BY <1>1, CurrentIs
<1>3. NotesOK(written, notes', carrier) /\ KeptOK(written, notes', carrier)
  BY <1>1, <1>2, RemoveKeeps
<1> QED BY <1>1, <1>2, <1>3, AfterStep

LEMMA EsimStopsStep == ASSUME EsimInv, EsimStops PROVE EsimInv'
<1>1. \A j \in Jobs : job'[j] \in {job[j], Gone}
  BY DEF EsimStops
<1>2. \A j \in Jobs : EsimJobOK(j, job'[j], written, notes, carrier)
  BY <1>1, GoneOK DEF EsimInv
<1>3. job' \in [Jobs -> EsimJob]
  <2>1. job' = [j \in Jobs |-> IF job[j].at \in {"idle", "done"} THEN job[j] ELSE Gone]
    BY DEF EsimStops
  <2>2. \A j \in Jobs : job'[j] \in EsimJob
    BY <1>2 DEF EsimJobOK
  <2> QED BY <2>1, <2>2
<1> QED BY <1>2, <1>3 DEF EsimInv, EsimStops

LEMMA EsimAtInit == Init => EsimInv
<1> SUFFICES ASSUME EsimInit PROVE EsimInv
  BY DEF Init
<1>1. carrier = {} /\ written = {[note |-> n, by |-> Earlier] : n \in notes}
      /\ job = [j \in Jobs |-> Waiting]
  BY DEF EsimInit
<1>2. notes = {} \/ \E op \in {"install", "enable"}, p \in Profiles : notes = {Note(1, op, p)}
  BY DEF EsimInit
<1>3. IsFiniteSet(written) /\ \A n \in notes : n \in Notes /\ n.seq <= Cardinality(written)
  <2>1. CASE notes = {}
    BY <1>1, <2>1, FS_EmptySet
  <2>2. CASE \E op \in {"install", "enable"}, p \in Profiles : notes = {Note(1, op, p)}
    <3>1. PICK op \in {"install", "enable"}, p \in Profiles : notes = {Note(1, op, p)}
      BY <2>2
    <3>2. written = {[note |-> Note(1, op, p), by |-> Earlier]}
      BY <1>1, <3>1
    <3>3. IsFiniteSet(written) /\ Cardinality(written) = 1
      BY <3>2, FS_Singleton
    <3>4. Note(1, op, p) \in Notes /\ Note(1, op, p).seq = 1
      BY EsimAssumption DEF Note, Notes, Numbers, Operations
    <3> QED BY <3>1, <3>3, <3>4
  <2> QED BY <1>2, <2>1, <2>2
<1>4. \A w \in written : w.note \in notes /\ w.by = Earlier
  BY <1>1
<1>5. NotesOK(written, notes, carrier)
  BY <1>1, <1>3, <1>4 DEF NotesOK
<1>6. KeptOK(written, notes, carrier)
  BY <1>1, <1>4 DEF KeptOK
<1>7. \A j \in Jobs : EsimJobOK(j, job[j], written, notes, carrier)
  BY <1>1, <1>4, WaitingOK, AuthorsAssumption
<1>8. job \in [Jobs -> EsimJob]
  BY <1>1, <1>7 DEF EsimJobOK
<1> QED BY <1>5, <1>6, <1>7, <1>8 DEF EsimInv

LEMMA EsimStep == EsimInv /\ EsimNext => EsimInv'
<1> SUFFICES ASSUME EsimInv, EsimNext PROVE EsimInv'
  OBVIOUS
<1>1. CASE \E p \in Profiles : LateEffect(p) \/ DeleteProfile(p)
  BY <1>1, LateEffectStep, DeleteProfileStep
<1>2. ASSUME NEW j \in Jobs,
             \/ \E p \in Profiles : AskEnable(j, p)
             \/ AskDownload(j)
             \/ TakeProfiles(j) \/ TakeBefore(j) \/ Check(j)
             \/ EnableSucceeds(j) \/ EnableFails(j) \/ Look(j)
             \/ DownloadSucceeds(j) \/ Scan(j) \/ DownloadFails(j) \/ DownloadDropped(j)
             \/ Deliver(j) \/ Process(j) \/ ProcessFails(j) \/ RemoveNote(j) \/ RemoveFails(j)
      PROVE  EsimInv'
  BY <1>2, AskEnableStep, AskDownloadStep, TakeProfilesStep, TakeBeforeStep, CheckStep,
     EnableSucceedsStep, EnableFailsStep, LookStep, DownloadSucceedsStep, ScanStep,
     DownloadFailsStep, DownloadDroppedStep, DeliverStep, ProcessStep, ProcessFailsStep,
     RemoveNoteStep, RemoveFailsStep
<1>3. CASE EsimStops
  BY <1>3, EsimStopsStep
<1> QED BY <1>1, <1>2, <1>3 DEF EsimNext

LEMMA EsimRests == EsimInv /\ UNCHANGED esim => EsimInv'
BY DEF EsimInv, esim

LEMMA EsimOfMaintenance == EsimInv /\ [Next]_vars => EsimInv'
BY EsimStep, EsimRests DEF Next, vars

(* No notification is lost, each is delivered by its own request or left to *)
(* the user, and a request that tells no failure has delivered all that its *)
(* operation wrote, whatever other requests and late lpac processes do.     *)
THEOREM NotificationsAreKept == Spec => []NotificationsKept
<1>1. ASSUME EsimInv PROVE NotificationsKept
  <2>1. \A w \in written :
          /\ w.note \in notes \cup carrier
          /\ w.by = Earlier \/ w.note.op = "delete" => w.note \in notes \ carrier
    BY <1>1 DEF EsimInv, KeptOK
  <2>2. ASSUME NEW j \in Jobs, Is(j, "done"), ~job[j].failed, NEW w \in written,
               w.by = j /\ w.note.op # "disable",
               job[j].profile \in {w.note.profile, NoProfile}
        PROVE  w.note \in carrier \ notes
    BY <1>1, <2>2 DEF EsimInv, EsimJobOK, Is, Due
  <2> QED BY <2>1, <2>2 DEF NotificationsKept
<1>2. EsimInv => NotificationsKept
  BY <1>1
<1> QED BY <1>2, EsimAtInit, EsimOfMaintenance, PTL DEF Spec

-----------------------------------------------------------------------------
(* The alarm.  The counters only count what is in a row at the end of the   *)
(* samples: k samples of a kind, and no more.                               *)
AllOf(xs, s, from, to) == \A i \in from..to : xs[i] = s

RunOf(xs, s, k) ==
  /\ k \in 0..Len(xs)
  /\ AllOf(xs, s, Len(xs) - k + 1, Len(xs))
  /\ k < Len(xs) => xs[Len(xs) - k] # s

(* OnByDefinition, of any samples.                                          *)
OnOf(xs, l) ==
  \E i \in l[1]..Len(xs) :
    /\ AllOf(xs, "bad", i - l[1] + 1, i)
    /\ \A j \in (i + l[2])..Len(xs) : ~AllOf(xs, "good", j - l[2] + 1, j)

AlarmInv ==
  /\ counter.active =>
       /\ counter.bad = 0 /\ counter.good < limit[2]
       /\ RunOf(samples, "good", counter.good)
       /\ OnOf(samples, limit)
  /\ ~counter.active =>
       /\ counter.good = 0 /\ counter.bad < limit[1]
       /\ RunOf(samples, "bad", counter.bad)
       /\ ~OnOf(samples, limit)
  /\ ~muted => codes = Codes /\ (told = "triggered" <=> counter.active)

(* What one more sample does to a run.                                      *)
LEMMA RunGrows ==
  ASSUME NEW xs \in Seq(Samples), NEW s \in Samples, NEW k \in Nat, RunOf(xs, s, k)
  PROVE  RunOf(Append(xs, s), s, k + 1)
<1> DEFINE ys == Append(xs, s)
<1>1. /\ Len(xs) \in Nat /\ Len(ys) = Len(xs) + 1 /\ ys[Len(xs) + 1] = s
      /\ \A i \in 1..Len(xs) : ys[i] = xs[i]
  OBVIOUS
<1> HIDE DEF ys
<1>2. /\ k <= Len(xs) /\ AllOf(xs, s, Len(xs) - k + 1, Len(xs))
      /\ k < Len(xs) => xs[Len(xs) - k] # s
  BY DEF RunOf
<1>3. \A i \in (Len(ys) - (k + 1) + 1)..Len(ys) : ys[i] = s
  <2> TAKE i \in (Len(ys) - (k + 1) + 1)..Len(ys)
  <2>1. i \in (Len(xs) - k + 1)..Len(xs) \/ i = Len(xs) + 1
    BY <1>1, <1>2
  <2>2. i \in (Len(xs) - k + 1)..Len(xs) => i \in 1..Len(xs)
    BY <1>1, <1>2
  <2> QED BY <1>1, <1>2, <2>1, <2>2 DEF AllOf
<1>4. k + 1 < Len(ys) => ys[Len(ys) - (k + 1)] # s
  <2> SUFFICES ASSUME k + 1 < Len(ys) PROVE ys[Len(ys) - (k + 1)] # s
    OBVIOUS
  <2>1. Len(ys) - (k + 1) = Len(xs) - k /\ k < Len(xs) /\ Len(xs) - k \in 1..Len(xs)
    BY <1>1
  <2> QED BY <1>1, <1>2, <2>1
<1> QED BY <1>1, <1>2, <1>3, <1>4 DEF RunOf, AllOf, ys

LEMMA RunBreaks ==
  ASSUME NEW xs \in Seq(Samples), NEW s, NEW t \in Samples, t # s
  PROVE  RunOf(Append(xs, t), s, 0)
BY DEF RunOf, AllOf

(* What a run at the end says of the alarm by its definition.               *)
LEMMA RunTriggers ==
  ASSUME NEW ys \in Seq(Samples), NEW l \in (Nat \ {0}) \X (Nat \ {0}), NEW k \in Nat,
         RunOf(ys, "bad", k), k >= l[1]
  PROVE  OnOf(ys, l)
<1>1. /\ Len(ys) \in Nat /\ k <= Len(ys) /\ l[1] \in Nat \ {0} /\ l[2] \in Nat \ {0}
      /\ \A i \in (Len(ys) - k + 1)..Len(ys) : ys[i] = "bad"
  BY DEF RunOf, AllOf
<1>2. Len(ys) \in l[1]..Len(ys) /\ (Len(ys) + l[2])..Len(ys) = {}
  BY <1>1
<1>3. AllOf(ys, "bad", Len(ys) - l[1] + 1, Len(ys))
  BY <1>1 DEF AllOf
<1> QED BY <1>2, <1>3 DEF OnOf

LEMMA RunEnds ==
  ASSUME NEW ys \in Seq(Samples), NEW l \in (Nat \ {0}) \X (Nat \ {0}), NEW k \in Nat,
         RunOf(ys, "good", k), k >= l[2]
  PROVE  ~OnOf(ys, l)
<1>1. /\ Len(ys) \in Nat /\ k <= Len(ys) /\ l[1] \in Nat \ {0} /\ l[2] \in Nat \ {0}
      /\ \A i \in (Len(ys) - k + 1)..Len(ys) : ys[i] = "good"
  BY DEF RunOf, AllOf
<1>2. AllOf(ys, "good", Len(ys) - l[2] + 1, Len(ys))
  BY <1>1 DEF AllOf
<1> SUFFICES ASSUME NEW i \in l[1]..Len(ys), AllOf(ys, "bad", i - l[1] + 1, i),
                    \A j \in (i + l[2])..Len(ys) : ~AllOf(ys, "good", j - l[2] + 1, j)
             PROVE  FALSE
  BY DEF OnOf
<1>3. ys[i] = "bad"
  BY <1>1 DEF AllOf
<1>4. i < Len(ys) - k + 1
  BY <1>1, <1>3
<1>5. Len(ys) \in (i + l[2])..Len(ys)
  BY <1>1, <1>4
<1> QED BY <1>2, <1>5

LEMMA RunsAgree ==
  ASSUME NEW xs, NEW ys, NEW n \in Nat, \A i \in 1..n : ys[i] = xs[i],
         NEW s, NEW from \in Nat \ {0}, NEW to \in 0..n
  PROVE  AllOf(xs, s, from, to) <=> AllOf(ys, s, from, to)
<1>1. from..to \subseteq 1..n
  OBVIOUS
<1> QED BY <1>1 DEF AllOf

(* A sample that completes no run changes nothing.                          *)
LEMMA StaysOff ==
  ASSUME NEW xs \in Seq(Samples), NEW s \in Samples,
         NEW l \in (Nat \ {0}) \X (Nat \ {0}), NEW k \in Nat,
         ~OnOf(xs, l), RunOf(Append(xs, s), "bad", k), k < l[1]
  PROVE  ~OnOf(Append(xs, s), l)
<1> DEFINE ys == Append(xs, s)
<1>1. /\ Len(xs) \in Nat /\ Len(ys) = Len(xs) + 1 /\ l[1] \in Nat \ {0} /\ l[2] \in Nat \ {0}
      /\ \A i \in 1..Len(xs) : ys[i] = xs[i]
  OBVIOUS
<1>2. k <= Len(ys) /\ (k < Len(ys) => ys[Len(ys) - k] # "bad")
  BY DEF RunOf
<1> HIDE DEF ys
<1> SUFFICES ASSUME NEW i \in l[1]..Len(ys), AllOf(ys, "bad", i - l[1] + 1, i),
                    \A j \in (i + l[2])..Len(ys) : ~AllOf(ys, "good", j - l[2] + 1, j)
             PROVE  FALSE
  BY DEF OnOf, ys
<1>3. i # Len(ys)
  <2> SUFFICES ASSUME i = Len(ys) PROVE FALSE
    OBVIOUS
  <2>1. k < Len(ys) /\ Len(ys) - k \in (i - l[1] + 1)..i
    BY <1>1, <1>2
  <2> QED BY <1>2, <2>1 DEF AllOf
<1>4. i \in l[1]..Len(xs)
  BY <1>1, <1>3
<1>5. AllOf(xs, "bad", i - l[1] + 1, i)
  BY <1>1, <1>4 DEF AllOf
<1>6. PICK j \in (i + l[2])..Len(xs) : AllOf(xs, "good", j - l[2] + 1, j)
  BY <1>4, <1>5 DEF OnOf
<1>7. /\ j - l[2] + 1 \in Nat \ {0} /\ j \in 0..Len(xs)
      /\ j \in (i + l[2])..Len(ys)
  BY <1>1, <1>4, <1>6
<1>8. AllOf(ys, "good", j - l[2] + 1, j)
  <2>1. ASSUME NEW n \in (j - l[2] + 1)..j PROVE ys[n] = "good"
    <3>1. n \in 1..Len(xs)
      BY <1>1, <1>7
    <3> QED BY <1>1, <1>6, <3>1 DEF AllOf
  <2> QED BY <2>1 DEF AllOf
<1> QED BY <1>7, <1>8

LEMMA StaysOn ==
  ASSUME NEW xs \in Seq(Samples), NEW s \in Samples,
         NEW l \in (Nat \ {0}) \X (Nat \ {0}), NEW k \in Nat,
         OnOf(xs, l), RunOf(Append(xs, s), "good", k), k < l[2]
  PROVE  OnOf(Append(xs, s), l)
<1> DEFINE ys == Append(xs, s)
<1>1. /\ Len(xs) \in Nat /\ Len(ys) = Len(xs) + 1 /\ l[1] \in Nat \ {0} /\ l[2] \in Nat \ {0}
      /\ \A i \in 1..Len(xs) : ys[i] = xs[i]
  OBVIOUS
<1>2. k <= Len(ys) /\ (k < Len(ys) => ys[Len(ys) - k] # "good")
  BY DEF RunOf
<1> HIDE DEF ys
<1>3. PICK i \in l[1]..Len(xs) :
        /\ AllOf(xs, "bad", i - l[1] + 1, i)
        /\ \A j \in (i + l[2])..Len(xs) : ~AllOf(xs, "good", j - l[2] + 1, j)
  BY DEF OnOf
<1>4. i \in l[1]..Len(ys) /\ AllOf(ys, "bad", i - l[1] + 1, i)
  <2>1. i \in l[1]..Len(ys) /\ i - l[1] + 1 \in Nat \ {0} /\ i \in 0..Len(xs)
    BY <1>1, <1>3
  <2>2. AllOf(xs, "bad", i - l[1] + 1, i) <=> AllOf(ys, "bad", i - l[1] + 1, i)
    BY <1>1, <2>1, RunsAgree
  <2> QED BY <1>3, <2>1, <2>2
<1>5. ASSUME NEW j \in (i + l[2])..Len(ys), AllOf(ys, "good", j - l[2] + 1, j) PROVE FALSE
  <2>1. CASE j \in (i + l[2])..Len(xs)
    <3>0. j - l[2] + 1 \in Nat \ {0} /\ j \in 0..Len(xs)
      BY <1>1, <1>3, <2>1
    <3>1. AllOf(xs, "good", j - l[2] + 1, j)
      BY <1>1, <1>5, <3>0, RunsAgree
    <3> QED BY <1>3, <2>1, <3>1
  <2>2. CASE j = Len(ys)
    <3>1. k < Len(ys) /\ Len(ys) - k \in (j - l[2] + 1)..j
      BY <1>1, <1>2, <1>3, <1>5, <2>2
    <3> QED BY <1>2, <1>5, <3>1 DEF AllOf
  <2> QED BY <1>1, <1>3, <2>1, <2>2
<1> QED BY <1>4, <1>5 DEF OnOf, ys

LEMMA LimitIs ==
  ASSUME AlarmsTypeOK
  PROVE  limit \in (Nat \ {0}) \X (Nat \ {0}) /\ MaxSamples \in Nat
BY AlarmsAssumption DEF AlarmsTypeOK

LEMMA SampleStep ==
  ASSUME AlarmsTypeOK, AlarmInv, NEW s \in Samples, Sample(s)
  PROVE  (counter \in [active : BOOLEAN, bad : 0..MaxSamples, good : 0..MaxSamples])' /\ AlarmInv'
<1> DEFINE Counters == [active : BOOLEAN, bad : 0..MaxSamples, good : 0..MaxSamples]
<1>1. /\ samples \in Seq(Samples) /\ Len(samples) \in Nat /\ Len(samples) < MaxSamples
      /\ samples' = Append(samples, s) /\ samples' \in Seq(Samples)
      /\ Len(samples') = Len(samples) + 1
      /\ counter' = Update(s) /\ limit' = limit /\ codes' = codes /\ muted' = muted
  BY LimitIs DEF Sample, AlarmsTypeOK
<1>2. /\ limit \in (Nat \ {0}) \X (Nat \ {0}) /\ limit[1] \in Nat \ {0} /\ limit[2] \in Nat \ {0}
      /\ MaxSamples \in Nat
  BY LimitIs
<1>3. counter \in Counters
  BY DEF AlarmsTypeOK
<1>4. /\ NoAlarm \in Counters /\ NoAlarm.active = FALSE /\ NoAlarm.bad = 0 /\ NoAlarm.good = 0
      /\ [NoAlarm EXCEPT !.active = TRUE] \in Counters
      /\ [NoAlarm EXCEPT !.active = TRUE].active = TRUE
      /\ [NoAlarm EXCEPT !.active = TRUE].bad = 0
      /\ [NoAlarm EXCEPT !.active = TRUE].good = 0
  <2>1. 0 \in 0..MaxSamples
    BY <1>2
  <2>2. NoAlarm \in Counters /\ NoAlarm.active = FALSE /\ NoAlarm.bad = 0 /\ NoAlarm.good = 0
    BY <2>1 DEF NoAlarm
  <2> DEFINE on == [NoAlarm EXCEPT !.active = TRUE]
  <2>3. on \in Counters
    BY <2>2
  <2>4. on.active = TRUE
    BY <2>2
  <2>5. on.bad = 0 /\ on.good = 0
    BY <2>2
  <2> QED BY <2>2, <2>3, <2>4, <2>5
<1>5. ASSUME counter.active
      PROVE  /\ counter' \in Counters
             /\ counter'.active => /\ counter'.bad = 0 /\ counter'.good < limit[2]
                                   /\ RunOf(samples', "good", counter'.good)
                                   /\ OnOf(samples', limit)
             /\ ~counter'.active => /\ counter'.good = 0 /\ counter'.bad = 0
                                    /\ RunOf(samples', "bad", 0)
                                    /\ ~OnOf(samples', limit)
  <2>1. /\ counter.bad = 0 /\ counter.good < limit[2] /\ RunOf(samples, "good", counter.good)
        /\ OnOf(samples, limit) /\ counter.good \in 0..Len(samples)
    BY <1>5 DEF AlarmInv, RunOf
  <2> DEFINE good == IF s = "good" THEN counter.good + 1 ELSE 0
  <2>2. good \in 0..MaxSamples /\ RunOf(samples', "good", good)
    <3>1. CASE s = "good"
      BY <1>1, <1>2, <2>1, <3>1, RunGrows
    <3>2. CASE s # "good"
      BY <1>1, <1>2, <3>2, RunBreaks
    <3> QED BY <3>1, <3>2
  <2>3. counter' = IF good >= limit[2] THEN NoAlarm ELSE [counter EXCEPT !.good = good]
    BY <1>1, <1>5 DEF Update, CountGood
  <2>4. good >= limit[2] => s = "good"
    BY <1>2
  <2> HIDE DEF good
  <2>5. CASE good >= limit[2]
    <3>0. good \in Nat /\ RunOf(samples', "good", good) /\ good >= limit[2]
      BY <1>2, <2>2, <2>5
    <3>1. ~OnOf(samples', limit)
      BY <1>1, <1>2, <3>0, RunEnds
    <3>2. RunOf(samples', "bad", 0)
      BY <1>1, <2>4, <2>5, RunBreaks
    <3> QED BY <1>4, <2>3, <2>5, <3>1, <3>2
  <2>6. CASE ~(good >= limit[2])
    <3>1. good < limit[2]
      BY <1>2, <2>2, <2>6
    <3>2. OnOf(samples', limit)
      BY <1>1, <1>2, <2>1, <2>2, <3>1, StaysOn
    <3>3. /\ counter' \in Counters /\ counter'.active = TRUE
          /\ counter'.bad = 0 /\ counter'.good = good
      BY <1>3, <1>5, <2>1, <2>2, <2>3, <2>6
    <3> QED BY <2>2, <3>1, <3>2, <3>3
  <2> QED BY <2>5, <2>6
<1>6. ASSUME ~counter.active
      PROVE  /\ counter' \in Counters
             /\ counter'.active => /\ counter'.bad = 0 /\ counter'.good = 0
                                   /\ RunOf(samples', "good", 0)
                                   /\ OnOf(samples', limit)
             /\ ~counter'.active => /\ counter'.good = 0 /\ counter'.bad < limit[1]
                                    /\ RunOf(samples', "bad", counter'.bad)
                                    /\ ~OnOf(samples', limit)
  <2>1. /\ counter.good = 0 /\ counter.bad < limit[1] /\ RunOf(samples, "bad", counter.bad)
        /\ ~OnOf(samples, limit) /\ counter.bad \in 0..Len(samples)
    BY <1>6 DEF AlarmInv, RunOf
  <2> DEFINE bad == IF s = "bad" THEN counter.bad + 1 ELSE 0
  <2>2. bad \in 0..MaxSamples /\ RunOf(samples', "bad", bad)
    <3>1. CASE s = "bad"
      BY <1>1, <1>2, <2>1, <3>1, RunGrows
    <3>2. CASE s # "bad"
      BY <1>1, <1>2, <3>2, RunBreaks
    <3> QED BY <3>1, <3>2
  <2>3. counter' = IF bad >= limit[1] THEN [NoAlarm EXCEPT !.active = TRUE]
                   ELSE [counter EXCEPT !.bad = bad]
    BY <1>1, <1>6 DEF Update, CountBad
  <2>4. bad >= limit[1] => s = "bad"
    BY <1>2
  <2> HIDE DEF bad
  <2>5. CASE bad >= limit[1]
    <3>0. bad \in Nat /\ RunOf(samples', "bad", bad) /\ bad >= limit[1]
      BY <1>2, <2>2, <2>5
    <3>1. OnOf(samples', limit)
      BY <1>1, <1>2, <3>0, RunTriggers
    <3>2. RunOf(samples', "good", 0)
      BY <1>1, <2>4, <2>5, RunBreaks
    <3> QED BY <1>4, <2>3, <2>5, <3>1, <3>2
  <2>6. CASE ~(bad >= limit[1])
    <3>1. bad < limit[1]
      BY <1>2, <2>2, <2>6
    <3>2. ~OnOf(samples', limit)
      BY <1>1, <1>2, <2>1, <2>2, <3>1, StaysOff
    <3>3. /\ counter' \in Counters /\ counter'.active = FALSE
          /\ counter'.good = 0 /\ counter'.bad = bad
      BY <1>3, <1>6, <2>1, <2>2, <2>3, <2>6
    <3> QED BY <2>2, <3>1, <3>2, <3>3
  <2> QED BY <2>5, <2>6
<1>7. ~muted' => codes' = Codes /\ (told' = "triggered" <=> counter'.active)
  <2> SUFFICES ASSUME ~muted' PROVE codes' = Codes /\ (told' = "triggered" <=> counter'.active)
    OBVIOUS
  <2>1. codes = Codes /\ (told = "triggered" <=> counter.active)
    BY <1>1 DEF AlarmInv
  <2>2. told' = IF Transition(counter, counter') \in codes
                THEN Transition(counter, counter') ELSE told
    BY DEF Sample
  <2>3. Transition(counter, counter') =
          IF counter'.active /\ ~counter.active THEN "triggered"
          ELSE IF counter.active /\ ~counter'.active THEN "recovered" ELSE "nothing"
    BY <1>3, <1>5, <1>6 DEF Transition
  <2>4. CASE counter'.active /\ ~counter.active
    BY <1>1, <2>1, <2>2, <2>3, <2>4 DEF Codes
  <2>5. CASE counter.active /\ ~counter'.active
    BY <1>1, <2>1, <2>2, <2>3, <2>5 DEF Codes
  <2>6. CASE counter.active <=> counter'.active
    BY <1>1, <2>1, <2>2, <2>3, <2>6 DEF Codes
  <2> QED BY <2>4, <2>5, <2>6
<1>8. counter' \in Counters
  BY <1>5, <1>6
<1>9. AlarmInv'
  BY <1>1, <1>2, <1>3, <1>5, <1>6, <1>7 DEF AlarmInv
<1> QED BY <1>8, <1>9

-----------------------------------------------------------------------------
(* The failed logins.  The list holds the last of all failures, and what    *)
(* was dropped from it is out of the window of the last one.                *)
NewestAre(ts, fs) ==
  /\ Len(ts) <= Len(fs)
  /\ \A i \in 1..Len(ts) : ts[i] = fs[Len(fs) - Len(ts) + i]

DroppedAre(n, fs) ==
  \A i \in 1..Len(fs) : i <= Len(fs) - n <=> fs[Len(fs)] - fs[i] > Window

(* The failures in the window before t.                                     *)
Before(t, fs) == {i \in DOMAIN fs : t - fs[i] \in 0..Window}

WindowInv ==
  /\ \A i \in 1..Len(failures) : failures[i] <= now
  /\ \A i, j \in 1..Len(failures) : i <= j => failures[i] <= failures[j]
  /\ NewestAre(timestamps, failures)
  /\ failures # <<>> => DroppedAre(Len(timestamps), failures)

AlertsInv ==
  /\ lastNotification = IF alerts = <<>> THEN Never ELSE alerts[Len(alerts)]
  /\ \A i \in 1..Len(alerts) : alerts[i] <= now
  /\ \A i \in 1..Len(alerts) :
       /\ Cardinality(Before(alerts[i], failures)) >= Threshold
       /\ i > 1 => alerts[i] - alerts[i - 1] >= Window
  /\ failures # <<>> /\ Len(timestamps) >= Threshold =>
       \E i \in 1..Len(alerts) : failures[Len(failures)] - alerts[i] < Window

LoginsInv == WindowInv /\ AlertsInv

LEMMA FailureIs ==
  ASSUME AlarmsTypeOK
  PROVE  /\ MaxTime \in Nat /\ Window \in Nat \ {0} /\ Threshold \in Nat
         /\ now \in 0..MaxTime
         /\ timestamps \in Seq(0..MaxTime) /\ failures \in Seq(0..MaxTime)
         /\ alerts \in Seq(0..MaxTime)
         /\ Len(timestamps) \in Nat /\ Len(failures) \in Nat /\ Len(alerts) \in Nat
         /\ \A i \in 1..Len(timestamps) : timestamps[i] \in 0..MaxTime
         /\ \A i \in 1..Len(failures) : failures[i] \in 0..MaxTime
         /\ \A i \in 1..Len(alerts) : alerts[i] \in 0..MaxTime
         /\ lastNotification \in 0..MaxTime \cup {Never}
<1>1. MaxTime \in Nat /\ Window \in Nat \ {0} /\ Threshold \in Nat
  BY AlarmsAssumption
<1> QED BY <1>1 DEF AlarmsTypeOK

(* pop_front stops where the failures in the window begin.                  *)
LEMMA OutdatedIs ==
  ASSUME AlarmsTypeOK, LoginsInv
  PROVE  /\ Outdated(now) \in 0..Len(timestamps)
         /\ \A i \in 1..Len(timestamps) : i <= Outdated(now) <=> now - timestamps[i] > Window
<1>1. /\ MaxTime \in Nat /\ Window \in Nat \ {0} /\ now \in 0..MaxTime
      /\ Len(timestamps) \in Nat /\ Len(failures) \in Nat
      /\ \A i \in 1..Len(timestamps) : timestamps[i] \in 0..MaxTime
  BY FailureIs
<1> DEFINE Young == {k \in 1..Len(timestamps) + 1 :
                       k <= Len(timestamps) => now - timestamps[k] <= Window}
<1>2. PICK k \in Young : \A m \in Young : k <= m
  <2>1. /\ Young \subseteq 1..Len(timestamps) + 1 /\ Len(timestamps) + 1 \in Young
        /\ Len(timestamps) + 1 \in Nat
    BY <1>1
  <2> HIDE DEF Young
  <2> QED BY <2>1, LeastNumber
<1>3. \A i \in 1..(k - 1) : now - timestamps[i] > Window
  <2> TAKE i \in 1..(k - 1)
  <2>1. i \in 1..Len(timestamps) /\ ~(k <= i)
    BY <1>1, <1>2
  <2>2. i \notin Young
    BY <1>2, <2>1
  <2> QED BY <1>1, <2>1, <2>2
<1>4. /\ Outdated(now) \in 0..Len(timestamps)
      /\ \A i \in 1..Outdated(now) : now - timestamps[i] > Window
      /\ Outdated(now) < Len(timestamps) => now - timestamps[Outdated(now) + 1] <= Window
  <2>1. \E n \in 0..Len(timestamps) :
          /\ \A i \in 1..n : now - timestamps[i] > Window
          /\ n < Len(timestamps) => now - timestamps[n + 1] <= Window
    <3>1. k - 1 \in 0..Len(timestamps) /\ (k - 1) + 1 = k
      BY <1>1, <1>2
    <3>2. k - 1 < Len(timestamps) => now - timestamps[(k - 1) + 1] <= Window
      BY <1>1, <1>2, <3>1
    <3> DEFINE n == k - 1
    <3>3. /\ n \in 0..Len(timestamps) /\ \A i \in 1..n : now - timestamps[i] > Window
          /\ n < Len(timestamps) => now - timestamps[n + 1] <= Window
      BY <1>3, <3>1, <3>2
    <3> HIDE DEF n
    <3> QED BY <3>3
  <2> QED BY <2>1 DEF Outdated
<1> DEFINE out == Outdated(now)
<1> HIDE DEF out, Young
<1>5. ASSUME NEW i \in 1..Len(timestamps), i > out PROVE ~(now - timestamps[i] > Window)
  <2>1. out \in 0..Len(timestamps) /\ out < Len(timestamps) /\ out + 1 \in 1..Len(timestamps)
        /\ now - timestamps[out + 1] <= Window
    BY <1>1, <1>4, <1>5 DEF out
  <2>2. timestamps[out + 1] <= timestamps[i]
    <3> DEFINE d == Len(failures) - Len(timestamps)
    <3>1. /\ d \in Nat /\ timestamps[out + 1] = failures[d + (out + 1)]
          /\ timestamps[i] = failures[d + i]
      BY <1>1, <1>5, <2>1 DEF LoginsInv, WindowInv, NewestAre
    <3>2. /\ d + (out + 1) \in 1..Len(failures) /\ d + i \in 1..Len(failures)
          /\ d + (out + 1) <= d + i
      BY <1>1, <1>5, <2>1, <3>1
    <3> HIDE DEF d
    <3> QED BY <3>1, <3>2 DEF LoginsInv, WindowInv
  <2> QED BY <1>1, <2>1, <2>2
<1>6. \A i \in 1..Len(timestamps) : i <= out <=> now - timestamps[i] > Window
  <2> TAKE i \in 1..Len(timestamps)
  <2>1. CASE i <= out
    BY <1>1, <1>4, <2>1 DEF out
  <2>2. CASE ~(i <= out)
    BY <1>1, <1>4, <1>5, <2>2 DEF out
  <2> QED BY <2>1, <2>2
<1> QED BY <1>4, <1>6 DEF out

(* One more failure.  The list holds those in the window, before and now.   *)
LEMMA RememberedAre ==
  ASSUME AlarmsTypeOK, LoginsInv, LoginFails
  PROVE  /\ failures' = Append(failures, now) /\ Len(failures') = Len(failures) + 1
         /\ failures' \in Seq(0..MaxTime) /\ timestamps' \in Seq(0..MaxTime)
         /\ NewestAre(timestamps', failures')
         /\ DroppedAre(Len(timestamps'), failures')
         /\ Len(timestamps') \in 0..Len(failures')
<1> DEFINE out == Outdated(now)
           kept == Remembered(now)
<1>1. /\ MaxTime \in Nat /\ Window \in Nat \ {0} /\ now \in 0..MaxTime
      /\ timestamps \in Seq(0..MaxTime) /\ failures \in Seq(0..MaxTime)
      /\ Len(timestamps) \in Nat /\ Len(failures) \in Nat
      /\ \A i \in 1..Len(failures) : failures[i] \in 0..MaxTime
  BY FailureIs
<1>2. /\ out \in 0..Len(timestamps)
      /\ \A i \in 1..Len(timestamps) : i <= out <=> now - timestamps[i] > Window
  BY OutdatedIs
<1>3. timestamps' = Append(kept, now) /\ failures' = Append(failures, now)
  BY DEF LoginFails
<1>4. /\ Len(timestamps) <= Len(failures)
      /\ \A i \in 1..Len(timestamps) : timestamps[i] = failures[Len(failures) - Len(timestamps) + i]
  BY DEF LoginsInv, WindowInv, NewestAre
<1> HIDE DEF out
<1>5. /\ kept \in Seq(0..MaxTime) /\ Len(kept) = Len(timestamps) - out
      /\ \A i \in 1..Len(kept) : kept[i] = timestamps[out + i]
  <2>1. kept = SubSeq(timestamps, out + 1, Len(timestamps))
    BY DEF Remembered, out
  <2>2. out + 1 \in 1..(Len(timestamps) + 1)
    BY <1>1, <1>2
  <2>3. CASE out + 1 <= Len(timestamps)
    BY <1>1, <1>2, <2>1, <2>3
  <2>4. CASE out = Len(timestamps)
    BY <1>1, <1>2, <2>1, <2>4
  <2> QED BY <1>1, <1>2, <2>3, <2>4
<1> HIDE DEF kept
<1>6. /\ failures' \in Seq(0..MaxTime) /\ timestamps' \in Seq(0..MaxTime)
      /\ Len(failures') = Len(failures) + 1 /\ Len(timestamps') = Len(kept) + 1
      /\ failures'[Len(failures) + 1] = now /\ timestamps'[Len(kept) + 1] = now
      /\ \A i \in 1..Len(failures) : failures'[i] = failures[i]
      /\ \A i \in 1..Len(kept) : timestamps'[i] = kept[i]
  BY <1>1, <1>3, <1>5
<1> DEFINE d == Len(failures') - Len(timestamps')
<1>7. /\ d \in Nat /\ d = (Len(failures) - Len(timestamps)) + out
      /\ Len(timestamps') <= Len(failures')
  BY <1>1, <1>2, <1>4, <1>5, <1>6
<1> HIDE DEF d
<1>8. ASSUME NEW i \in 1..Len(timestamps') PROVE timestamps'[i] = failures'[d + i]
  <2>1. CASE i = Len(kept) + 1
    BY <1>1, <1>5, <1>6, <1>7, <2>1 DEF d
  <2>2. CASE i \in 1..Len(kept)
    <3>0. d = Len(failures) - Len(kept) /\ Len(kept) <= Len(failures)
      BY <1>1, <1>5, <1>6, <1>7 DEF d
    <3>1. /\ out + i \in 1..Len(timestamps) /\ d + i \in 1..Len(failures)
          /\ (Len(failures) - Len(timestamps)) + (out + i) = d + i
      <4>1. /\ i \in Nat /\ i >= 1 /\ i <= Len(timestamps) - out /\ i <= Len(kept)
            /\ out \in Nat /\ out <= Len(timestamps) /\ d \in Nat
        BY <1>1, <1>2, <1>5, <1>7, <2>2
      <4>2. out + i \in 1..Len(timestamps)
        BY <1>1, <4>1
      <4>3. d + i \in 1..Len(failures)
        <5>1. Len(kept) \in Nat /\ Len(failures) \in Nat
          BY <1>1, <1>2, <1>5
        <5> QED BY <3>0, <4>1, <5>1
      <4> QED BY <1>1, <1>7, <4>1, <4>2, <4>3
    <3>2. timestamps'[i] = timestamps[out + i]
      BY <1>5, <1>6, <2>2
    <3> QED BY <1>4, <1>6, <3>1, <3>2
  <2> QED BY <1>1, <1>5, <1>6, <2>1, <2>2
<1>9. NewestAre(timestamps', failures')
  BY <1>7, <1>8 DEF NewestAre, d
<1>10. ASSUME NEW i \in 1..Len(failures')
       PROVE  i <= d <=> failures'[Len(failures')] - failures'[i] > Window
  <2>1. failures'[Len(failures')] = now
    BY <1>6
  <2>2. CASE i = Len(failures) + 1
    <3>1. ~(i <= d) /\ failures'[i] = now
      BY <1>1, <1>5, <1>6, <1>7, <2>2 DEF d
    <3> QED BY <1>1, <2>1, <3>1
  <2>3. CASE i \in 1..Len(failures) /\ i > Len(failures) - Len(timestamps)
    <3> DEFINE k == i - (Len(failures) - Len(timestamps))
    <3>1. /\ k \in 1..Len(timestamps) /\ (Len(failures) - Len(timestamps)) + k = i
          /\ k <= out <=> i <= d
      BY <1>1, <1>2, <1>4, <1>7, <2>3
    <3> HIDE DEF k
    <3>2. timestamps[k] = failures[i]
      BY <1>4, <3>1
    <3> QED BY <1>1, <1>2, <1>6, <2>1, <2>3, <3>1, <3>2
  <2>4. CASE i \in 1..Len(failures) /\ ~(i > Len(failures) - Len(timestamps))
    <3>1. i <= Len(failures) - Len(timestamps) /\ failures # <<>> /\ i <= d
      BY <1>1, <1>2, <1>7, <2>4
    <3>2. failures[Len(failures)] - failures[i] > Window
      BY <2>4, <3>1 DEF LoginsInv, WindowInv, DroppedAre
    <3>3. failures[Len(failures)] <= now /\ Len(failures) \in 1..Len(failures)
      BY <1>1, <2>4 DEF LoginsInv, WindowInv
    <3>4. now - failures[i] > Window
      BY <1>1, <2>4, <3>2, <3>3
    <3> QED BY <1>6, <2>1, <2>4, <3>1, <3>4
  <2> QED BY <1>1, <1>6, <2>2, <2>3, <2>4
<1>11. DroppedAre(Len(timestamps'), failures')
  BY <1>10 DEF DroppedAre, d
<1> QED BY <1>1, <1>3, <1>5, <1>6, <1>7, <1>9, <1>11

(* The length of the list is the number of failures in the window.          *)
LEMMA CountIs ==
  ASSUME NEW fs \in Seq(Nat), NEW n \in 0..Len(fs), fs # <<>>, Window \in Nat,
         \A i \in 1..Len(fs) : fs[i] <= fs[Len(fs)],
         DroppedAre(n, fs)
  PROVE  Cardinality(Before(fs[Len(fs)], fs)) = n
<1>1. Len(fs) \in Nat /\ Len(fs) >= 1 /\ \A i \in 1..Len(fs) : fs[i] \in Nat
  BY EmptySeq
<1>2. Before(fs[Len(fs)], fs) = (Len(fs) - n + 1)..Len(fs)
  <2>1. ASSUME NEW i \in 1..Len(fs)
        PROVE  fs[Len(fs)] - fs[i] \in 0..Window <=> i \in (Len(fs) - n + 1)..Len(fs)
    <3>1. i <= Len(fs) - n <=> fs[Len(fs)] - fs[i] > Window
      BY DEF DroppedAre
    <3>2. fs[Len(fs)] - fs[i] \in Nat
      BY <1>1
    <3> QED BY <1>1, <3>1, <3>2
  <2>2. (Len(fs) - n + 1)..Len(fs) \subseteq 1..Len(fs) /\ DOMAIN fs = 1..Len(fs)
    BY <1>1
  <2> QED BY <2>1, <2>2 DEF Before
<1> QED BY <1>1, <1>2, FS_Interval

(* A failure adds to a window it is in, and no other.                       *)
LEMMA MoreInWindow ==
  ASSUME NEW fs \in Seq(Nat), NEW f \in Nat, NEW t \in Nat
  PROVE  /\ Cardinality(Before(t, Append(fs, f))) >= Cardinality(Before(t, fs))
         /\ Cardinality(Before(t, Append(fs, f))) \in Nat /\ Cardinality(Before(t, fs)) \in Nat
<1>1. /\ Before(t, fs) \subseteq Before(t, Append(fs, f))
      /\ Before(t, Append(fs, f)) \subseteq 1..(Len(fs) + 1)
      /\ Len(fs) + 1 \in Nat
  BY DEF Before
<1>2. IsFiniteSet(Before(t, Append(fs, f)))
  <2>1. IsFiniteSet(1..(Len(fs) + 1))
    BY <1>1, FS_Interval
  <2> QED BY <1>1, <2>1, FS_Subset
<1>3. IsFiniteSet(Before(t, fs))
  BY <1>1, <1>2, FS_Subset
<1> QED BY <1>1, <1>2, <1>3, FS_Subset, FS_CardinalityType

LEMMA LoginFailsStep ==
  ASSUME AlarmsTypeOK, LoginsInv, LoginFails, UNCHANGED alarm
  PROVE  AlarmsTypeOK' /\ LoginsInv'
<1>1. /\ MaxTime \in Nat /\ Window \in Nat \ {0} /\ Threshold \in Nat /\ now \in 0..MaxTime
      /\ timestamps \in Seq(0..MaxTime) /\ failures \in Seq(0..MaxTime)
      /\ alerts \in Seq(0..MaxTime)
      /\ Len(timestamps) \in Nat /\ Len(failures) \in Nat /\ Len(alerts) \in Nat
      /\ \A i \in 1..Len(failures) : failures[i] \in 0..MaxTime
      /\ \A i \in 1..Len(alerts) : alerts[i] \in 0..MaxTime
      /\ lastNotification \in 0..MaxTime \cup {Never}
  BY FailureIs
<1>2. /\ failures' = Append(failures, now) /\ Len(failures') = Len(failures) + 1
      /\ failures' \in Seq(0..MaxTime) /\ timestamps' \in Seq(0..MaxTime)
      /\ NewestAre(timestamps', failures')
      /\ DroppedAre(Len(timestamps'), failures')
      /\ Len(timestamps') \in 0..Len(failures')
  BY RememberedAre
<1>3. /\ now' = now /\ UNCHANGED <<limit, counter, codes, told, samples, muted>>
      /\ \A i \in 1..Len(failures) : failures'[i] = failures[i]
      /\ failures'[Len(failures')] = now
  BY <1>1, <1>2 DEF LoginFails, alarm
<1>4. /\ \A i \in 1..Len(failures) : failures[i] <= now
      /\ \A i, j \in 1..Len(failures) : i <= j => failures[i] <= failures[j]
      /\ lastNotification = IF alerts = <<>> THEN Never ELSE alerts[Len(alerts)]
      /\ \A i \in 1..Len(alerts) : alerts[i] <= now
      /\ \A i \in 1..Len(alerts) :
           /\ Cardinality(Before(alerts[i], failures)) >= Threshold
           /\ i > 1 => alerts[i] - alerts[i - 1] >= Window
  BY DEF LoginsInv, WindowInv, AlertsInv
<1>5. \A i \in 1..Len(failures') : failures'[i] <= now
  BY <1>1, <1>2, <1>3, <1>4
<1>6. \A i, j \in 1..Len(failures') : i <= j => failures'[i] <= failures'[j]
  <2> TAKE i, j \in 1..Len(failures')
  <2>1. CASE j = Len(failures')
    BY <1>3, <1>5, <2>1
  <2>2. CASE j # Len(failures') /\ i <= j
    <3>1. i \in 1..Len(failures) /\ j \in 1..Len(failures)
      BY <1>1, <1>2, <2>2
    <3> QED BY <1>3, <1>4, <3>1
  <2> QED BY <2>1, <2>2
<1>7. Cardinality(Before(now, failures')) = Len(timestamps')
  <2>1. failures' \in Seq(Nat) /\ failures' # <<>> /\ Window \in Nat
    BY <1>1, <1>2
  <2>2. \A i \in 1..Len(failures') : failures'[i] <= failures'[Len(failures')]
    BY <1>3, <1>5
  <2>3. Cardinality(Before(failures'[Len(failures')], failures')) = Len(timestamps')
    BY <1>2, <2>1, <2>2, CountIs
  <2> QED BY <1>3, <2>3
<1>8. \A i \in 1..Len(alerts) : Cardinality(Before(alerts[i], failures')) >= Threshold
  <2> TAKE i \in 1..Len(alerts)
  <2>1. failures \in Seq(Nat) /\ now \in Nat /\ alerts[i] \in Nat
    BY <1>1
  <2>2. /\ Cardinality(Before(alerts[i], Append(failures, now)))
             >= Cardinality(Before(alerts[i], failures))
        /\ Cardinality(Before(alerts[i], failures)) \in Nat
        /\ Cardinality(Before(alerts[i], Append(failures, now))) \in Nat
    BY <2>1, MoreInWindow
  <2> QED BY <1>1, <1>2, <1>4, <2>2
<1>9. CASE Len(timestamps') >= Threshold /\ CooledDown
  <2>0. lastNotification' = now /\ alerts' = Append(alerts, now)
    BY <1>9 DEF LoginFails
  <2>1. /\ lastNotification' = now
        /\ alerts' \in Seq(0..MaxTime) /\ Len(alerts') = Len(alerts) + 1 /\ alerts' # <<>>
        /\ \A i \in 1..Len(alerts) : alerts'[i] = alerts[i]
        /\ alerts'[Len(alerts')] = now
    <3>1. alerts' \in Seq(0..MaxTime) /\ Len(alerts') = Len(alerts) + 1
      BY <1>1, <2>0
    <3>2. \A i \in 1..Len(alerts) : alerts'[i] = alerts[i]
      BY <1>1, <2>0
    <3>3. alerts'[Len(alerts')] = now
      BY <1>1, <2>0, <3>1
    <3>4. alerts' # <<>>
      BY <1>1, <3>1, EmptySeq
    <3> QED BY <2>0, <3>1, <3>2, <3>3, <3>4
  <2>2. \A i \in 1..Len(alerts') : alerts'[i] <= now
    <3> TAKE i \in 1..Len(alerts')
    <3>1. i \in 1..Len(alerts) \/ i = Len(alerts')
      BY <1>1, <2>1
    <3>2. now <= now
      BY <1>1
    <3> QED BY <1>4, <2>1, <3>1, <3>2
  <2>3. ASSUME NEW i \in 1..Len(alerts')
        PROVE  /\ Cardinality(Before(alerts'[i], failures')) >= Threshold
               /\ i > 1 => alerts'[i] - alerts'[i - 1] >= Window
    <3>1. CASE i = Len(alerts')
      <4>1. Cardinality(Before(alerts'[i], failures')) >= Threshold
        BY <1>7, <1>9, <2>1, <3>1
      <4>2. ASSUME i > 1 PROVE alerts'[i] - alerts'[i - 1] >= Window
        <5>1. /\ i - 1 = Len(alerts) /\ Len(alerts) \in 1..Len(alerts) /\ alerts # <<>>
          BY <1>1, <2>1, <3>1, <4>2
        <5>2. alerts'[i - 1] = lastNotification /\ lastNotification # Never
          BY <1>1, <1>4, <2>1, <5>1 DEF Never
        <5>3. now - lastNotification >= Window
          BY <1>9, <5>2 DEF CooledDown
        <5> QED BY <2>1, <3>1, <5>2, <5>3
      <4> QED BY <4>1, <4>2
    <3>2. CASE i \in 1..Len(alerts)
      <4>1. i > 1 => i - 1 \in 1..Len(alerts)
        BY <1>1, <3>2
      <4> QED BY <1>4, <1>8, <2>1, <3>2, <4>1
    <3> QED BY <1>1, <2>1, <3>1, <3>2
  <2>4. \E i \in 1..Len(alerts') : failures'[Len(failures')] - alerts'[i] < Window
    <3>1. Len(alerts') \in 1..Len(alerts') /\ now - now < Window
      BY <1>1, <2>1
    <3> QED BY <1>3, <2>1, <3>1
  <2>5. lastNotification' \in 0..MaxTime
    BY <1>1, <2>1
  <2>6. WindowInv'
    BY <1>2, <1>3, <1>5, <1>6 DEF WindowInv
  <2>7. AlertsInv'
    BY <1>3, <2>1, <2>2, <2>3, <2>4 DEF AlertsInv
  <2> QED BY <1>2, <1>3, <2>1, <2>5, <2>6, <2>7 DEF AlarmsTypeOK, LoginsInv
<1>10. CASE ~(Len(timestamps') >= Threshold /\ CooledDown)
  <2>1. UNCHANGED <<lastNotification, alerts>>
    BY <1>10 DEF LoginFails
  <2>2. ASSUME Len(timestamps') >= Threshold
        PROVE  \E i \in 1..Len(alerts') : failures'[Len(failures')] - alerts'[i] < Window
    <3>1. lastNotification # Never /\ ~(now - lastNotification >= Window)
      BY <1>10, <2>2 DEF CooledDown
    <3>2. alerts # <<>> /\ lastNotification = alerts[Len(alerts)] /\ lastNotification \in 0..MaxTime
      BY <1>1, <1>4, <3>1
    <3>3. Len(alerts) \in 1..Len(alerts)
      BY <1>1, <3>2, EmptySeq
    <3>4. /\ failures'[Len(failures')] = now /\ alerts' = alerts
          /\ now - alerts[Len(alerts)] < Window
      BY <1>1, <1>3, <2>1, <3>1, <3>2
    <3> QED BY <3>3, <3>4
  <2>3. WindowInv'
    BY <1>2, <1>3, <1>5, <1>6 DEF WindowInv
  <2>4. AlertsInv'
    BY <1>3, <1>4, <1>8, <2>1, <2>2 DEF AlertsInv
  <2> QED BY <1>2, <1>3, <2>1, <2>3, <2>4 DEF AlarmsTypeOK, LoginsInv
<1> QED BY <1>9, <1>10

LEMMA TimePassesStep ==
  ASSUME AlarmsTypeOK, LoginsInv, TimePasses, UNCHANGED alarm
  PROVE  AlarmsTypeOK' /\ LoginsInv'
<1>1. /\ MaxTime \in Nat /\ now \in 0..MaxTime /\ now' = now + 1 /\ now' \in 0..MaxTime
      /\ \A i \in 1..Len(failures) : failures[i] \in 0..MaxTime
      /\ \A i \in 1..Len(alerts) : alerts[i] \in 0..MaxTime
  BY FailureIs DEF TimePasses
<1>2. UNCHANGED <<limit, counter, codes, told, samples, muted, timestamps, lastNotification,
                  failures, alerts>>
  BY DEF TimePasses, alarm
<1>3. /\ \A i \in 1..Len(failures) : failures[i] <= now'
      /\ \A i \in 1..Len(alerts) : alerts[i] <= now'
  <2>1. /\ \A i \in 1..Len(failures) : failures[i] <= now
        /\ \A i \in 1..Len(alerts) : alerts[i] <= now
    BY DEF LoginsInv, WindowInv, AlertsInv
  <2> QED BY <1>1, <2>1
<1>4. WindowInv'
  BY <1>2, <1>3 DEF LoginsInv, WindowInv
<1>5. AlertsInv'
  BY <1>2, <1>3 DEF LoginsInv, AlertsInv
<1> QED BY <1>1, <1>2, <1>4, <1>5 DEF AlarmsTypeOK, LoginsInv

AlarmsInv == AlarmsTypeOK /\ AlarmInv /\ LoginsInv

LEMMA SetCodesStep ==
  ASSUME AlarmsTypeOK, AlarmInv, NEW c \in SUBSET Codes, SetCodes(c)
  PROVE  AlarmInv'
BY DEF AlarmInv, SetCodes

LEMMA AlarmStep == AlarmsInv /\ AlarmNext /\ UNCHANGED logins => AlarmsInv'
<1> SUFFICES ASSUME AlarmsInv, AlarmNext, UNCHANGED logins PROVE AlarmsInv'
  OBVIOUS
<1>1. LoginsInv'
  BY DEF AlarmsInv, LoginsInv, WindowInv, AlertsInv, logins
<1>2. ASSUME NEW s \in Samples, Sample(s) PROVE AlarmsTypeOK' /\ AlarmInv'
  <2>1. (counter \in [active : BOOLEAN, bad : 0..MaxSamples, good : 0..MaxSamples])' /\ AlarmInv'
    BY <1>2, SampleStep DEF AlarmsInv
  <2>2. samples' \in Seq(Samples) /\ Len(samples') <= MaxSamples
    BY <1>2, AlarmsAssumption DEF AlarmsInv, AlarmsTypeOK, Sample
  <2>3. told' \in Codes \cup {"nothing"}
    BY <1>2 DEF AlarmsInv, AlarmsTypeOK, Sample
  <2> QED BY <1>2, <2>1, <2>2, <2>3 DEF AlarmsInv, AlarmsTypeOK, Sample, logins
<1>3. ASSUME NEW c \in SUBSET Codes, SetCodes(c) PROVE AlarmsTypeOK' /\ AlarmInv'
  BY <1>3, SetCodesStep DEF AlarmsInv, AlarmsTypeOK, SetCodes, logins
<1> QED BY <1>1, <1>2, <1>3 DEF AlarmNext, AlarmsInv

LEMMA LoginsStep == AlarmsInv /\ LoginsNext /\ UNCHANGED alarm => AlarmsInv'
<1> SUFFICES ASSUME AlarmsInv, LoginsNext, UNCHANGED alarm PROVE AlarmsInv'
  OBVIOUS
<1>1. AlarmsTypeOK' /\ LoginsInv'
  BY LoginFailsStep, TimePassesStep DEF AlarmsInv, LoginsNext
<1>2. AlarmInv'
  BY DEF AlarmsInv, AlarmInv, alarm
<1> QED BY <1>1, <1>2 DEF AlarmsInv

LEMMA AlarmsAtInit == Init => AlarmsInv
<1> SUFFICES ASSUME AlarmsInit PROVE AlarmsInv
  BY DEF Init
<1>1. /\ limit \in Limits /\ limit \in (Nat \ {0}) \X (Nat \ {0})
      /\ {MaxSamples, Threshold, MaxFailures, MaxTime} \subseteq Nat
  BY AlarmsAssumption DEF AlarmsInit
<1>2. /\ samples = <<>> /\ counter = NoAlarm /\ counter.active = FALSE
      /\ counter.bad = 0 /\ counter.good = 0
      /\ counter \in [active : BOOLEAN, bad : 0..MaxSamples, good : 0..MaxSamples]
      /\ told = "nothing" /\ (muted <=> codes # Codes) /\ muted \in BOOLEAN
  <2>1. counter = [active |-> FALSE, bad |-> 0, good |-> 0]
    BY DEF AlarmsInit, NoAlarm
  <2>2. muted = (codes # Codes)
    BY DEF AlarmsInit
  <2>3. muted \in BOOLEAN /\ (muted <=> codes # Codes)
    BY <2>2, Zenon
  <2> QED BY <1>1, <2>1, <2>3 DEF AlarmsInit
<1>3. AlarmInv
  BY <1>1, <1>2 DEF AlarmInv, RunOf, AllOf, OnOf
<1>4. /\ now = 0 /\ timestamps = <<>> /\ failures = <<>> /\ alerts = <<>>
      /\ lastNotification = Never
  BY DEF AlarmsInit
<1>5. LoginsInv
  BY <1>4 DEF LoginsInv, WindowInv, AlertsInv, NewestAre
<1>6. AlarmsTypeOK
  BY <1>1, <1>2, <1>4 DEF AlarmsTypeOK, AlarmsInit, Codes
<1> QED BY <1>3, <1>5, <1>6 DEF AlarmsInv

LEMMA AlarmsRest == AlarmsInv /\ UNCHANGED watch => AlarmsInv'
BY DEF AlarmsInv, AlarmsTypeOK, AlarmInv, LoginsInv, WindowInv, AlertsInv, watch, alarm, logins

LEMMA AlarmsOfMaintenance == AlarmsInv /\ [Next]_vars => AlarmsInv'
BY AlarmStep, LoginsStep, AlarmsRest DEF Next, vars

(* An alarm is on exactly when enough bad samples in a row were followed by *)
(* no run of good ones, though the counters forget all but the last run;    *)
(* the user was told so.  Each alert on failed logins has enough failures   *)
(* in its window, alerts are a window apart, and the threshold is not       *)
(* passed without one, though the list forgets what is out of the window.   *)
THEOREM AlarmsAreExact == Spec => []AlarmsExact
<1>1. ASSUME AlarmsInv PROVE AlarmsExact
  <2>1. OnByDefinition = OnOf(samples, limit)
    BY DEF OnByDefinition, OnOf, AllAre, AllOf
  <2>2. counter.active \in BOOLEAN /\ muted \in BOOLEAN
    BY <1>1 DEF AlarmsInv, AlarmsTypeOK
  <2>3. counter.active = OnByDefinition /\ (~muted => (told = "triggered") = counter.active)
    BY <1>1, <2>1, <2>2 DEF AlarmsInv, AlarmInv, OnOf
  <2>4. \A t : InWindow(t) = Cardinality(Before(t, failures))
    BY DEF InWindow, Before
  <2>5. \A i \in 1..Len(alerts) :
          /\ InWindow(alerts[i]) >= Threshold
          /\ i > 1 => alerts[i] - alerts[i - 1] >= Window
    BY <1>1, <2>4 DEF AlarmsInv, LoginsInv, AlertsInv
  <2>6. ASSUME failures # <<>>, InWindow(failures[Len(failures)]) >= Threshold
        PROVE  \E i \in 1..Len(alerts) : failures[Len(failures)] - alerts[i] < Window
    <3>1. failures \in Seq(Nat) /\ Window \in Nat /\ Len(failures) \in 1..Len(failures)
      BY <1>1, <2>6, FailureIs, EmptySeq DEF AlarmsInv
    <3>2. \A i \in 1..Len(failures) : failures[i] <= failures[Len(failures)]
      BY <1>1, <3>1 DEF AlarmsInv, LoginsInv, WindowInv
    <3>3. Len(timestamps) \in 0..Len(failures) /\ DroppedAre(Len(timestamps), failures)
      BY <1>1, <2>6, FailureIs DEF AlarmsInv, LoginsInv, WindowInv, NewestAre
    <3>4. InWindow(failures[Len(failures)]) = Len(timestamps)
      BY <2>4, <2>6, <3>1, <3>2, <3>3, CountIs
    <3> QED BY <1>1, <2>6, <3>4 DEF AlarmsInv, LoginsInv, AlertsInv
  <2> QED BY <2>3, <2>5, <2>6 DEF AlarmsExact
<1>2. AlarmsInv => AlarmsExact
  BY <1>1
<1> QED BY <1>2, AlarmsAtInit, AlarmsOfMaintenance, PTL DEF Spec

-----------------------------------------------------------------------------
(* The types of the parts.  What the invariants above leave open of the     *)
(* eSIM: one profile is enabled, and a request ends its tries in time.      *)
CardInv ==
  /\ card \in [Profiles -> {"absent", "disabled", "enabled"}]
  /\ \A p, q \in Enabled : p = q
  /\ late \subseteq {"enable", "install"} \X Profiles
  /\ calls \in 0..MaxCalls

TriesOK(r) ==
  /\ r.before = NoSnapshot \/ r.before \subseteq Numbers
  /\ r.tries \in 0..MaxTries
  /\ r.at \in Unready \cup {"check"} => r.tries = 0
  /\ r.at = "work" => r.tries < MaxTries

TriesInv == \A j \in Jobs : TriesOK(job[j])

CardMoves == card' = card \/ \E p \in Profiles, by \in Jobs \cup {Nobody} :
                               Switch(p, by) \/ Installs(p, by) \/ DeleteProfile(p)

CardEffects ==
  /\ CardMoves
  /\ late' \subseteq late \cup ({"enable", "install"} \X Profiles)
  /\ calls' = calls \/ Charge

LEMMA CardChanges == ASSUME CardInv, CardEffects PROVE CardInv'
<1>1. MaxCalls \in Nat
  BY EsimAssumption
<1>2. late' \subseteq {"enable", "install"} \X Profiles /\ calls' \in 0..MaxCalls
  BY <1>1 DEF CardInv, CardEffects, Charge
<1>3. CASE card' = card
  BY <1>2, <1>3 DEF CardInv, Enabled
<1>4. ASSUME NEW p \in Profiles, NEW by, Switch(p, by) PROVE CardInv'
  <2>1. /\ card' \in [Profiles -> {"absent", "disabled", "enabled"}]
        /\ \A q \in Profiles : card'[q] = "enabled" => q = p
    BY <1>4 DEF Switch, CardInv
  <2> QED BY <1>2, <2>1 DEF CardInv, Enabled
<1>5. ASSUME NEW p \in Profiles, card' = [card EXCEPT ![p] = "disabled"]
                                 \/ card' = [card EXCEPT ![p] = "absent"]
      PROVE  CardInv'
  <2>1. /\ card' \in [Profiles -> {"absent", "disabled", "enabled"}]
        /\ \A q \in Profiles : card'[q] = "enabled" => card[q] = "enabled"
    BY <1>5 DEF CardInv
  <2> QED BY <1>2, <2>1 DEF CardInv, Enabled
<1> QED BY <1>3, <1>4, <1>5 DEF CardEffects, CardMoves, Installs, DeleteProfile

LEMMA CardStep == EsimInv /\ CardInv /\ EsimNext => CardInv'
<1> SUFFICES ASSUME EsimInv, CardInv, EsimNext PROVE CardEffects
  BY CardChanges
<1>0. \A j \in Jobs : job[j].at \in {"work", "check", "look"} /\ job[j].kind = "enable" =>
                        job[j].profile \in Profiles
  BY DEF EsimInv, EsimJobOK, Working
<1>1. ASSUME NEW p \in Profiles, LateEffect(p) PROVE CardEffects
  BY <1>1 DEF CardEffects, CardMoves, LateEffect
<1>2. ASSUME NEW p \in Profiles, DeleteProfile(p) PROVE CardEffects
  BY <1>2 DEF CardEffects, CardMoves, DeleteProfile
<1>3. ASSUME NEW j \in Jobs, EnableSucceeds(j) PROVE CardEffects
  BY <1>0, <1>3 DEF CardEffects, CardMoves, EnableSucceeds, Is
<1>4. ASSUME NEW j \in Jobs, EnableFails(j) PROVE CardEffects
  <2>1. job[j].profile \in Profiles /\ Charge
    BY <1>0, <1>4 DEF EnableFails, Is
  <2>2. \/ UNCHANGED <<card, late>>
        \/ Switch(job[j].profile, j) /\ late' = late
        \/ card' = card /\ late' = late \cup {<<"enable", job[j].profile>>}
    BY <1>4 DEF EnableFails
  <2> QED BY <2>1, <2>2 DEF CardEffects, CardMoves
<1>5. ASSUME NEW j \in Jobs, DownloadSucceeds(j) PROVE CardEffects
  BY <1>5 DEF CardEffects, CardMoves, DownloadSucceeds
<1>6. ASSUME NEW j \in Jobs, DownloadFails(j) PROVE CardEffects
  BY <1>6 DEF CardEffects, CardMoves, DownloadFails
<1>7. ASSUME NEW j \in Jobs,
             \/ \E p \in Profiles : AskEnable(j, p)
             \/ AskDownload(j) \/ TakeProfiles(j) \/ TakeBefore(j) \/ Check(j) \/ Look(j)
             \/ Scan(j) \/ DownloadDropped(j) \/ Deliver(j)
             \/ Process(j) \/ ProcessFails(j) \/ RemoveNote(j) \/ RemoveFails(j)
      PROVE  CardEffects
  <2>1. UNCHANGED <<card, late>> /\ (calls' = calls \/ Charge)
    BY <1>7 DEF AskEnable, AskDownload, TakeProfiles, TakeBefore, Check, Look, Scan,
                DownloadDropped, Deliver, Process, ProcessFails, RemoveNote, RemoveFails
  <2> QED BY <2>1 DEF CardEffects, CardMoves
<1>8. CASE EsimStops
  BY <1>8 DEF CardEffects, CardMoves, EsimStops
<1> QED BY <1>1, <1>2, <1>3, <1>4, <1>5, <1>6, <1>7, <1>8 DEF EsimNext

(* One request moves.                                                       *)
LEMMA TriesMove ==
  ASSUME EsimInv, TriesInv, NEW j \in Jobs, NEW new, job' = [job EXCEPT ![j] = new], TriesOK(new)
  PROVE  TriesInv'
<1>1. \A k \in Jobs : job'[k] = IF k = j THEN new ELSE job[k]
  BY DEF EsimInv
<1> QED BY <1>1 DEF TriesInv

LEMMA StartsAre ==
  /\ TriesOK(Waiting) /\ Waiting.tries = 0 /\ Waiting.before = {}
  /\ TriesOK(Gone)
BY EsimAssumption DEF Waiting, Gone, TriesOK, Unready

LEMMA JobIs ==
  ASSUME EsimInv, TriesInv, NEW j \in Jobs
  PROVE  job[j] \in EsimJob /\ TriesOK(job[j]) /\ MaxTries \in Nat \ {0}
BY EsimAssumption DEF EsimInv, TriesInv

(* A request whose tries do not change goes on to a step that asks nothing  *)
(* of them, or ends.                                                        *)
LEMMA TriesEnd ==
  ASSUME EsimInv, TriesInv, NEW j \in Jobs, NEW failed, Ends(j, failed)
  PROVE  TriesInv'
<1> DEFINE new == [Waiting EXCEPT !.at = "done", !.kind = job[j].kind,
                                  !.profile = job[j].profile, !.failed = failed]
<1>1. TriesOK(new)
  BY StartsAre, EsimAssumption DEF TriesOK, Unready, Waiting
<1>2. job' = [job EXCEPT ![j] = new]
  BY DEF Ends
<1> HIDE DEF new
<1> QED BY <1>1, <1>2, TriesMove

LEMMA TriesStay ==
  ASSUME EsimInv, TriesInv, NEW j \in Jobs, NEW new, job' = [job EXCEPT ![j] = new],
         new.tries = job[j].tries, new.before = job[j].before,
         new.at \notin Unready \cup {"check", "work"}
  PROVE  TriesInv'
<1>1. TriesOK(new)
  BY JobIs DEF TriesOK
<1> QED BY <1>1, TriesMove

LEMMA TriesStepsTo ==
  ASSUME EsimInv, TriesInv, NEW j \in Jobs, NEW step, StepsTo(j, step),
         \/ step \notin Unready \cup {"check", "work"}
         \/ step = "work" /\ job[j].tries < MaxTries
  PROVE  TriesInv'
<1> DEFINE new == [job[j] EXCEPT !.at = step]
<1>1. /\ new.tries = job[j].tries /\ new.before = job[j].before /\ new.at = step
      /\ job' = [job EXCEPT ![j] = new]
  BY JobIs DEF StepsTo, EsimJob
<1> HIDE DEF new
<1>2. TriesOK(new)
  BY <1>1, JobIs DEF TriesOK, Unready
<1> QED BY <1>1, <1>2, TriesMove

LEMMA TriesAfter ==
  ASSUME EsimInv, TriesInv, NEW j \in Jobs, NEW failed, After(j, failed)
  PROVE  TriesInv'
<1> DEFINE rest == job[j].rest \ {Current(j)}
           new == [job[j] EXCEPT !.at = "process", !.rest = rest, !.failed = @ \/ failed]
<1>1. CASE rest = {}
  BY <1>1, TriesEnd DEF After
<1>2. CASE rest # {}
  <2>1. /\ new.tries = job[j].tries /\ new.before = job[j].before /\ new.at = "process"
        /\ job' = [job EXCEPT ![j] = new]
    BY <1>2, JobIs DEF After, EsimJob
  <2> HIDE DEF new, rest
  <2> QED BY <2>1, TriesStay DEF Unready
<1> QED BY <1>1, <1>2

LEMMA TriesGiveUp ==
  ASSUME EsimInv, TriesInv, NEW j \in Jobs, GivesUp(j)
  PROVE  TriesInv'
BY StartsAre, TriesMove DEF GivesUp

LEMMA TriesAsk ==
  ASSUME EsimInv, TriesInv, NEW j \in Jobs,
         (\E p \in Profiles : AskEnable(j, p)) \/ AskDownload(j)
  PROVE  TriesInv'
<1>1. ASSUME NEW p \in Profiles, AskEnable(j, p) PROVE TriesInv'
  <2> DEFINE new == [Waiting EXCEPT !.at = "previous", !.kind = "enable", !.profile = p]
  <2>1. TriesOK(new)
    BY StartsAre, EsimAssumption DEF TriesOK, Unready, Waiting
  <2>2. job' = [job EXCEPT ![j] = new]
    BY <1>1 DEF AskEnable
  <2> HIDE DEF new
  <2> QED BY <2>1, <2>2, TriesMove
<1>2. CASE AskDownload(j)
  <2> DEFINE new == [Waiting EXCEPT !.at = "previous", !.kind = "download"]
  <2>1. TriesOK(new)
    BY StartsAre, EsimAssumption DEF TriesOK, Unready, Waiting
  <2>2. job' = [job EXCEPT ![j] = new]
    BY <1>2 DEF AskDownload
  <2> HIDE DEF new
  <2> QED BY <2>1, <2>2, TriesMove
<1> QED BY <1>1, <1>2

LEMMA TriesTake ==
  ASSUME EsimInv, TriesInv, NEW j \in Jobs, TakeProfiles(j) \/ TakeBefore(j)
  PROVE  TriesInv'
<1>0. /\ job[j] \in EsimJob /\ TriesOK(job[j]) /\ MaxTries \in Nat \ {0}
      /\ job[j].at \in Unready /\ job[j].tries = 0
  BY JobIs DEF TakeProfiles, TakeBefore, Is, TriesOK, Unready
<1>1. PICK new : /\ job' = [job EXCEPT ![j] = new]
                 /\ new.tries = job[j].tries
                 /\ \/ new.before \in {job[j].before, NoSnapshot}
                    \/ new.before = {n.seq : n \in notes}
  <2>1. CASE TakeProfiles(j)
    <3> DEFINE one == [job[j] EXCEPT !.at = "before", !.previous = Enabled, !.present = Present]
               two == [job[j] EXCEPT !.at = "before", !.present = Profiles]
    <3>1. /\ one.tries = job[j].tries /\ one.before = job[j].before
          /\ two.tries = job[j].tries /\ two.before = job[j].before
      BY <1>0 DEF EsimJob
    <3>2. job' = [job EXCEPT ![j] = one] \/ job' = [job EXCEPT ![j] = two]
      BY <2>1 DEF TakeProfiles
    <3> HIDE DEF one, two
    <3> QED BY <3>1, <3>2
  <2>2. CASE TakeBefore(j)
    <3> DEFINE one == [job[j] EXCEPT !.at = Begins(job[j].kind), !.before = {n.seq : n \in notes}]
               two == [job[j] EXCEPT !.at = Begins(job[j].kind), !.before = NoSnapshot]
    <3>1. /\ one.tries = job[j].tries /\ one.before = {n.seq : n \in notes}
          /\ two.tries = job[j].tries /\ two.before = NoSnapshot
      BY <1>0 DEF EsimJob
    <3>2. job' = [job EXCEPT ![j] = one] \/ job' = [job EXCEPT ![j] = two]
      BY <2>2 DEF TakeBefore
    <3> HIDE DEF one, two
    <3> QED BY <3>1, <3>2
  <2> QED BY <2>1, <2>2
<1>2. {n.seq : n \in notes} \subseteq Numbers
  BY DEF EsimInv, NotesOK, Notes
<1>3. TriesOK(new)
  BY <1>0, <1>1, <1>2 DEF TriesOK
<1> QED BY <1>1, <1>3, TriesMove

LEMMA TriesWork ==
  ASSUME EsimInv, TriesInv, NEW j \in Jobs,
         Check(j) \/ EnableSucceeds(j) \/ EnableFails(j) \/ Look(j)
  PROVE  TriesInv'
<1>0. job[j] \in EsimJob /\ TriesOK(job[j]) /\ MaxTries \in Nat \ {0}
  BY JobIs
<1>1. CASE Check(j)
  <2>1. job[j].tries < MaxTries
    BY <1>0, <1>1 DEF Check, Is, TriesOK
  <2> QED BY <1>1, <2>1, TriesGiveUp, TriesStepsTo DEF Check
<1>2. CASE EnableSucceeds(j)
  BY <1>2, TriesStepsTo DEF EnableSucceeds, Unready
<1>3. CASE EnableFails(j)
  <2>1. PICK retryable \in BOOLEAN :
          IF retryable \/ job[j].tries > 0
          THEN job' = [job EXCEPT ![j].at = "look",
                                  ![j].tries = IF retryable THEN @ + 1 ELSE MaxTries]
          ELSE GivesUp(j)
    BY <1>3 DEF EnableFails
  <2>2. CASE ~(retryable \/ job[j].tries > 0)
    BY <2>1, <2>2, TriesGiveUp
  <2>3. CASE retryable \/ job[j].tries > 0
    <3> DEFINE new == [job[j] EXCEPT !.at = "look",
                                     !.tries = IF retryable THEN @ + 1 ELSE MaxTries]
    <3>1. /\ new.at = "look" /\ new.before = job[j].before
          /\ new.tries = IF retryable THEN job[j].tries + 1 ELSE MaxTries
          /\ job' = [job EXCEPT ![j] = new]
      BY <1>0, <2>1, <2>3 DEF EsimJob
    <3> HIDE DEF new
    <3>2. job[j].at = "work"
      BY <1>3 DEF EnableFails, Is
    <3>3. new.tries \in 0..MaxTries
      BY <1>0, <3>1, <3>2 DEF TriesOK
    <3>4. TriesOK(new)
      BY <1>0, <3>1, <3>3 DEF TriesOK, Unready
    <3> QED BY <3>1, <3>4, TriesMove
  <2> QED BY <2>2, <2>3
<1>4. CASE Look(j)
  BY <1>4, TriesGiveUp, TriesStepsTo DEF Look, Unready
<1> QED BY <1>1, <1>2, <1>3, <1>4

LEMMA TriesDownload ==
  ASSUME EsimInv, TriesInv, NEW j \in Jobs,
         DownloadSucceeds(j) \/ Scan(j) \/ DownloadFails(j) \/ DownloadDropped(j)
  PROVE  TriesInv'
<1>1. ASSUME NEW p, job' = [job EXCEPT ![j].at = "deliver", ![j].profile = p] PROVE TriesInv'
  <2> DEFINE new == [job[j] EXCEPT !.at = "deliver", !.profile = p]
  <2>1. /\ new.at = "deliver" /\ new.before = job[j].before /\ new.tries = job[j].tries
        /\ job' = [job EXCEPT ![j] = new]
    BY <1>1, JobIs DEF EsimJob
  <2> HIDE DEF new
  <2> QED BY <2>1, TriesStay DEF Unready
<1>2. CASE DownloadSucceeds(j)
  <2>1. CASE StepsTo(j, "scan")
    BY <2>1, TriesStepsTo DEF Unready
  <2> QED BY <1>1, <1>2, <2>1 DEF DownloadSucceeds
<1>3. CASE Scan(j)
  BY <1>1, <1>3 DEF Scan
<1>4. CASE DownloadFails(j) \/ DownloadDropped(j)
  BY <1>4, TriesGiveUp DEF DownloadFails, DownloadDropped
<1> QED BY <1>2, <1>3, <1>4

LEMMA TriesDeliver ==
  ASSUME EsimInv, TriesInv, NEW j \in Jobs,
         Deliver(j) \/ Process(j) \/ ProcessFails(j) \/ RemoveNote(j) \/ RemoveFails(j)
  PROVE  TriesInv'
<1>1. CASE Deliver(j)
  <2> DEFINE new == [Waiting EXCEPT !.at = "process", !.kind = job[j].kind,
                                    !.profile = job[j].profile,
                                    !.rest = Selected(j), !.failed = ~Expected(j)]
  <2>1. CASE job' = [job EXCEPT ![j] = new]
    <3>1. TriesOK(new)
      BY StartsAre, EsimAssumption DEF TriesOK, Unready, Waiting
    <3> HIDE DEF new
    <3> QED BY <2>1, <3>1, TriesMove
  <2> QED BY <1>1, <2>1, TriesEnd DEF Deliver
<1>2. CASE Process(j)
  BY <1>2, TriesStepsTo DEF Process, Unready
<1>3. CASE ProcessFails(j) \/ RemoveNote(j) \/ RemoveFails(j)
  BY <1>3, TriesAfter DEF ProcessFails, RemoveNote, RemoveFails
<1> QED BY <1>1, <1>2, <1>3

LEMMA TriesStep == EsimInv /\ TriesInv /\ EsimNext => TriesInv'
<1> SUFFICES ASSUME EsimInv, TriesInv, EsimNext PROVE TriesInv'
  OBVIOUS
<1>1. CASE \E p \in Profiles : LateEffect(p) \/ DeleteProfile(p)
  BY <1>1 DEF LateEffect, DeleteProfile, TriesInv
<1>2. CASE EsimStops
  <2>1. \A j \in Jobs : job'[j] = job[j] \/ job'[j] = Gone
    BY <1>2 DEF EsimStops
  <2> QED BY <2>1, StartsAre DEF TriesInv
<1> QED BY <1>1, <1>2, TriesAsk, TriesTake, TriesWork, TriesDownload, TriesDeliver DEF EsimNext

PartTypes == EsimInv /\ CardInv /\ TriesInv

LEMMA PartTypesAtInit == Init => PartTypes
<1> SUFFICES ASSUME Init PROVE CardInv /\ TriesInv
  BY EsimAtInit DEF PartTypes
<1>1. CardInv
  BY EsimAssumption DEF Init, EsimInit, CardInv
<1>2. TriesInv
  BY StartsAre DEF Init, EsimInit, TriesInv
<1> QED BY <1>1, <1>2

LEMMA PartTypesStep == PartTypes /\ [Next]_vars => PartTypes'
<1> SUFFICES ASSUME PartTypes, [Next]_vars PROVE PartTypes'
  OBVIOUS
<1>1. EsimInv'
  BY EsimOfMaintenance DEF PartTypes
<1>2. CASE EsimNext
  BY <1>1, <1>2, CardStep, TriesStep DEF PartTypes
<1>3. CASE UNCHANGED esim
  BY <1>1, <1>3 DEF PartTypes, CardInv, Enabled, TriesInv, esim
<1> QED BY <1>2, <1>3 DEF Next, vars

AreaOK == area \in {"files", "lpac", "esim", "alarms", "logins"}

(* Every reachable state is well typed in all five parts.                   *)
THEOREM PartsKeepTheirTypes == Spec => []TypeOK
<1>1. ASSUME PartTypes PROVE EsimTypeOK
  <2>1. /\ notes \subseteq Notes /\ carrier \subseteq Notes
        /\ \A w \in written : w.note \in Notes /\ w.by \in Jobs \cup {Earlier, Nobody}
    BY <1>1 DEF PartTypes, EsimInv, NotesOK
  <2>2. ASSUME NEW j \in Jobs PROVE job[j] \in EsimJob /\ TriesOK(job[j])
    BY <1>1, JobIs DEF PartTypes
  <2> QED BY <1>1, <2>1, <2>2 DEF PartTypes, CardInv, EsimTypeOK, EsimJob, TriesOK
<1>2. LpacInv /\ OtaInv /\ BackupInv /\ PartTypes /\ AlarmsInv /\ AreaOK => TypeOK
  BY <1>1 DEF TypeOK, LpacInv, OtaInv, BackupInv, AlarmsInv, AreaOK
<1>3. Init => AreaOK
  BY DEF Init, AreaOK
<1>4. AreaOK /\ [Next]_vars => AreaOK'
  BY DEF Next, vars, AreaOK
<1> QED BY <1>2, <1>3, <1>4, LpacAtInit, LpacOfMaintenance, OtaAtInit, OtaOfMaintenance,
           BackupAtInit, BackupOfMaintenance, PartTypesAtInit, PartTypesStep,
           AlarmsAtInit, AlarmsOfMaintenance, PTL DEF Spec
=============================================================================
