------------------------------ MODULE LpacTree ------------------------------
(***************************************************************************)
(* The repair of lpac, the program that talks to the eSIM: candidates are  *)
(* downloaded one after the other, unpacked beside the installed tree and  *)
(* moved into its place, until one answers a probe.  lpac_lock admits one  *)
(* repair and no command meanwhile.  A repair runs inside its request: if  *)
(* the client goes away, it stops at an await.                             *)
(***************************************************************************)
EXTENDS Naturals

CONSTANTS
  MaxCandidates,  \* assets a repair may try
  MaxRepairs      \* bound on repairs, failing steps, probes that time out, stops

ASSUME LpacAssumption == MaxCandidates \in Nat \ {0} /\ MaxRepairs \in Nat

VARIABLES
  tree,      \* what is in PRIVATE_LPAC_DIR
  olds,      \* what stays in .lpac-old-* directories nobody returns to
  repair,    \* the running repair
  reported,  \* what the last repair answered
  proven,    \* history: a usable tree was installed, or was there at the start
  repairs

lpac == <<tree, olds, repair, reported, proven, repairs>>

-----------------------------------------------------------------------------
Missing == "missing"
Built   == {"usable", "unusable"}
Trees   == Built \cup {Missing}

\* saved is the tree this repair renamed to .lpac-old-<stamp>, fresh the one
\* in .lpac-new-<stamp>; left counts the candidates.
Resting == [at |-> "idle", left |-> 0, fresh |-> Missing, saved |-> Missing]

LpacTypeOK ==
  /\ tree \in Trees
  /\ olds \subseteq Built
  /\ repair \in [at : {"idle", "download", "unpack", "backup", "place", "probe", "verify"},
                 left : 0..MaxCandidates, fresh : Trees, saved : Trees]
  /\ reported \in {"nothing", "installed", "failed"}
  /\ proven \in BOOLEAN
  /\ repairs \in 0..MaxRepairs

LpacInit ==
  /\ tree \in Trees
  /\ olds = {}
  /\ repair = Resting
  /\ reported = "nothing"
  /\ proven = (tree = "usable")
  /\ repairs = 0

Spend == repairs < MaxRepairs /\ repairs' = repairs + 1

At(step) == repair.at = step

Abandoned == olds \cup ({repair.saved} \ {Missing})

-----------------------------------------------------------------------------
(* repair_lpac *)

RepairBegins(n) ==
  /\ At("idle")
  /\ Spend
  /\ repair' = [Resting EXCEPT !.at = "download", !.left = n]
  /\ reported' = "nothing"
  /\ UNCHANGED <<tree, olds, proven>>

\* An error of a candidate: install_lpac_asset removes the new directory, and
\* the next candidate is tried.
NextCandidate ==
  IF repair.left > 1
  THEN /\ repair' = [Resting EXCEPT !.at = "download", !.left = repair.left - 1]
       /\ UNCHANGED reported
  ELSE repair' = Resting /\ reported' = "failed"

CandidateFails ==
  /\ repair.at \in {"download", "unpack"}
  /\ NextCandidate
  /\ UNCHANGED <<tree, olds, proven, repairs>>

Downloaded ==
  /\ At("download")
  /\ repair' = [repair EXCEPT !.at = "unpack"]
  /\ UNCHANGED <<tree, olds, reported, proven, repairs>>

Unpacked(k) ==
  /\ At("unpack")
  /\ repair' = [repair EXCEPT !.at = "backup", !.fresh = k]
  /\ UNCHANGED <<tree, olds, reported, proven, repairs>>

-----------------------------------------------------------------------------
(* activate_lpac_tree *)

\* Mutant: the installed tree is removed instead of renamed.
BackUpRemoves ==
  /\ At("backup")
  /\ tree' = Missing
  /\ repair' = [repair EXCEPT !.at = "place"]
  /\ UNCHANGED <<olds, reported, proven, repairs>>

BackUp ==
  /\ At("backup")
  /\ tree' = Missing
  /\ repair' = [repair EXCEPT !.at = "place", !.saved = tree]
  /\ UNCHANGED <<olds, reported, proven, repairs>>

BackUpFails ==
  /\ At("backup") /\ tree # Missing
  /\ Spend
  /\ NextCandidate
  /\ UNCHANGED <<tree, olds, proven>>

Place ==
  /\ At("place")
  /\ tree' = repair.fresh
  /\ repair' = [repair EXCEPT !.at = "probe", !.fresh = Missing]
  /\ UNCHANGED <<olds, reported, proven, repairs>>

PlaceFails ==
  /\ At("place")
  /\ Spend
  /\ tree' = repair.saved
  /\ NextCandidate
  /\ UNCHANGED <<olds, proven>>

\* The removal of the old tree may fail unnoticed.
ProbeSucceeds ==
  /\ At("probe") /\ tree = "usable"
  /\ proven' = TRUE
  /\ repair' = [repair EXCEPT !.at = "verify", !.saved = Missing]
  /\ olds' \in {olds, Abandoned}
  /\ UNCHANGED <<tree, reported, repairs>>

\* The probe fails, for a usable tree by its timeout: the tree is removed and
\* the old one moved back.
ProbeFails ==
  /\ At("probe")
  /\ IF tree = "usable" THEN Spend ELSE UNCHANGED repairs
  /\ tree' = repair.saved
  /\ NextCandidate
  /\ UNCHANGED <<olds, proven>>

\* The same, or a failed Place, with the removal or the move back failing too:
\* the result of both is ignored.
MoveBackFails ==
  /\ \/ At("probe")
     \/ At("place") /\ repair.saved # Missing
  /\ Spend
  /\ tree' \in IF At("probe") THEN {Missing, "unusable", tree} ELSE {Missing}
  /\ olds' = Abandoned
  /\ NextCandidate
  /\ UNCHANGED proven

-----------------------------------------------------------------------------
(* The second probe, in repair_lpac *)

Verified ==
  /\ At("verify")
  /\ repair' = Resting
  /\ reported' = "installed"
  /\ UNCHANGED <<tree, olds, proven, repairs>>

VerifyTimesOut ==
  /\ At("verify")
  /\ Spend
  /\ NextCandidate
  /\ UNCHANGED <<tree, olds, proven>>

\* The client of the request goes away while the repair awaits a download, the
\* unpacking, chmod or a probe.
RepairDropped ==
  /\ repair.at \in {"download", "unpack", "backup", "probe", "verify"}
  /\ Spend
  /\ olds' = Abandoned
  /\ repair' = Resting
  /\ UNCHANGED <<tree, reported, proven>>

\* The process stops, at any step.
LpacStops ==
  /\ ~At("idle")
  /\ Spend
  /\ olds' = Abandoned
  /\ repair' = Resting
  /\ UNCHANGED <<tree, reported, proven>>

LpacNext ==
  \/ \E n \in 1..MaxCandidates : RepairBegins(n)
  \/ CandidateFails \/ Downloaded
  \/ \E k \in Built : Unpacked(k)
  \/ BackUp \/ BackUpFails \/ Place \/ PlaceFails
  \/ ProbeSucceeds \/ ProbeFails \/ MoveBackFails
  \/ Verified \/ VerifyTimesOut
  \/ RepairDropped \/ LpacStops

-----------------------------------------------------------------------------
\* A usable lpac is not lost: once one was installed, one is in place or, after
\* a stop or a failing rename, in a directory it was moved to; and a repair
\* that answers "installed and verified" leaves a usable one in place.
\* (activate_lpac_tree, repair_lpac)
TreeNotLost ==
  /\ proven => "usable" \in {tree, repair.saved} \cup olds
  /\ reported = "installed" /\ At("idle") => tree = "usable"
=============================================================================
