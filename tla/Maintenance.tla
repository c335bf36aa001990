---------------------------- MODULE Maintenance ----------------------------
(***************************************************************************)
(* The parts of the service that work beside messages and automation:      *)
(* updates and restorations, which a restart ends together, the repair of  *)
(* lpac, the eSIM's profiles, and the monitor's alarms.  They share no     *)
(* state, so that a behaviour is of one of them: area says of which.       *)
(***************************************************************************)
EXTENDS ConfigBackup, OtaUpdate, LpacTree, EsimProfiles, Alarms

CONSTANT MaxEvents  \* bound on what updates and restorations count together

ASSUME EventsAssumption == MaxEvents \in Nat

VARIABLE area

\* A part that rests is as one of its own behaviours begins.
TypeOK ==
  /\ area \in {"files", "lpac", "esim", "alarms", "logins"}
  /\ area = "files" => BackupTypeOK /\ OtaTypeOK
  /\ area = "lpac"  => LpacTypeOK
  /\ area = "esim"  => EsimTypeOK
  /\ area \in {"alarms", "logins"} => AlarmsTypeOK

\* What the other parts start with makes no difference.
Init ==
  /\ BackupInit /\ OtaInit /\ LpacInit /\ EsimInit /\ AlarmsInit
  /\ area \in {"files", "lpac", "esim", "alarms", "logins"}
  /\ area # "lpac" => tree = "usable"
  /\ area # "esim" => notes = {} /\ Present = {}
  /\ area # "alarms" => limit = AnyLimit /\ codes = Codes

\* restart_service_no_block, one second after the update
RestartByUpdate == apply = "restart" /\ BackupStops /\ OtaStops /\ UNCHANGED <<counted, updates>>

RestartOtherwise == Count /\ BackupStops /\ OtaStops /\ UNCHANGED updates

Files ==
  /\ \/ BackupNext /\ UNCHANGED ota
     \/ OtaNext /\ UNCHANGED backup
     \/ RestartByUpdate
     \/ RestartOtherwise
  /\ (counted + updates)' <= MaxEvents

Next ==
  /\ UNCHANGED area
  /\ \/ area = "files"  /\ Files      /\ UNCHANGED <<lpac, esim, watch>>
     \/ area = "lpac"   /\ LpacNext   /\ UNCHANGED <<backup, ota, esim, watch>>
     \/ area = "esim"   /\ EsimNext   /\ UNCHANGED <<backup, ota, lpac, watch>>
     \/ area = "alarms" /\ AlarmNext  /\ UNCHANGED <<backup, ota, lpac, esim, logins>>
     \/ area = "logins" /\ LoginsNext /\ UNCHANGED <<backup, ota, lpac, esim, alarm>>

vars == <<area, backup, ota, lpac, esim, watch>>

Spec == Init /\ [][Next]_vars
=============================================================================
