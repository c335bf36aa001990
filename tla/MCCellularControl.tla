------------------------- MODULE MCCellularControl -------------------------
(* Instances of CellularControl for TLC. *)
EXTENDS CellularControl, TLC

CONSTANTS r1, r2

OneRequest == {r1}
TwoRequests == {r1, r2}
Symmetry == Permutations(Requests)

UserSwitches == {"dataOn", "dataOff"}
RecoveryOps == {"dataOn", "airplaneOn", "restart"}
=============================================================================
