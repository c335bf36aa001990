--------------------------- MODULE MCCommandLedger ---------------------------
(* Instances of CommandLedger for TLC. *)
EXTENDS CommandLedger

CONSTANT c1

OneCommand == {c1}
=============================================================================
