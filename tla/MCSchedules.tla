---------------------------- MODULE MCSchedules ----------------------------
(* Instances of Schedules for TLC. *)
EXTENDS Schedules

TwoTasks  == <<"periodicTask", "fixedTask">>
OneRule   == <<"fixedRule">>
TwoRules  == <<"periodicRule", "fixedRule">>
OneTask   == <<"periodicTask">>
NoRules   == <<>>
NoFixed   == {}
BothFixed == {"fixedTask", "fixedRule"}
SecondMinute == {1}
=============================================================================
