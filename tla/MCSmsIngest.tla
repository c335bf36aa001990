---------------------------- MODULE MCSmsIngest ----------------------------
(* Instances of SmsIngest for TLC. *)
EXTENDS SmsIngest

TwoMessages == {"a", "b"}
NoTime == {"b"}
=============================================================================
