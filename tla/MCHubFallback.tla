--------------------------- MODULE MCHubFallback ---------------------------
(* Instances of HubFallback for TLC. *)
EXTENDS HubFallback

OneEvent == {1}
TwoEvents == {1, 2}
=============================================================================
