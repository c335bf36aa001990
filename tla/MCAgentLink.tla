---------------------------- MODULE MCAgentLink ----------------------------
(* Instances of AgentLink for TLC. *)
EXTENDS AgentLink

CONSTANTS h1, h2

TwoHubs == {h1, h2}
=============================================================================
