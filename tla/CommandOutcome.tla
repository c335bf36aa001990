--------------------------- MODULE CommandOutcome ---------------------------
(***************************************************************************)
(* What the agent promises a Hub about the commands it sends: a command    *)
(* acts on the device at most once, whatever the retransmissions, restarts *)
(* and lost connections; it gets one outcome, which never changes; and the *)
(* Hub is only ever told that outcome.                                     *)
(***************************************************************************)
EXTENDS Naturals

CONSTANT Commands

Outcomes == {"succeeded", "failed", "unknown"}

VARIABLES
  phase,   \* "new", "open", or the outcome of the command
  effects, \* how many times the command acted on the device
  told     \* the outcomes the Hub has been told

avars == <<phase, effects, told>>

Init ==
  /\ phase = [c \in Commands |-> "new"]
  /\ effects = [c \in Commands |-> 0]
  /\ told = [c \in Commands |-> {}]

Open(c) ==
  /\ phase[c] = "new"
  /\ phase' = [phase EXCEPT ![c] = "open"]
  /\ UNCHANGED <<effects, told>>

\* A command whose outcome was declared unknown may still be acting.
Act(c) ==
  /\ phase[c] \in {"open", "unknown"}
  /\ effects[c] = 0
  /\ effects' = [effects EXCEPT ![c] = 1]
  /\ UNCHANGED <<phase, told>>

Settle(c, o) ==
  /\ phase[c] = "open"
  /\ o = "succeeded" => effects[c] = 1
  /\ phase' = [phase EXCEPT ![c] = o]
  /\ UNCHANGED <<effects, told>>

\* A start of the agent settles every open command at once.
SettleAll ==
  /\ phase' = [c \in Commands |-> IF phase[c] = "open" THEN "unknown" ELSE phase[c]]
  /\ UNCHANGED <<effects, told>>

Tell(c) ==
  /\ phase[c] \in Outcomes
  /\ told' = [told EXCEPT ![c] = @ \cup {phase[c]}]
  /\ UNCHANGED <<phase, effects>>

Next ==
  \/ \E c \in Commands : Open(c) \/ Act(c) \/ Tell(c)
  \/ \E c \in Commands, o \in Outcomes : Settle(c, o)
  \/ SettleAll

Spec == Init /\ [][Next]_avars
=============================================================================
