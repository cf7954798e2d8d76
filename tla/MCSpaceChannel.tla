--------------------------- MODULE MCSpaceChannel ---------------------------
(* Values of the parameters of SpaceChannel for TLC. *)
EXTENDS SpaceChannel

CONSTANTS MCDelays, MCJitters, MCReplays, MCBursts

P(base, jitter, mode, prob, burst, replay) ==
  [base_delay_ms |-> base, jitter_ms |-> jitter, attack_mode |-> mode,
   attack_prob |-> prob, burst_size |-> burst, replay_delay |-> replay]

\* The channel starts with the delays of its configuration and no attack.
MCParams == {P(b, j, "none", 100, 1, 1) : b \in MCDelays, j \in MCJitters}

Kw(f, v) == [x \in {f} |-> v]

\* What the ground station sends when an attack is stopped or started, and a
\* request whose second value is not a number.
MCRequests ==
  {Kw("attack_mode", "none")}
  \cup {[attack_mode |-> "drop", attack_prob |-> 50, burst_size |-> n]
          : n \in MCBursts}
  \cup {[attack_mode |-> "replay", attack_prob |-> 50, replay_delay |-> d]
          : d \in MCReplays}
  \cup {[attack_mode |-> "drop", burst_size |-> Bad]}
=============================================================================
