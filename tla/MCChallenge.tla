---------------------------- MODULE MCChallenge ----------------------------
(* Finite instance of Challenge for TLC. *)
EXTENDS Challenge

\* A harder puzzle with a shorter life, and the reverse.
Hard == [mode |-> "adaptive", diff |-> 2, ttl |-> 2]
Mild == [mode |-> "adaptive", diff |-> 1, ttl |-> 3]
HardAndMild == {Hard, Mild}
============================================================================
