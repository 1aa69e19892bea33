--------------------------- MODULE MCPerIPLimiter --------------------------
(* Finite instances of PerIPLimiter for TLC. *)
EXTENDS PerIPLimiter
============================================================================
