----------------------------- MODULE MCMonitor -----------------------------
(* Finite instance of Monitor for TLC. *)
EXTENDS Monitor

SmallQuota == [total |-> 2, blocked |-> 3, challenged |-> 1]
============================================================================
