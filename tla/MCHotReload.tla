---------------------------- MODULE MCHotReload ----------------------------
(* Finite instance of HotReload for TLC. *)
EXTENDS HotReload

C(s) == [own |-> "o1", shared |-> s]
\* "bad": rules that do not compile.
AllConfigs == {C("s1"), C("s2"), C("bad")}
BadConfigs == {C("bad")}
Start == C("s1")
============================================================================
