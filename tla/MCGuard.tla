------------------------------ MODULE MCGuard ------------------------------
(* Finite instance of Guard for TLC. *)
EXTENDS Guard

CONSTANT a

P(dry, tarpitOn, bodyCap, c, al) ==
    [dry |-> dry, tarpit |-> tarpitOn, body |-> bodyCap, cap |-> c, allow |-> al]
Strict == P(FALSE, TRUE, TRUE, 1, {})
\* A reload changes to dry-run, or to two slots per IP, an allowlist and bodies
\* of any size, or keeps the policy.
Mixed == {Strict, P(TRUE, FALSE, TRUE, 1, {}), P(FALSE, FALSE, FALSE, 2, {a})}
============================================================================
