----------------------------- MODULE MCBanList -----------------------------
(* Finite instances of BanList for TLC. *)
EXTENDS BanList, TLC

CONSTANTS a

\* A first offence lasts 1 tick, a second 2, any further one 2 (max).
Roomy == [base |-> 1, max |-> 2, esc |-> 2, maxEntries |-> 2]
\* The same with room for a single address.
Tight == [base |-> 1, max |-> 1, esc |-> 2, maxEntries |-> 1]

BothParams == {Roomy, Tight}
\* Room for two, and bans as short as in Tight: a smaller clock will do.
BriefParams == {[Roomy EXCEPT !.max = 1], Tight}
NoAllow == {{}}
Symmetry == Permutations(IPs) \cup Permutations(Workers)
AllowA == {{}, {a}}

\* For the run that does not look at how long the bans were: of the history
\* variable high it keeps who was banned, which is all BanTable asks.
WithoutHigh == <<now, banned, allow, params, recent, call, cutoff, mode, persister,
                 snap, disk, strikes, {ip \in IPs : high[ip] # ZeroTime}>>
============================================================================
