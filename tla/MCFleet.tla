------------------------------ MODULE MCFleet ------------------------------
(* Finite instances of Fleet for TLC. *)
EXTENDS Fleet, TLC

Symmetry == Permutations(Agents) \cup Permutations(IPs)

\* What the blocklist depends on: neither invariant reads the license, the
\* status or the ban table of an agent, and no guard on the way to them does.
OfStore(d) == <<d.key, d.live, d.dead, d.fver>>
OfCall(c) == <<c.from, c.kind, c.awaited, c.at, c.recent, c.bver, c.blocks>>
OfAgent(st) == <<st.phase, st.blocks, st.recent>>
BlocklistView ==
    <<OfStore(db), OfStore(disk), up, {OfCall(c) : c \in calls},
      [a \in Agents |-> OfAgent(agent[a])], bans, crashes, restarts, fails, past>>
============================================================================
