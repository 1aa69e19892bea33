------------------------------ MODULE BanTable -----------------------------
(***************************************************************************)
(* What the ban table promises the rest of the agent: the set of addresses *)
(* in force.  internal/banlist's clock, expiries, offence counts, races,   *)
(* size cap, snapshots and restarts are hidden; BanList is shown to        *)
(* implement this specification, and Guard and Minecraft are written       *)
(* against it.                                                             *)
(***************************************************************************)

CONSTANT IPs

VARIABLES
    blocked,    \* the addresses with a ban in force
    past        \* every address a ban was ever issued against

Init == blocked = {} /\ past = {}

\* The other addresses after a call about ip: the same, or one less where a
\* full table made room for a new address.
Others(ip) ==
    {blocked \ {ip}} \cup (IF ip \in blocked THEN {} ELSE {blocked \ {v} : v \in blocked})

\* Ban, BanFor or BanFleet of ip.  The ban is in force afterwards, unless it
\* had run out by the time the call got the lock.
Block(ip) ==
    /\ past' = past \cup {ip}
    /\ \E rest \in Others(ip) : blocked' \in {rest, rest \cup {ip}}

\* Bans end: run out, lifted, or gone with the process.
Release ==
    /\ blocked' \in SUBSET blocked
    /\ past' = past

\* A new process restores bans, issued earlier all of them.
Restore ==
    /\ blocked = {}
    /\ blocked' \in SUBSET past
    /\ past' = past

Next == (\E ip \in IPs : Block(ip)) \/ Release \/ Restore

Spec == Init /\ [][Next]_<<blocked, past>>

============================================================================
