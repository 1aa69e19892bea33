------------------------------- MODULE Fleet -------------------------------
(***************************************************************************)
(* The control plane and its agents: the license store (keys, pushed        *)
(* policies, the fleet blocklist, all in one JSON file), the server's       *)
(* validate and heartbeat handlers, and runLicenseAgent on every agent.     *)
(*                                                                          *)
(* Each store operation is atomic (one lock, the file written before it is  *)
(* released); a handler is several of them, so handlers, pushes and         *)
(* revocations interleave between them.  Calls get lost, answers get lost,  *)
(* a call the agent gave up on may still be handled, agents restart, and    *)
(* the server crashes and comes back with what its file says.               *)
(*                                                                          *)
(* Time is left out: a blocklist entry may expire at any moment.  Each      *)
(* agent has a key of its own and is named by it.                           *)
(***************************************************************************)
EXTENDS Integers, FiniteSets

CONSTANTS
    Agents, IPs, Docs,
    Uncompilable,   \* documents among Docs that an agent fails to apply
    FleetMax,       \* -fleet-max; 0 is unlimited
    SaveMayFail,    \* writing the data file can fail
    MaxBans,        \* bound: bans issued by agents
    MaxPushes,      \* bound: policies pushed
    MaxCrashes,     \* bound: crashes of the server
    MaxRestarts,    \* bound: restarts of agents
    MaxFails,       \* bound: calls that fail while the server is up
    MaxLate         \* bound: calls of one agent handled although it gave up

ASSUME FiniteAssumption == IsFiniteSet(IPs)
ASSUME BoundAssumption ==
    /\ {FleetMax, MaxBans, MaxPushes, MaxCrashes, MaxRestarts, MaxFails, MaxLate}
          \subseteq Nat
    /\ SaveMayFail \in BOOLEAN
    /\ Uncompilable \subseteq Docs

VARIABLES
    db,         \* Store.d: [key, policy, status, live, dead, fver]
    disk,       \* the data file
    up,         \* the server is running
    calls,      \* calls on the wire or being handled
    agent,      \* agent[a]: the state of runLicenseAgent and the ban table
    bans, crashes, restarts, fails,     \* used-up parts of the bounds
    past        \* history: [acked, reused, relisted]

vars == <<db, disk, up, calls, agent, bans, crashes, restarts, fails, past>>

NoDoc == [ver |-> 0, doc |-> "none"]
NoList == [sent |-> FALSE, ver |-> 0, ips |-> {}]
List(d) == [sent |-> TRUE, ver |-> d.fver, ips |-> d.live]

\* Entries of data.Fleet, expired or not.
Listed(d) == d.live \cup d.dead

\* An agent process that has just started: fail-closed, nothing applied.  The
\* ban table may have been persisted.
Fresh(local) == [phase |-> "start", licensed |-> FALSE, vouched |-> FALSE,
                 policy |-> NoDoc, blocks |-> NoList, recent |-> {}, local |-> local,
                 issued |-> 0]

----------------------------------------------------------------------------
Init ==
    /\ db = [key |-> [a \in Agents |-> "none"], policy |-> [a \in Agents |-> NoDoc],
             status |-> [a \in Agents |-> 0], live |-> {}, dead |-> {}, fver |-> 0]
    /\ disk = db
    /\ up = TRUE
    /\ calls = {}
    /\ agent = [a \in Agents |-> Fresh({})]
    /\ bans = 0 /\ crashes = 0 /\ restarts = 0 /\ fails = 0
    /\ past = [acked |-> {}, reused |-> {}, relisted |-> FALSE]

\* Store.save: a temporary file, renamed.  Where it fails the memory is ahead.
Save(d) == db' = d /\ disk' \in {d} \cup (IF SaveMayFail THEN {disk} ELSE {})

\* Store.Generate and handleGenerate: a key whose record was not written is not
\* shown to anyone, so nobody ever uses it.
Generate(a) ==
    /\ up /\ db.key[a] = "none"
    /\ db' = [db EXCEPT !.key[a] = "valid"] /\ disk' = db'
    /\ UNCHANGED <<up, calls, agent, bans, crashes, restarts, fails, past>>

\* MUTANT: the revocation is only kept in memory.
RevokeUnsaved(a) ==
    /\ up /\ db.key[a] # "none"
    /\ db' = [db EXCEPT !.key[a] = "revoked"]
    /\ past' = [past EXCEPT !.acked = @ \cup {a}]
    /\ UNCHANGED <<disk, up, calls, agent, bans, crashes, restarts, fails>>

\* Store.Revoke and handleRevoke, which may be repeated: the operator is told
\* that it is done when the file was written.
Revoke(a) ==
    /\ up /\ db.key[a] # "none"
    /\ Save([db EXCEPT !.key[a] = "revoked"])
    /\ past' = [past EXCEPT !.acked = IF disk' = db' THEN @ \cup {a} ELSE @]
    /\ UNCHANGED <<up, calls, agent, bans, crashes, restarts, fails>>

\* MUTANT: a policy replaced before anyone fetched it keeps its version.
SetPolicyInPlace(a) ==
    /\ up /\ db.policy[a].ver < MaxPushes
    /\ \E doc \in Docs :
          Save([db EXCEPT !.policy[a] = [ver |-> IF @.ver = 0 THEN 1 ELSE @.ver,
                                         doc |-> doc]])
    /\ UNCHANGED <<up, calls, agent, bans, crashes, restarts, fails, past>>

\* Store.SetPolicy.
SetPolicy(a) ==
    /\ up /\ db.policy[a].ver < MaxPushes
    /\ \E doc \in Docs :
          Save([db EXCEPT !.policy[a] = [ver |-> @.ver + 1, doc |-> doc]])
    /\ UNCHANGED <<up, calls, agent, bans, crashes, restarts, fails, past>>

\* A blocklist in which the entry of ip has expired.
Aged(d, ip) == IF ip \in d.live THEN [d EXCEPT !.live = @ \ {ip}, !.dead = @ \cup {ip}] ELSE d

\* The TTL of a blocklist entry runs out; in the file it may be the TTL of an
\* earlier report, and runs out first.
Expire(ip) ==
    /\ ip \in db.live \cup disk.live
    /\ disk' = Aged(disk, ip)
    /\ \/ db' = Aged(db, ip)
       \/ db' = db /\ ip \in disk.live
    /\ UNCHANGED <<up, calls, agent, bans, crashes, restarts, fails, past>>

\* Entries evictFleetLocked has to remove from a blocklist S.
Excess(S) == IF FleetMax > 0 /\ Cardinality(S) > FleetMax
             THEN Cardinality(S) - FleetMax ELSE 0

\* evictFleetLocked removes the soonest to expire: what has expired first.  The
\* expiry of a report is computed before the lock, so any order may be the
\* order of the others, those just added included.
Evictions(live, dead) ==
    {E \in SUBSET (live \cup dead) :
        /\ Cardinality(E) = Excess(live \cup dead)
        /\ E \cap live # {} => dead \subseteq E}

\* MUTANT: the version moves only when the list grows.
FleetVersionIfGrown(d, ips, E) ==
    IF Cardinality((Listed(d) \cup ips) \ E) > Cardinality(Listed(d))
    THEN d.fver + 1 ELSE d.fver

\* The version moves when an IP is new or one was evicted.
FleetVersion(d, ips, E) ==
    IF ips \subseteq Listed(d) /\ E = {} THEN d.fver ELSE d.fver + 1

\* Store.AddFleetBans: the blocklists it may leave.
AddFleetBans(d, ips) ==
    {[d EXCEPT !.live = (@ \cup ips) \ E, !.dead = (@ \ ips) \ E,
               !.fver = FleetVersion(d, ips, E)] :
       E \in Evictions(d.live \cup ips, d.dead \ ips)}

\* Store.FleetBlocklist sweeps what has expired.
Swept(d) == IF d.dead = {} THEN d ELSE [d EXCEPT !.dead = {}, !.fver = @ + 1]

----------------------------------------------------------------------------
(* The handlers of validate and heartbeat, one store operation at a time.   *)

Becomes(c, new) == calls' = (calls \ {c}) \cup {new}

\* Store.Validate.
KeyOK(a) == db.key[a] = "valid"

HandleValidate(c) ==
    /\ up /\ c.at = "sent"
    /\ Becomes(c, IF ~KeyOK(c.from) THEN [c EXCEPT !.at = "reply"]
                  ELSE [c EXCEPT !.ok = TRUE,
                                 !.at = IF c.kind = "validate" THEN "policy" ELSE "record"])
    /\ UNCHANGED <<db, disk, up, agent, bans, crashes, restarts, fails, past>>

\* What handleHeartbeat makes of the body: nothing at all where it is too long,
\* for the bans it reports, or where the agent has hung up.  It goes on either way.
Unread(c) == [c EXCEPT !.recent = {}, !.pver = 0, !.bver = 0, !.stat = 0]
Decoded(c) == {c} \cup (IF c.recent # {} \/ ~c.awaited THEN {Unread(c)} ELSE {})

\* Store.RecordHeartbeat: the status is what this heartbeat reports.
HandleRecord(c) ==
    /\ up /\ c.at = "record"
    /\ \E req \in Decoded(c) :
          /\ Save([db EXCEPT !.status[c.from] = req.stat])
          /\ Becomes(c, [req EXCEPT !.at = "ingest"])
    /\ UNCHANGED <<up, agent, bans, crashes, restarts, fails, past>>

HandleIngest(c) ==
    /\ up /\ c.at = "ingest"
    /\ IF c.recent = {} THEN UNCHANGED <<db, disk>>
       ELSE \E d \in AddFleetBans(db, c.recent) : Save(d)
    /\ Becomes(c, [c EXCEPT !.at = "policy"])
    /\ UNCHANGED <<up, agent, bans, crashes, restarts, fails, past>>

\* Store.Policy; a heartbeat is answered with a policy of another version only.
HandlePolicy(c) ==
    /\ up /\ c.at = "policy"
    /\ LET p == db.policy[c.from]
       IN  Becomes(c, [c EXCEPT
              !.policy = IF c.kind = "validate" \/ p.ver # c.pver THEN p ELSE NoDoc,
              !.at = IF c.kind = "validate" THEN "reply" ELSE "fleet"])
    /\ UNCHANGED <<db, disk, up, agent, bans, crashes, restarts, fails, past>>

\* Store.FleetBlocklist; sent when the version is not the agent's.
HandleFleet(c) ==
    /\ up /\ c.at = "fleet"
    /\ LET d == Swept(db)
       IN  /\ IF d = db THEN UNCHANGED <<db, disk>> ELSE Save(d)
           /\ Becomes(c, [c EXCEPT
                 !.blocks = IF d.fver # c.bver THEN List(d) ELSE NoList,
                 !.at = "reply"])
    /\ UNCHANGED <<up, agent, bans, crashes, restarts, fails, past>>

Handle(c) == \/ HandleValidate(c) \/ HandleRecord(c) \/ HandleIngest(c)
             \/ HandlePolicy(c) \/ HandleFleet(c)

\* The server dies; its handlers die with it.
Crash ==
    /\ up /\ crashes < MaxCrashes
    /\ up' = FALSE
    /\ crashes' = crashes + 1
    /\ calls' = {c \in calls : c.at \in {"sent", "reply"}}
    /\ UNCHANGED <<db, disk, agent, bans, restarts, fails, past>>

\* The policies handed out to a, and the lists handed out: applied, or on their way.
HandedOut(a) == {agent[a].policy} \cup {c.policy : c \in {d \in calls : d.from = a}}
ListsOut == {agent[a].blocks : a \in Agents} \cup {c.blocks : c \in calls}

\* Open loads the data file.  The history takes down where that goes back
\* behind a version handed out already.
Open ==
    /\ ~up
    /\ up' = TRUE
    /\ db' = disk
    /\ past' = [past EXCEPT
          !.reused = @ \cup {a \in Agents : \E p \in HandedOut(a) : p.ver > disk.policy[a].ver},
          !.relisted = @ \/ \E l \in ListsOut : l.ver > disk.fver]
    /\ UNCHANGED <<disk, calls, agent, bans, crashes, restarts, fails>>

----------------------------------------------------------------------------
(* runLicenseAgent.                                                         *)

Call(a, kind, recent) ==
    [from |-> a, kind |-> kind, awaited |-> TRUE, at |-> "sent", ok |-> FALSE,
     recent |-> recent, pver |-> agent[a].policy.ver, bver |-> agent[a].blocks.ver,
     stat |-> agent[a].issued, policy |-> NoDoc, blocks |-> NoList]

\* Startup validation.
Validate(a) ==
    /\ agent[a].phase = "start"
    /\ calls' = calls \cup {Call(a, "validate", {})}
    /\ agent' = [agent EXCEPT ![a].phase = "waiting"]
    /\ UNCHANGED <<db, disk, up, bans, crashes, restarts, fails, past>>

\* The heartbeat ticker: drain the recent bans into the call.
Heartbeat(a) ==
    /\ agent[a].phase = "idle"
    /\ calls' = calls \cup {Call(a, "heartbeat", agent[a].recent)}
    /\ agent' = [agent EXCEPT ![a].phase = "waiting", ![a].recent = {}]
    /\ UNCHANGED <<db, disk, up, bans, crashes, restarts, fails, past>>

\* MUTANT: only the first policy is applied.
ApplyOnce(old, new) ==
    IF new.doc \in {"none"} \cup Uncompilable \/ old.ver # 0 THEN old ELSE new

\* applyPolicy: a policy of another version replaces the applied one.  Where
\* Guard.Reload fails nothing changes, and with the old version still reported
\* the server sends the policy again.
Apply(old, new) ==
    IF new.doc \in {"none"} \cup Uncompilable \/ new.ver = old.ver THEN old ELSE new

\* MUTANT: fleet bans are recorded like local ones.
BanFleetEcho(st, ips) == [st EXCEPT !.local = @ \cup ips, !.recent = @ \cup ips]

\* banlist.BanFleet for every IP of the list: banned, and not recorded.
BanFleet(st, ips) == [st EXCEPT !.local = @ \cup ips]

\* apply: the answer decides, whatever the state was.
ApplyLicense(st, c) == [st EXCEPT !.licensed = c.ok, !.vouched = @ \/ c.ok]

\* The answer arrives while the agent waits for it.
Answer(c) ==
    /\ c.at = "reply" /\ c.awaited
    /\ LET st == [ApplyLicense(agent[c.from], c) EXCEPT
                     !.phase = "idle", !.policy = Apply(@, c.policy)]
       IN  agent' = [agent EXCEPT ![c.from] =
              IF c.blocks = NoList THEN st
              ELSE [BanFleet(st, c.blocks.ips) EXCEPT !.blocks = c.blocks]]
    /\ calls' = calls \ {c}
    /\ UNCHANGED <<db, disk, up, bans, crashes, restarts, fails, past>>

\* What may become of a's call when a stops waiting for it: it is lost, or
\* handled late, its answer ignored.
Abandoned(a) ==
    LET mine == {c \in calls : c.from = a /\ c.awaited}
        late == {c \in calls : c.from = a /\ ~c.awaited}
        kept == {[c EXCEPT !.awaited = FALSE] : c \in {m \in mine : m.at # "reply"}}
    IN  {calls \ mine} \cup
        (IF Cardinality(late) < MaxLate THEN {(calls \ mine) \cup kept} ELSE {})

\* MUTANT: with the control plane out of reach the agent serves.
FailServing(a) ==
    /\ agent[a].phase = "waiting"
    /\ IF \E c \in calls : c.from = a /\ c.awaited
       THEN fails < MaxFails /\ fails' = fails + 1 ELSE UNCHANGED fails
    /\ calls' \in Abandoned(a)
    /\ agent' = [agent EXCEPT ![a].phase = "idle", ![a].licensed = TRUE]
    /\ UNCHANGED <<db, disk, up, bans, crashes, restarts, past>>

\* Refused, timed out, lost, or rate limited: keep the last known state.  A
\* call that died with the server always fails.
Fail(a) ==
    /\ agent[a].phase = "waiting"
    /\ IF \E c \in calls : c.from = a /\ c.awaited
       THEN fails < MaxFails /\ fails' = fails + 1 ELSE UNCHANGED fails
    /\ calls' \in Abandoned(a)
    /\ agent' = [agent EXCEPT ![a].phase = "idle"]
    /\ UNCHANGED <<db, disk, up, bans, crashes, restarts, past>>

\* The answer to a call nobody waits for goes nowhere.
DropAnswer(c) ==
    /\ c.at = "reply" /\ ~c.awaited
    /\ calls' = calls \ {c}
    /\ UNCHANGED <<db, disk, up, agent, bans, crashes, restarts, fails, past>>

\* The guard or an operator bans an IP on a: banned there, and recorded.
LocalBan(a, ip) ==
    /\ bans < MaxBans
    /\ bans' = bans + 1
    /\ agent' = [agent EXCEPT ![a].local = @ \cup {ip}, ![a].recent = @ \cup {ip},
                             ![a].issued = @ + 1]
    /\ UNCHANGED <<db, disk, up, calls, crashes, restarts, fails, past>>

\* The agent's process is started again.
Restart(a) ==
    /\ restarts < MaxRestarts
    /\ restarts' = restarts + 1
    /\ calls' \in Abandoned(a)
    /\ \E kept \in {{}, agent[a].local} : agent' = [agent EXCEPT ![a] = Fresh(kept)]
    /\ UNCHANGED <<db, disk, up, bans, crashes, fails, past>>

Next ==
    \/ \E a \in Agents : \/ Generate(a) \/ Revoke(a) \/ SetPolicy(a)
                         \/ Validate(a) \/ Heartbeat(a) \/ Fail(a) \/ Restart(a)
                         \/ \E ip \in IPs : LocalBan(a, ip)
    \/ \E c \in calls : Handle(c) \/ Answer(c) \/ DropAnswer(c)
    \/ \E ip \in IPs : Expire(ip)
    \/ Crash \/ Open

Spec == Init /\ [][Next]_vars

\* A call of a moves on.
Proceed(a) ==
    \E c \in calls : c.from = a /\ (Handle(c) \/ Answer(c) \/ DropAnswer(c))

\* The agent's ticker fires, the server is restarted and runs its handlers,
\* and blocklist entries expire.  That calls get through in the end is the
\* bound on their failures.
FairSpec ==
    /\ Spec
    /\ WF_vars(Open)
    /\ \A ip \in IPs : WF_vars(Expire(ip))
    /\ \A a \in Agents : WF_vars(Validate(a) \/ Heartbeat(a) \/ Fail(a))
    /\ \A a \in Agents : WF_vars(Proceed(a))

----------------------------------------------------------------------------
(* Properties. *)

Policies == [ver : 0..MaxPushes, doc : Docs \cup {"none"}]
Lists == {NoList} \cup [sent : {TRUE}, ver : Nat, ips : SUBSET IPs]
Database == [key : [Agents -> {"none", "valid", "revoked"}],
             policy : [Agents -> Policies],
             status : [Agents -> 0..MaxBans],
             live : SUBSET IPs, dead : SUBSET IPs, fver : Nat]

\* Every variable has its type, and a blocklist entry is expired or it is not.
TypeOK ==
    /\ db \in Database /\ disk \in Database
    /\ db.live \cap db.dead = {}
    /\ past \in [acked : SUBSET Agents, reused : SUBSET Agents, relisted : BOOLEAN]
    /\ up \in BOOLEAN
    /\ calls \subseteq
         [from : Agents, kind : {"validate", "heartbeat"}, awaited : BOOLEAN,
          at : {"sent", "record", "ingest", "policy", "fleet", "reply"}, ok : BOOLEAN,
          recent : SUBSET IPs, pver : 0..MaxPushes, bver : Nat,
          stat : 0..MaxBans, policy : Policies, blocks : Lists]
    /\ agent \in [Agents ->
         [phase : {"start", "idle", "waiting"}, licensed : BOOLEAN, vouched : BOOLEAN,
          policy : Policies, blocks : Lists, recent : SUBSET IPs, local : SUBSET IPs,
          issued : 0..MaxBans]]

\* Fail-closed: an agent serves only if this very process was told at least
\* once that its key is valid, and only for a key that was issued.
FailClosed ==
    \A a \in Agents : agent[a].licensed => agent[a].vouched /\ db.key[a] # "none"

\* A policy version names one policy: the agent whose applied version is the
\* server's has the server's policy, through late calls, restarts, failed
\* writes and crashes.  The one exception is a server that came back with a
\* version behind what it had handed out, for want of a write.
PolicyVersionNames ==
    \A a \in Agents \ past.reused :
        agent[a].policy.ver = db.policy[a].ver => agent[a].policy = db.policy[a]

\* The blocklist agents share: it stays within its cap, whoever reports and
\* whatever expires or crashes, and a version names one list - the agent whose
\* applied version is the server's was given every IP on the server's list,
\* with the same exception.
BlocklistSound ==
    /\ FleetMax > 0 => Cardinality(Listed(db)) <= FleetMax
    /\ ~past.relisted =>
          \A a \in Agents : agent[a].blocks # NoList /\ agent[a].blocks.ver = db.fver
                                => db.live \subseteq agent[a].blocks.ips

\* The kill switch works, and a revocation is for good: an agent whose key was
\* revoked, with the operator told so, stops serving and never serves again,
\* whatever is not written afterwards and whatever crashes.
RevokedStops ==
    \A a \in Agents : a \in past.acked ~> []~agent[a].licensed

\* a's key is valid, and what was last pushed to it can be applied.
Due(a) == /\ up /\ db.key[a] = "valid"
          /\ db.policy[a].ver > 0 /\ db.policy[a].doc \notin Uncompilable

\* A pushed policy arrives, and so does the last of several: in the end an agent
\* that the server knows has the policy last pushed to it, if that compiles and
\* its version was not handed out before.
PolicyArrives ==
    \A a \in Agents :
        <>[](Due(a) /\ a \notin past.reused => agent[a].policy = db.policy[a])

\* No echo loop: the version of the list moves at most twice for each ban an
\* agent issued (the IP comes, the IP goes), although every agent bans what
\* every other one reported, entries are evicted and come back, a call may be
\* handled late, and a crash may bring an older list back.
NoEchoLoop == db.fver <= 2 * bans

(* What the documentation says and the code does not keep. *)

\* Store: a "monotonically increasing version (so agents apply changes only when
\* the version moves)".
VersionIsForGood ==
    \A a \in Agents : agent[a].policy.ver = db.policy[a].ver
                          => agent[a].policy = db.policy[a]

\* README: "an IP banned on any agent is blocked across the whole fleet".  A
\* ban an agent has recorded reaches the blocklist unless its key is not valid.
BanIsShared ==
    \A a \in Agents, ip \in IPs :
        ip \in agent[a].recent ~> (ip \in Listed(db) \/ db.key[a] # "valid")

\* Store: RecordHeartbeat "upserts the latest agent status".  The counters an
\* agent reports only grow while it runs, so the recorded ones never go back.
StatusIsLatest ==
    [][\A a \in Agents : up /\ restarts = 0 => db'.status[a] >= db.status[a]]_vars

============================================================================
