---------------------------- MODULE FleetProofs ----------------------------
(* Machine-checked facts about the control plane and its agents, for every  *)
(* set of agents, addresses and documents and every bound.                  *)
EXTENDS Fleet, FiniteSetTheorems, TLAPS

----------------------------------------------------------------------------
(* Types. *)

Calls ==
    [from : Agents, kind : {"validate", "heartbeat"}, awaited : BOOLEAN,
     at : {"sent", "record", "ingest", "policy", "fleet", "reply"}, ok : BOOLEAN,
     recent : SUBSET IPs, pver : 0..MaxPushes, bver : Nat,
     stat : 0..MaxBans, policy : Policies, blocks : Lists]

States ==
    [phase : {"start", "idle", "waiting"}, licensed : BOOLEAN, vouched : BOOLEAN,
     policy : Policies, blocks : Lists, recent : SUBSET IPs, local : SUBSET IPs,
     issued : 0..MaxBans]

\* A database that could be in memory or in the file.
Stored(d) == d \in Database /\ d.live \cap d.dead = {}

\* The typing invariant: an agent has issued no more bans than there were.
TypeInv ==
    /\ Stored(db) /\ Stored(disk)
    /\ up \in BOOLEAN
    /\ calls \subseteq Calls
    /\ agent \in [Agents -> States]
    /\ bans \in 0..MaxBans
    /\ \A a \in Agents : agent[a].issued <= bans

\* The history has a type of its own.
History == [acked : SUBSET Agents, reused : SUBSET Agents, relisted : BOOLEAN]
PastInv == past \in History

LEMMA TypeInvTypes == TypeInv /\ PastInv => TypeOK
BY DEF TypeInv, PastInv, TypeOK, Stored, Calls, States, History

\* The empty document and the empty list are what an agent starts with.
LEMMA EmptyTypes == NoDoc \in Policies /\ NoList \in Lists /\ NoList.ver = 0
BY BoundAssumption DEF NoDoc, NoList, Policies, Lists

LEMMA ListTypes == ASSUME NEW l \in Lists PROVE l.ver \in Nat
<1>1. CASE l = NoList
  BY <1>1, EmptyTypes
<1>2. CASE l \in [sent : {TRUE}, ver : Nat, ips : SUBSET IPs]
  BY <1>2
<1> QED BY <1>1, <1>2 DEF Lists

LEMMA FreshTypes == ASSUME NEW local \in SUBSET IPs
                    PROVE  Fresh(local) \in States /\ Fresh(local).issued = 0
BY EmptyTypes, BoundAssumption DEF Fresh, States

\* Saving leaves a database in memory, and that or the old one in the file.
LEMMA SaveTypes ==
    ASSUME NEW d, Stored(d), Stored(disk), Save(d) PROVE Stored(db') /\ Stored(disk')
BY DEF Save

LEMMA AddFleetBansTypes ==
    ASSUME NEW d, Stored(d), NEW ips \in SUBSET IPs, NEW e \in AddFleetBans(d, ips)
    PROVE  Stored(e)
<1>1. PICK E : e = [d EXCEPT !.live = (@ \cup ips) \ E, !.dead = (@ \ ips) \ E,
                             !.fver = FleetVersion(d, ips, E)]
  BY DEF AddFleetBans
<1>2. FleetVersion(d, ips, E) \in Nat
  BY DEF FleetVersion, Stored, Database
<1>3. /\ e.live = (d.live \cup ips) \ E /\ e.dead = (d.dead \ ips) \ E
      /\ e \in Database
  BY <1>1, <1>2 DEF Stored, Database
<1> QED BY <1>3 DEF Stored

LEMMA SweptTypes == ASSUME NEW d, Stored(d) PROVE Stored(Swept(d)) /\ Swept(d).dead = {}
<1>1. CASE d.dead = {}
  BY <1>1 DEF Swept
<1>2. CASE d.dead # {}
  <2> DEFINE e == [d EXCEPT !.dead = {}, !.fver = @ + 1]
  <2>1. Swept(d) = e
    BY <1>2 DEF Swept
  <2>2. d.fver + 1 \in Nat /\ {} \in SUBSET IPs
    BY DEF Stored, Database
  <2>3. e \in Database /\ e.dead = {}
    BY <2>2 DEF Stored, Database
  <2> QED BY <2>1, <2>3 DEF Stored
<1> QED BY <1>1, <1>2

\* Where a call is: it is still a call, of the same agent.
LEMMA AbandonedTypes ==
    ASSUME TypeInv, NEW a \in Agents, calls' \in Abandoned(a)
    PROVE  \A c \in calls' : \E o \in calls : /\ c = o \/ c = [o EXCEPT !.awaited = FALSE]
                                              /\ c \in Calls
<1> SUFFICES ASSUME NEW c \in calls'
             PROVE  \E o \in calls : (c = o \/ c = [o EXCEPT !.awaited = FALSE]) /\ c \in Calls
  OBVIOUS
<1>1. c \in calls \/ \E o \in calls : c = [o EXCEPT !.awaited = FALSE]
  BY DEF Abandoned
<1>2. ASSUME NEW o \in calls PROVE o \in Calls /\ [o EXCEPT !.awaited = FALSE] \in Calls
  BY DEF TypeInv, Calls
<1> QED BY <1>1, <1>2

\* An unread body is an empty one.
LEMMA DecodedTypes ==
    ASSUME NEW c \in Calls, NEW q \in Decoded(c)
    PROVE  /\ q \in Calls /\ q.from = c.from /\ q.at = c.at /\ q.ok = c.ok
           /\ q.policy = c.policy /\ q.blocks = c.blocks /\ q.recent \subseteq c.recent
<1>1. q = c \/ q = Unread(c)
  BY DEF Decoded
<1>2. {} \in SUBSET IPs /\ 0 \in 0..MaxPushes /\ 0 \in Nat /\ 0 \in 0..MaxBans
  BY BoundAssumption
<1>3. [c EXCEPT !.recent = {}, !.pver = 0, !.bver = 0, !.stat = 0] \in Calls
  BY <1>2 DEF Calls
<1>4. /\ Unread(c) \in Calls /\ Unread(c).from = c.from /\ Unread(c).at = c.at
      /\ Unread(c).ok = c.ok /\ Unread(c).policy = c.policy
      /\ Unread(c).blocks = c.blocks /\ Unread(c).recent = {}
  BY <1>3 DEF Unread, Calls
<1> QED BY <1>1, <1>4

LEMMA TypeInit == Init => TypeInv
<1> SUFFICES ASSUME Init PROVE TypeInv
  OBVIOUS
<1>1. Stored(db) /\ Stored(disk)
  BY EmptyTypes, BoundAssumption DEF Init, Stored, Database
<1>2. agent = [a \in Agents |-> Fresh({})] /\ Fresh({}) \in States /\ Fresh({}).issued = 0
  BY FreshTypes DEF Init
<1> QED BY <1>1, <1>2, BoundAssumption DEF Init, TypeInv

\* One agent moves to a state of its type, having issued what is counted.
LEMMA AgentMoves ==
    ASSUME TypeInv, NEW a \in Agents, NEW st \in States, st.issued <= bans',
           agent' = [agent EXCEPT ![a] = st], bans <= bans', bans' \in 0..MaxBans,
           Stored(db'), Stored(disk'), up' \in BOOLEAN, calls' \subseteq Calls
    PROVE  TypeInv'
<1>1. agent' \in [Agents -> States]
  BY DEF TypeInv
<1>2. ASSUME NEW x \in Agents PROVE agent'[x].issued <= bans'
  <2>1. CASE x = a
    BY <2>1 DEF TypeInv
  <2>2. CASE x # a
    <3>1. agent'[x] = agent[x] /\ agent[x].issued <= bans /\ agent[x].issued \in 0..MaxBans
      BY <2>2 DEF TypeInv, States
    <3> QED BY <3>1, BoundAssumption DEF TypeInv
  <2> QED BY <2>1, <2>2
<1> QED BY <1>1, <1>2 DEF TypeInv

\* The same, where neither the server nor the number of bans changes.
LEMMA AgentSteps ==
    ASSUME TypeInv, NEW a \in Agents, NEW st \in States, st.issued <= bans,
           agent' = [agent EXCEPT ![a] = st], UNCHANGED <<db, disk, up, bans>>,
           calls' \subseteq Calls
    PROVE  TypeInv'
<1>1. /\ st.issued <= bans' /\ bans <= bans' /\ bans' \in 0..MaxBans
      /\ Stored(db') /\ Stored(disk') /\ up' \in BOOLEAN
  BY DEF TypeInv
<1> QED BY <1>1, AgentMoves

\* Every step keeps the types.
LEMMA TypeStep == TypeInv /\ [Next]_vars => TypeInv'
<1> SUFFICES ASSUME TypeInv, [Next]_vars PROVE TypeInv'
  OBVIOUS
<1>0. /\ Stored(db) /\ Stored(disk) /\ up \in BOOLEAN /\ calls \subseteq Calls
      /\ agent \in [Agents -> States] /\ bans \in 0..MaxBans
      /\ \A a \in Agents : agent[a] \in States /\ agent[a].issued <= bans
  BY DEF TypeInv
<1>d. ASSUME NEW d, Stored(d), Save(d), UNCHANGED <<agent, bans>>,
             up' \in BOOLEAN, calls' \subseteq Calls
      PROVE  TypeInv'
  BY <1>0, <1>d, SaveTypes DEF TypeInv
<1>c. ASSUME UNCHANGED <<db, disk, agent, bans>>, up' \in BOOLEAN, calls' \subseteq Calls
      PROVE  TypeInv'
  BY <1>0, <1>c DEF TypeInv
<1>1. ASSUME NEW a \in Agents, Generate(a) PROVE TypeInv'
  <2> DEFINE d == [db EXCEPT !.key[a] = "valid"]
  <2>1. Stored(d)
    BY <1>0 DEF Stored, Database
  <2>2. Save(d)
    BY <1>1 DEF Generate, Save
  <2> HIDE DEF d
  <2> QED BY <1>0, <1>1, <1>d, <2>1, <2>2 DEF Generate
<1>2. ASSUME NEW a \in Agents, Revoke(a) PROVE TypeInv'
  <2>1. Stored([db EXCEPT !.key[a] = "revoked"])
    BY <1>0 DEF Stored, Database
  <2> QED BY <1>0, <1>2, <1>d, <2>1 DEF Revoke
<1>3. ASSUME NEW a \in Agents, SetPolicy(a) PROVE TypeInv'
  <2>1. PICK doc \in Docs : Save([db EXCEPT !.policy[a] = [ver |-> @.ver + 1, doc |-> doc]])
    BY <1>3 DEF SetPolicy
  <2>2. [ver |-> db.policy[a].ver + 1, doc |-> doc] \in Policies
    BY <1>0, <1>3, BoundAssumption DEF SetPolicy, Policies, Stored, Database
  <2>3. Stored([db EXCEPT !.policy[a] = [ver |-> @.ver + 1, doc |-> doc]])
    BY <1>0, <2>2 DEF Stored, Database
  <2> QED BY <1>0, <1>3, <1>d, <2>1, <2>3 DEF SetPolicy
<1>4. ASSUME NEW ip \in IPs, Expire(ip) PROVE TypeInv'
  <2>1. ASSUME NEW d, Stored(d) PROVE Stored(Aged(d, ip))
    BY <2>1 DEF Stored, Database, Aged
  <2>2. /\ disk' = Aged(disk, ip) /\ db' \in {db, Aged(db, ip)}
        /\ UNCHANGED <<up, calls, agent, bans>>
    BY <1>4 DEF Expire
  <2>3. Stored(db') /\ Stored(disk')
    BY <1>0, <2>1, <2>2
  <2> QED BY <1>0, <2>2, <2>3 DEF TypeInv
<1>5. ASSUME NEW c \in calls, HandleValidate(c) PROVE TypeInv'
  <2>1. calls' \subseteq Calls
    <3>1. c \in Calls
      BY <1>0
    <3>2. /\ [c EXCEPT !.at = "reply"] \in Calls
          /\ [c EXCEPT !.ok = TRUE, !.at = "policy"] \in Calls
          /\ [c EXCEPT !.ok = TRUE, !.at = "record"] \in Calls
      BY <3>1 DEF Calls
    <3> QED BY <1>0, <1>5, <3>2 DEF HandleValidate, Becomes
  <2> QED BY <1>0, <1>5, <1>c, <2>1 DEF HandleValidate
<1>6. ASSUME NEW c \in calls, HandleRecord(c) PROVE TypeInv'
  <2>1. PICK q \in Decoded(c) : /\ Save([db EXCEPT !.status[c.from] = q.stat])
                                /\ Becomes(c, [q EXCEPT !.at = "ingest"])
    BY <1>6 DEF HandleRecord
  <2>2. q \in Calls /\ c.from \in Agents
    BY <1>0, <2>1, DecodedTypes DEF Calls
  <2>3. q.stat \in 0..MaxBans /\ [q EXCEPT !.at = "ingest"] \in Calls
    BY <2>2 DEF Calls
  <2>4. calls' \subseteq Calls
    BY <1>0, <2>1, <2>3 DEF Becomes
  <2>5. Stored([db EXCEPT !.status[c.from] = q.stat])
    BY <1>0, <2>2, <2>3 DEF Stored, Database
  <2> QED BY <1>0, <1>6, <1>d, <2>1, <2>4, <2>5 DEF HandleRecord
<1>7. ASSUME NEW c \in calls, HandleIngest(c) PROVE TypeInv'
  <2>1. c \in Calls
    BY <1>0
  <2>2. c.recent \in SUBSET IPs /\ [c EXCEPT !.at = "policy"] \in Calls
    BY <2>1 DEF Calls
  <2>3. calls' \subseteq Calls
    BY <1>0, <1>7, <2>2 DEF HandleIngest, Becomes
  <2>4. CASE c.recent = {}
    BY <1>0, <1>7, <1>c, <2>3, <2>4 DEF HandleIngest
  <2>5. CASE c.recent # {}
    <3>1. PICK d \in AddFleetBans(db, c.recent) : Save(d)
      BY <1>7, <2>5 DEF HandleIngest
    <3>2. Stored(d)
      BY <1>0, <2>2, <3>1, AddFleetBansTypes
    <3> QED BY <1>0, <1>7, <1>d, <2>3, <3>1, <3>2 DEF HandleIngest
  <2> QED BY <2>4, <2>5
<1>8. ASSUME NEW c \in calls, HandlePolicy(c) PROVE TypeInv'
  <2>1. c \in Calls /\ c.from \in Agents
    BY <1>0 DEF Calls
  <2>2. db.policy[c.from] \in Policies /\ NoDoc \in Policies
    BY <1>0, <2>1, EmptyTypes DEF Stored, Database
  <2>3. ASSUME NEW p \in Policies, NEW at \in {"reply", "fleet"}
        PROVE  [c EXCEPT !.policy = p, !.at = at] \in Calls
    BY <2>1 DEF Calls
  <2>4. PICK p \in Policies, at \in {"reply", "fleet"} :
           Becomes(c, [c EXCEPT !.policy = p, !.at = at])
    BY <1>8, <2>2 DEF HandlePolicy
  <2>5. calls' \subseteq Calls
    BY <1>0, <2>3, <2>4 DEF Becomes
  <2> QED BY <1>0, <1>8, <1>c, <2>5 DEF HandlePolicy
<1>9. ASSUME NEW c \in calls, HandleFleet(c) PROVE TypeInv'
  <2> DEFINE d == Swept(db)
  <2>1. c \in Calls
    BY <1>0
  <2>2. Stored(d)
    BY <1>0, SweptTypes
  <2>3. List(d) \in Lists /\ NoList \in Lists
    BY <2>2, EmptyTypes DEF Stored, Database, Lists, List
  <2>4. ASSUME NEW l \in Lists PROVE [c EXCEPT !.blocks = l, !.at = "reply"] \in Calls
    BY <2>1 DEF Calls
  <2>5. /\ IF d = db THEN UNCHANGED <<db, disk>> ELSE Save(d)
        /\ Becomes(c, [c EXCEPT !.blocks = IF d.fver # c.bver THEN List(d) ELSE NoList,
                                !.at = "reply"])
        /\ UNCHANGED <<up, agent, bans>>
    BY <1>9 DEF HandleFleet
  <2> HIDE DEF d
  <2>6. PICK l \in Lists : Becomes(c, [c EXCEPT !.blocks = l, !.at = "reply"])
    BY <2>3, <2>5
  <2>7. calls' \subseteq Calls
    BY <1>0, <2>4, <2>6 DEF Becomes
  <2> QED BY <1>0, <1>c, <1>d, <2>2, <2>5, <2>7
<1>10. CASE Crash
  BY <1>0, <1>10, <1>c DEF Crash
<1>11. CASE Open
  BY <1>0, <1>11 DEF Open, TypeInv
<1>12. ASSUME NEW a \in Agents, Validate(a) \/ Heartbeat(a) PROVE TypeInv'
  <2> DEFINE s == agent[a]
  <2>1. /\ s \in States /\ s.issued <= bans
        /\ s.policy.ver \in 0..MaxPushes /\ s.blocks.ver \in Nat
    BY <1>0, ListTypes DEF States, Policies
  <2>2. ASSUME NEW kind \in {"validate", "heartbeat"}, NEW r \in SUBSET IPs
        PROVE  Call(a, kind, r) \in Calls
    BY <2>1, EmptyTypes DEF Call, Calls, States
  <2>3. calls' \subseteq Calls
    BY <1>0, <1>12, <2>1, <2>2 DEF Validate, Heartbeat, States
  <2>4. UNCHANGED <<db, disk, up, bans>>
    BY <1>12 DEF Validate, Heartbeat
  <2>5. CASE Validate(a)
    <3> DEFINE st == [s EXCEPT !.phase = "waiting"]
    <3>1. st \in States /\ st.issued = s.issued
      BY <2>1 DEF States
    <3>2. agent' = [agent EXCEPT ![a] = st]
      BY <2>5 DEF Validate
    <3> HIDE DEF st
    <3>3. st.issued <= bans
      BY <2>1, <3>1
    <3> QED BY <1>12, <2>3, <2>4, <3>1, <3>2, <3>3, AgentSteps
  <2>6. CASE Heartbeat(a)
    <3> DEFINE st == [s EXCEPT !.phase = "waiting", !.recent = {}]
    <3>1. st \in States /\ st.issued = s.issued
      BY <2>1 DEF States
    <3>2. agent' = [agent EXCEPT ![a] = st]
      BY <1>0, <2>6 DEF Heartbeat
    <3> HIDE DEF st
    <3>3. st.issued <= bans
      BY <2>1, <3>1
    <3> QED BY <1>12, <2>3, <2>4, <3>1, <3>2, <3>3, AgentSteps
  <2> QED BY <1>12, <2>5, <2>6
<1>13. ASSUME NEW c \in calls, Answer(c) PROVE TypeInv'
  <2> DEFINE a == c.from
             s == agent[a]
             st == [ApplyLicense(s, c) EXCEPT !.phase = "idle", !.policy = Apply(@, c.policy)]
             n == IF c.blocks = NoList THEN st
                  ELSE [BanFleet(st, c.blocks.ips) EXCEPT !.blocks = c.blocks]
  <2>1. c \in Calls /\ a \in Agents /\ s \in States /\ s.issued <= bans
    BY <1>0 DEF Calls
  <2>2. Apply(s.policy, c.policy) \in Policies
    BY <2>1 DEF Apply, Calls, States
  <2>3. /\ ApplyLicense(s, c) \in States /\ ApplyLicense(s, c).policy = s.policy
        /\ ApplyLicense(s, c).issued = s.issued
    BY <2>1 DEF ApplyLicense, Calls, States
  <2>4. st \in States /\ st.issued = s.issued
    BY <2>2, <2>3 DEF States
  <2>5. c.blocks # NoList => c.blocks.ips \in SUBSET IPs /\ c.blocks \in Lists
    BY <2>1 DEF Calls, Lists
  <2>6. agent' = [agent EXCEPT ![a] = n] /\ calls' \subseteq Calls /\ UNCHANGED <<db, disk, up, bans>>
    BY <1>0, <1>13 DEF Answer
  <2> HIDE DEF st
  <2>7. n \in States /\ n.issued = s.issued
    BY <2>4, <2>5 DEF BanFleet, States
  <2> HIDE DEF n
  <2> QED BY <2>1, <2>6, <2>7, AgentSteps
<1>14. ASSUME NEW a \in Agents, Fail(a) PROVE TypeInv'
  <2>1. calls' \subseteq Calls
    BY <1>14, AbandonedTypes DEF Fail
  <2> DEFINE st == [agent[a] EXCEPT !.phase = "idle"]
  <2>2. st \in States /\ st.issued <= bans
    BY <1>0, <1>14 DEF States
  <2>3. agent' = [agent EXCEPT ![a] = st] /\ UNCHANGED <<db, disk, up, bans>>
    BY <1>14 DEF Fail
  <2> HIDE DEF st
  <2> QED BY <1>14, <2>1, <2>2, <2>3, AgentSteps
<1>15. ASSUME NEW c \in calls, DropAnswer(c) PROVE TypeInv'
  BY <1>0, <1>15, <1>c DEF DropAnswer
<1>16. ASSUME NEW a \in Agents, NEW ip \in IPs, LocalBan(a, ip) PROVE TypeInv'
  <2>1. bans' = bans + 1 /\ bans' \in 0..MaxBans /\ UNCHANGED <<db, disk, up, calls>>
    BY <1>0, <1>16, BoundAssumption DEF LocalBan
  <2> DEFINE s == agent[a]
             st == [s EXCEPT !.local = @ \cup {ip}, !.recent = @ \cup {ip}, !.issued = @ + 1]
  <2>2. s \in States /\ s.issued + 1 \in 0..MaxBans /\ s.issued + 1 <= bans'
    BY <1>0, <1>16, <2>1, BoundAssumption DEF States
  <2>3. st \in States /\ st.issued <= bans'
    BY <1>16, <2>2 DEF States
  <2>4. agent' = [agent EXCEPT ![a] = st]
    BY <1>0, <1>16 DEF LocalBan
  <2>5. bans <= bans' /\ Stored(db') /\ Stored(disk') /\ up' \in BOOLEAN /\ calls' \subseteq Calls
    BY <1>0, <2>1
  <2> HIDE DEF st
  <2> QED BY <1>0, <1>16, <2>1, <2>3, <2>4, <2>5, AgentMoves
<1>17. ASSUME NEW a \in Agents, Restart(a) PROVE TypeInv'
  <2>1. calls' \subseteq Calls
    BY <1>17, AbandonedTypes DEF Restart
  <2>2. PICK kept \in SUBSET IPs : agent' = [agent EXCEPT ![a] = Fresh(kept)]
    BY <1>0, <1>17 DEF Restart, States
  <2>3. UNCHANGED <<db, disk, up, bans>>
    BY <1>17 DEF Restart
  <2>4. Fresh(kept) \in States /\ Fresh(kept).issued <= bans
    BY <1>0, <2>2, FreshTypes
  <2> QED BY <1>17, <2>1, <2>2, <2>3, <2>4, AgentSteps
<1>18. CASE UNCHANGED vars
  BY <1>0, <1>18 DEF vars, TypeInv
<1> QED BY <1>1, <1>2, <1>3, <1>4, <1>5, <1>6, <1>7, <1>8, <1>9, <1>10, <1>11, <1>12,
           <1>13, <1>14, <1>15, <1>16, <1>17, <1>18 DEF Next, Handle

LEMMA PastInit == Init => PastInv
BY DEF Init, PastInv, History

LEMMA PastStep == PastInv /\ [Next]_vars => PastInv'
<1> SUFFICES ASSUME PastInv, [Next]_vars PROVE PastInv'
  OBVIOUS
<1>1. ASSUME NEW a \in Agents, Revoke(a) PROVE PastInv'
  BY <1>1 DEF PastInv, History, Revoke
<1>2. CASE Open
  BY <1>2 DEF PastInv, History, Open
<1>3. CASE UNCHANGED past
  BY <1>3 DEF PastInv
<1> QED BY <1>1, <1>2, <1>3
  DEF Next, vars, Generate, SetPolicy, Validate, Heartbeat, Fail, Restart, LocalBan, Handle,
      HandleValidate, HandleRecord, HandleIngest, HandlePolicy, HandleFleet, Answer,
      DropAnswer, Expire, Crash

\* Every variable keeps its type, whatever is lost, late, not written or crashes.
THEOREM TypeCorrect == Spec => []TypeOK
BY TypeInit, TypeStep, PastInit, PastStep, TypeInvTypes, PTL DEF Spec

----------------------------------------------------------------------------
(* What the agents believe.  The file may be behind the memory, so a server  *)
(* that comes back after a crash may know less than it told: what was handed *)
(* out is compared with both.                                               *)

\* Document p is not newer than the pushed one, and as new only if it is that.
Names(p, pushed) == p.ver <= pushed.ver /\ (p.ver = pushed.ver => p = pushed)

\* List l is not newer than d's, and as new only if it has all of it: what is
\* about to be swept too, for it may be reported again under the same version.
Has(l, d) == l # NoList /\ l.ver = d.fver => Listed(d) \subseteq l.ips
Covers(l, d) == (l # NoList => l.ver <= d.fver) /\ Has(l, d)

\* p, handed out to a, names what memory d says, and file k where it is as new.
SoundPolicy(p, a, h, d, k) ==
    a \notin h.reused => Names(p, d.policy[a]) /\ (p.ver = k.policy[a].ver => p = k.policy[a])

SoundList(l, h, d, k) == ~h.relisted => Covers(l, d) /\ Has(l, k)

SoundCall(c, h, d, k) ==
    /\ c.ok => d.key[c.from] # "none"
    /\ SoundPolicy(c.policy, c.from, h, d, k)
    /\ SoundList(c.blocks, h, d, k)

SoundAgent(st, a, h, d, k) ==
    /\ st.licensed => st.vouched /\ d.key[a] # "none"
    /\ SoundPolicy(st.policy, a, h, d, k)
    /\ SoundList(st.blocks, h, d, k)

Capped(d) == FleetMax > 0 => Cardinality(Listed(d)) <= FleetMax

\* Whoever has a key in d has one in e.
Issued(d, e) == \A a \in Agents : d.key[a] # "none" => e.key[a] # "none"

\* How the memory changes: keys stay issued, a policy that changes gets a higher
\* version, and so does a list that changes.
Grows(d, e) ==
    /\ Issued(d, e)
    /\ \A a \in Agents : e.policy[a] = d.policy[a] \/ e.policy[a].ver > d.policy[a].ver
    /\ e.fver >= d.fver
    /\ e.fver = d.fver => Listed(e) = Listed(d)

\* Databases that differ in what has expired only.
Alike(d, e) ==
    e.key = d.key /\ e.policy = d.policy /\ e.fver = d.fver /\ Listed(e) = Listed(d)

\* Memory d and file k become e and f: what is new in the memory is written, or
\* it is not, and then the file stays, and no key is new.
Moves(d, k, e, f) ==
    /\ Grows(d, e) /\ (Capped(d) => Capped(e))
    /\ f = e \/ (Alike(k, f) /\ Issued(e, d))

CallsSound == \A c \in calls : SoundCall(c, past, db, disk)
AgentsSound == \A a \in Agents : SoundAgent(agent[a], a, past, db, disk)

\* The inductive invariant.
FleetInv ==
    /\ TypeInv /\ PastInv
    /\ Capped(db) /\ Capped(disk)
    /\ Grows(disk, db) /\ Issued(db, disk)
    /\ \A a \in Agents : Names(NoDoc, db.policy[a]) /\ Names(NoDoc, disk.policy[a])
    /\ AgentsSound /\ CallsSound

LEMMA FleetInvFollows == FleetInv => FailClosed /\ PolicyVersionNames /\ BlocklistSound
<1> SUFFICES ASSUME FleetInv PROVE FailClosed /\ PolicyVersionNames /\ BlocklistSound
  OBVIOUS
<1>1. FailClosed /\ PolicyVersionNames
  BY DEF FleetInv, AgentsSound, SoundAgent, SoundPolicy, Names, FailClosed, PolicyVersionNames
<1>2. BlocklistSound
  BY DEF FleetInv, AgentsSound, SoundAgent, SoundList, Covers, Has, Capped, BlocklistSound, Listed
<1> QED BY <1>1, <1>2

LEMMA StoredTypes ==
    ASSUME NEW d, Stored(d)
    PROVE  /\ d.fver \in Nat /\ d.live \in SUBSET IPs /\ d.dead \in SUBSET IPs
           /\ \A a \in Agents : d.policy[a] \in Policies /\ d.policy[a].ver \in Nat
BY BoundAssumption DEF Stored, Database, Policies

LEMMA GrowsNot == ASSUME NEW d, Stored(d) PROVE Grows(d, d)
BY StoredTypes DEF Grows, Issued

\* Growing is transitive, from a file that stays as it is too.
LEMMA GrowsOn ==
    ASSUME NEW k, NEW d, NEW e, NEW f, Stored(k), Stored(d), Stored(e), Stored(f),
           Grows(k, d), Issued(d, k), Moves(d, k, e, f)
    PROVE  Grows(f, e) /\ Issued(e, f)
<1>1. CASE f = e
  BY <1>1, GrowsNot DEF Issued
<1>2. CASE Alike(k, f) /\ Issued(e, d)
  <2>1. /\ k.fver \in Nat /\ d.fver \in Nat /\ e.fver \in Nat /\ f.fver \in Nat
        /\ \A a \in Agents : /\ k.policy[a].ver \in Nat /\ d.policy[a].ver \in Nat
                             /\ e.policy[a].ver \in Nat
    BY StoredTypes
  <2>2. /\ f.key = k.key /\ f.policy = k.policy /\ f.fver = k.fver /\ Listed(f) = Listed(k)
    BY <1>2 DEF Alike
  <2>3. Grows(d, e)
    BY DEF Moves
  <2>4. Issued(f, e) /\ Issued(e, f)
    BY <1>2, <2>2, <2>3 DEF Issued, Grows
  <2>5. ASSUME NEW a \in Agents
        PROVE  e.policy[a] = f.policy[a] \/ e.policy[a].ver > f.policy[a].ver
    <3>1. /\ d.policy[a] = k.policy[a] \/ d.policy[a].ver > k.policy[a].ver
          /\ e.policy[a] = d.policy[a] \/ e.policy[a].ver > d.policy[a].ver
      BY <2>3 DEF Grows
    <3> QED BY <2>1, <2>2, <3>1
  <2>6. e.fver >= f.fver /\ (e.fver = f.fver => Listed(e) = Listed(f))
    BY <2>1, <2>2, <2>3 DEF Grows
  <2> QED BY <2>4, <2>5, <2>6 DEF Grows
<1> QED BY <1>1, <1>2 DEF Moves

\* A blocklist that loses entries, or moves some of them, stays under the cap.
LEMMA FewerCapped ==
    ASSUME NEW d, NEW e, Stored(d), Listed(e) \subseteq Listed(d), Capped(d)
    PROVE  Capped(e)
<1>1. Listed(d) \in SUBSET IPs
  BY StoredTypes DEF Listed
<1>2. IsFiniteSet(Listed(d))
  BY <1>1, FiniteAssumption, FS_Subset
<1>3. /\ Cardinality(Listed(e)) <= Cardinality(Listed(d))
      /\ Cardinality(Listed(e)) \in Nat /\ Cardinality(Listed(d)) \in Nat
  BY <1>2, FS_Subset, FS_CardinalityType
<1> QED BY <1>3, BoundAssumption DEF Capped

\* AddFleetBans evicts what is over the cap, and an unchanged version means
\* that there was nothing new.
LEMMA AddFleetBansGrows ==
    ASSUME NEW d, Stored(d), NEW ips \in SUBSET IPs, NEW e \in AddFleetBans(d, ips)
    PROVE  Grows(d, e) /\ Issued(e, d) /\ Capped(e)
<1> DEFINE S == Listed(d) \cup ips
<1>0. /\ d.fver \in Nat /\ d.live \in SUBSET IPs /\ d.dead \in SUBSET IPs /\ d \in Database
      /\ \A a \in Agents : d.policy[a].ver \in Nat
  BY StoredTypes DEF Stored
<1>1. PICK E \in Evictions(d.live \cup ips, d.dead \ ips) :
         e = [d EXCEPT !.live = (@ \cup ips) \ E, !.dead = (@ \ ips) \ E,
                       !.fver = FleetVersion(d, ips, E)]
  BY DEF AddFleetBans
<1>2. /\ e.key = d.key /\ e.policy = d.policy /\ e.fver = FleetVersion(d, ips, E)
      /\ e.live = (d.live \cup ips) \ E /\ e.dead = (d.dead \ ips) \ E
  BY <1>0, <1>1 DEF Database
<1>3. (d.live \cup ips) \cup (d.dead \ ips) = S
  BY DEF Listed
<1>4. E \in SUBSET S /\ Cardinality(E) = Excess(S)
  BY <1>3 DEF Evictions
<1>5. Listed(e) = S \ E
  BY <1>2 DEF Listed
<1>6. e.fver >= d.fver /\ (e.fver = d.fver => Listed(e) = Listed(d))
  BY <1>0, <1>2, <1>5 DEF FleetVersion
<1>7. Capped(e)
  <2>1. S \in SUBSET IPs /\ S \cap E = E
    BY <1>0, <1>4 DEF Listed
  <2>2. IsFiniteSet(S)
    BY <2>1, FiniteAssumption, FS_Subset
  <2>3. Cardinality(S \ E) = Cardinality(S) - Cardinality(E) /\ Cardinality(S) \in Nat
    BY <2>1, <2>2, FS_Difference, FS_CardinalityType
  <2>4. FleetMax \in Nat
    BY BoundAssumption
  <2> HIDE DEF S
  <2> QED BY <1>4, <1>5, <2>3, <2>4 DEF Capped, Excess
<1> HIDE DEF S
<1> QED BY <1>0, <1>2, <1>6, <1>7 DEF Grows, Issued

\* The sweep raises the version and drops what has expired.
LEMMA SweptGrows ==
    ASSUME NEW d, Stored(d)
    PROVE  Grows(d, Swept(d)) /\ Issued(Swept(d), d) /\ (Capped(d) => Capped(Swept(d)))
<1>0. d \in Database /\ d.fver \in Nat
  BY StoredTypes DEF Stored
<1>1. CASE d.dead = {}
  BY <1>1, GrowsNot DEF Swept, Issued
<1>2. CASE d.dead # {}
  <2>1. /\ Swept(d).key = d.key /\ Swept(d).policy = d.policy
        /\ Swept(d).fver = d.fver + 1
        /\ Swept(d).live = d.live /\ Swept(d).dead = {}
    BY <1>0, <1>2 DEF Swept, Database
  <2>2. Listed(Swept(d)) \subseteq Listed(d)
    BY <2>1 DEF Listed
  <2>3. Capped(d) => Capped(Swept(d))
    BY <2>2, FewerCapped
  <2> QED BY <1>0, <2>1, <2>3 DEF Grows, Issued
<1> QED BY <1>1, <1>2

\* An entry that expires is still listed.
LEMMA AgedAlike == ASSUME NEW d, Stored(d), NEW ip \in IPs PROVE Alike(d, Aged(d, ip))
<1> DEFINE e == [d EXCEPT !.live = @ \ {ip}, !.dead = @ \cup {ip}]
<1>1. /\ e.key = d.key /\ e.policy = d.policy /\ e.fver = d.fver
      /\ e.live = d.live \ {ip} /\ e.dead = d.dead \cup {ip}
  BY DEF Stored, Database
<1>2. Aged(d, ip) = IF ip \in d.live THEN e ELSE d
  BY DEF Aged
<1> HIDE DEF e
<1> QED BY <1>1, <1>2 DEF Alike, Listed

LEMMA AlikeMoves ==
    ASSUME NEW d, NEW e, NEW k, NEW f, Stored(d), Alike(d, e), Alike(k, f)
    PROVE  Moves(d, k, e, f)
<1>1. /\ e.key = d.key /\ e.policy = d.policy /\ e.fver = d.fver /\ Listed(e) = Listed(d)
      /\ d.fver \in Nat
  BY StoredTypes DEF Alike
<1>2. Grows(d, e) /\ Issued(e, d)
  BY <1>1 DEF Grows, Issued
<1>3. Capped(d) => Capped(e)
  BY <1>1 DEF Capped
<1> QED BY <1>2, <1>3 DEF Moves

\* The memory grows by every step but that of a server that starts.
LEMMA StoreStep ==
    ASSUME TypeInv, [Next]_vars, ~Open
    PROVE  Moves(db, disk, db', disk')
<1>0. Stored(db) /\ Stored(disk) /\ calls \subseteq Calls
  BY DEF TypeInv
<1>t. /\ db.fver \in Nat /\ db.live \in SUBSET IPs /\ db.dead \in SUBSET IPs /\ db \in Database
      /\ \A a \in Agents : db.policy[a].ver \in Nat
  BY <1>0, StoredTypes DEF Stored
<1>a. Alike(db, db) /\ Alike(disk, disk)
  BY DEF Alike
<1>s. ASSUME NEW d, Save(d), Grows(db, d), Issued(d, db), Capped(db) => Capped(d)
      PROVE  Moves(db, disk, db', disk')
  BY <1>s, <1>a DEF Save, Moves
<1>u. ASSUME UNCHANGED <<db, disk>> PROVE Moves(db, disk, db', disk')
  BY <1>0, <1>a, <1>u, AlikeMoves
<1>m. ASSUME NEW d, d.fver = db.fver, d.live = db.live, d.dead = db.dead, Issued(db, d),
             \A a \in Agents : d.policy[a] = db.policy[a] \/ d.policy[a].ver > db.policy[a].ver
      PROVE  Grows(db, d) /\ (Capped(db) => Capped(d))
  BY <1>t, <1>m DEF Grows, Listed, Capped
<1>1. ASSUME NEW a \in Agents, Generate(a) \/ Revoke(a) PROVE Moves(db, disk, db', disk')
  <2>1. PICK k \in {"valid", "revoked"} :
           /\ db' = [db EXCEPT !.key[a] = k]
           /\ disk' = db' \/ (disk' = disk /\ db.key[a] # "none")
    BY <1>1 DEF Generate, Revoke, Save
  <2> DEFINE d == [db EXCEPT !.key[a] = k]
  <2>2. /\ d.fver = db.fver /\ d.live = db.live /\ d.dead = db.dead /\ d.policy = db.policy
        /\ \A x \in Agents : d.key[x] = IF x = a THEN k ELSE db.key[x]
    BY <1>t DEF Database
  <2>3. db' = d
    BY <2>1
  <2> HIDE DEF d
  <2>4. Issued(db, d) /\ (db.key[a] # "none" => Issued(d, db))
    BY <2>2 DEF Issued
  <2>5. Grows(db, d) /\ (Capped(db) => Capped(d))
    BY <1>m, <2>2, <2>4
  <2> QED BY <1>a, <2>1, <2>3, <2>4, <2>5 DEF Moves
<1>2. ASSUME NEW a \in Agents, SetPolicy(a) PROVE Moves(db, disk, db', disk')
  <2>1. PICK doc \in Docs : Save([db EXCEPT !.policy[a] = [ver |-> @.ver + 1, doc |-> doc]])
    BY <1>2 DEF SetPolicy
  <2> DEFINE q == [ver |-> db.policy[a].ver + 1, doc |-> doc]
             d == [db EXCEPT !.policy[a] = q]
  <2>2. /\ d.fver = db.fver /\ d.live = db.live /\ d.dead = db.dead /\ d.key = db.key
        /\ d.policy = [db.policy EXCEPT ![a] = q]
    BY <1>t DEF Database
  <2>3. \A x \in Agents : d.policy[x] = IF x = a THEN q ELSE db.policy[x]
    BY <1>t, <2>2 DEF Database
  <2>4. q.ver > db.policy[a].ver
    BY <1>t, <1>2
  <2>5. Save(d)
    BY <2>1
  <2> HIDE DEF d, q
  <2>6. \A x \in Agents : d.policy[x] = db.policy[x] \/ d.policy[x].ver > db.policy[x].ver
    BY <2>3, <2>4
  <2>7. Issued(db, d) /\ Issued(d, db)
    BY <2>2 DEF Issued
  <2> QED BY <1>s, <1>m, <2>2, <2>5, <2>6, <2>7
<1>3. ASSUME NEW ip \in IPs, Expire(ip) PROVE Moves(db, disk, db', disk')
  <2>1. disk' = Aged(disk, ip) /\ db' \in {db, Aged(db, ip)}
    BY <1>3 DEF Expire
  <2>2. Alike(db, db') /\ Alike(disk, disk')
    BY <1>0, <1>a, <2>1, AgedAlike
  <2> QED BY <1>0, <2>2, AlikeMoves
<1>4. ASSUME NEW c \in calls, HandleRecord(c) PROVE Moves(db, disk, db', disk')
  <2>1. PICK n : Save([db EXCEPT !.status[c.from] = n])
    BY <1>4 DEF HandleRecord
  <2> DEFINE d == [db EXCEPT !.status[c.from] = n]
  <2>2. /\ d.fver = db.fver /\ d.live = db.live /\ d.dead = db.dead
        /\ d.policy = db.policy /\ d.key = db.key
    BY <1>t DEF Database
  <2>3. Save(d)
    BY <2>1
  <2> HIDE DEF d
  <2>4. Issued(db, d) /\ Issued(d, db)
    BY <2>2 DEF Issued
  <2> QED BY <1>s, <1>m, <2>2, <2>3, <2>4
<1>5. ASSUME NEW c \in calls, HandleIngest(c) PROVE Moves(db, disk, db', disk')
  <2>1. c.recent \in SUBSET IPs
    BY <1>0 DEF Calls
  <2>2. CASE c.recent = {}
    BY <1>5, <1>u, <2>2 DEF HandleIngest
  <2>3. CASE c.recent # {}
    <3>1. PICK d \in AddFleetBans(db, c.recent) : Save(d)
      BY <1>5, <2>3 DEF HandleIngest
    <3> QED BY <1>0, <1>s, <2>1, <3>1, AddFleetBansGrows
  <2> QED BY <2>2, <2>3
<1>6. ASSUME NEW c \in calls, HandleFleet(c) PROVE Moves(db, disk, db', disk')
  <2>1. IF Swept(db) = db THEN UNCHANGED <<db, disk>> ELSE Save(Swept(db))
    BY <1>6 DEF HandleFleet
  <2>2. CASE Swept(db) = db
    BY <1>u, <2>1, <2>2
  <2>3. CASE Swept(db) # db
    BY <1>0, <1>s, <2>1, <2>3, SweptGrows
  <2> QED BY <2>2, <2>3
<1>7. ASSUME NEW c \in calls,
             HandleValidate(c) \/ HandlePolicy(c) \/ Answer(c) \/ DropAnswer(c)
      PROVE  Moves(db, disk, db', disk')
  BY <1>7, <1>u DEF HandleValidate, HandlePolicy, Answer, DropAnswer
<1>8. ASSUME NEW a \in Agents, Validate(a) \/ Heartbeat(a) \/ Fail(a) \/ Restart(a)
                               \/ \E ip \in IPs : LocalBan(a, ip)
      PROVE  Moves(db, disk, db', disk')
  BY <1>8, <1>u DEF Validate, Heartbeat, Fail, Restart, LocalBan
<1>9. CASE Crash \/ UNCHANGED vars
  BY <1>9, <1>u DEF Crash, vars
<1> QED BY <1>1, <1>2, <1>3, <1>4, <1>5, <1>6, <1>7, <1>8, <1>9 DEF Next, Handle

\* What was sound stays sound as the store moves on.
LEMMA PolicyKept ==
    ASSUME NEW a \in Agents, NEW p \in Policies, NEW h, NEW g, g.reused = h.reused,
           NEW d, NEW k, NEW e, NEW f, Stored(d), Stored(k), Stored(e),
           Moves(d, k, e, f), SoundPolicy(p, a, h, d, k)
    PROVE  SoundPolicy(p, a, g, e, f)
<1>1. p.ver \in Nat /\ d.policy[a].ver \in Nat /\ e.policy[a].ver \in Nat
  BY StoredTypes, BoundAssumption DEF Policies
<1>2. e.policy[a] = d.policy[a] \/ e.policy[a].ver > d.policy[a].ver
  BY DEF Moves, Grows
<1>3. Names(p, d.policy[a]) => Names(p, e.policy[a])
  BY <1>1, <1>2 DEF Names
<1>4. f.policy[a] = e.policy[a] \/ f.policy[a] = k.policy[a]
  BY DEF Moves, Alike
<1> QED BY <1>3, <1>4 DEF SoundPolicy, Names

LEMMA ListKept ==
    ASSUME NEW l \in Lists, NEW h, NEW g, g.relisted = h.relisted,
           NEW d, NEW k, NEW e, NEW f, Stored(d), Stored(e), Moves(d, k, e, f),
           SoundList(l, h, d, k)
    PROVE  SoundList(l, g, e, f)
<1>1. l.ver \in Nat /\ d.fver \in Nat /\ e.fver \in Nat
  BY ListTypes, StoredTypes
<1>2. Covers(l, d) => Covers(l, e)
  BY <1>1 DEF Covers, Has, Moves, Grows
<1>3. f = e \/ (Has(l, k) => Has(l, f))
  BY DEF Moves, Alike, Has
<1> QED BY <1>2, <1>3 DEF SoundList, Covers

LEMMA AgentKept ==
    ASSUME NEW a \in Agents, NEW st \in States, NEW h, NEW g, g.reused = h.reused,
           g.relisted = h.relisted, NEW d, NEW k, NEW e, NEW f,
           Stored(d), Stored(k), Stored(e), Moves(d, k, e, f), SoundAgent(st, a, h, d, k)
    PROVE  SoundAgent(st, a, g, e, f)
<1>1. st.policy \in Policies /\ st.blocks \in Lists
  BY DEF States
<1>2. SoundPolicy(st.policy, a, g, e, f)
  BY <1>1, PolicyKept DEF SoundAgent
<1>3. SoundList(st.blocks, g, e, f)
  BY <1>1, ListKept DEF SoundAgent
<1> QED BY <1>2, <1>3 DEF SoundAgent, Moves, Grows, Issued

LEMMA CallKept ==
    ASSUME NEW c, NEW o \in Calls, c.from = o.from, c.ok = o.ok, c.policy = o.policy,
           c.blocks = o.blocks, NEW h, NEW g, g.reused = h.reused, g.relisted = h.relisted,
           NEW d, NEW k, NEW e, NEW f, Stored(d), Stored(k), Stored(e),
           Moves(d, k, e, f), SoundCall(o, h, d, k)
    PROVE  SoundCall(c, g, e, f)
<1>1. o.from \in Agents /\ o.policy \in Policies /\ o.blocks \in Lists
  BY DEF Calls
<1>2. SoundPolicy(o.policy, o.from, g, e, f)
  BY <1>1, PolicyKept DEF SoundCall
<1>3. SoundList(o.blocks, g, e, f)
  BY <1>1, ListKept DEF SoundCall
<1> QED BY <1>1, <1>2, <1>3 DEF SoundCall, Moves, Grows, Issued

\* Where nothing has been handed out yet.
LEMMA NothingSound ==
    ASSUME NEW a \in Agents, NEW h, NEW d, NEW k,
           Names(NoDoc, d.policy[a]), Names(NoDoc, k.policy[a])
    PROVE  SoundPolicy(NoDoc, a, h, d, k) /\ SoundList(NoList, h, d, k)
BY DEF SoundPolicy, SoundList, Names, Covers, Has

\* Only a server that starts is taken down as behind.
LEMMA PastGoesOn ==
    ASSUME PastInv, [Next]_vars, ~Open
    PROVE  past'.reused = past.reused /\ past'.relisted = past.relisted
<1>1. past \in History
  BY DEF PastInv
<1>2. ASSUME NEW a \in Agents, Revoke(a)
      PROVE  past'.reused = past.reused /\ past'.relisted = past.relisted
  BY <1>1, <1>2 DEF Revoke, History
<1>3. ASSUME NEW a \in Agents,
             Generate(a) \/ SetPolicy(a) \/ Validate(a) \/ Heartbeat(a) \/ Fail(a)
             \/ Restart(a) \/ \E ip \in IPs : LocalBan(a, ip)
      PROVE  past' = past
  BY <1>3 DEF Generate, SetPolicy, Validate, Heartbeat, Fail, Restart, LocalBan
<1>4. ASSUME NEW c \in calls, Handle(c) \/ Answer(c) \/ DropAnswer(c) PROVE past' = past
  BY <1>4 DEF Handle, HandleValidate, HandleRecord, HandleIngest, HandlePolicy, HandleFleet,
              Answer, DropAnswer
<1>5. CASE Crash \/ UNCHANGED vars \/ \E ip \in IPs : Expire(ip)
  BY <1>5 DEF Crash, Expire, vars
<1> QED BY <1>2, <1>3, <1>4, <1>5 DEF Next

\* What a step that is not the server's start supposes and leaves.
Onward ==
    /\ FleetInv /\ TypeInv' /\ Moves(db, disk, db', disk')
    /\ past'.reused = past.reused /\ past'.relisted = past.relisted
    /\ Grows(disk', db')

\* Every call that a step leaves is sound.
LEMMA CallsStep ==
    ASSUME Onward, [Next]_vars, ~Open
    PROVE  CallsSound'
<1>0. /\ calls \subseteq Calls /\ Stored(db) /\ Stored(disk) /\ Stored(db') /\ Stored(disk')
      /\ \A c \in calls : SoundCall(c, past, db, disk)
      /\ \A a \in Agents : Names(NoDoc, db.policy[a]) /\ Names(NoDoc, disk.policy[a])
  BY DEF Onward, FleetInv, TypeInv, AgentsSound, CallsSound
<1>g. /\ Moves(db, disk, db', disk') /\ Grows(disk', db')
      /\ past'.reused = past.reused /\ past'.relisted = past.relisted
  BY DEF Onward
<1>k. ASSUME NEW c, NEW o \in calls, c.from = o.from, c.ok = o.ok, c.policy = o.policy,
             c.blocks = o.blocks
      PROVE  SoundCall(c, past', db', disk')
  <2>1. o \in Calls /\ SoundCall(o, past, db, disk)
    BY <1>0
  <2> QED BY <1>0, <1>g, <1>k, <2>1, CallKept
<1>a. ASSUME calls' \subseteq calls PROVE CallsSound'
  BY <1>a, <1>k DEF CallsSound
<1>n. ASSUME NEW o \in calls, NEW n, Becomes(o, n), SoundCall(n, past', db', disk')
      PROVE  CallsSound'
  BY <1>k, <1>n DEF Becomes, CallsSound
<1>1. ASSUME NEW o \in calls, HandleValidate(o) PROVE CallsSound'
  <2>1. db' = db /\ o \in Calls /\ o.from \in Agents
    BY <1>0, <1>1 DEF HandleValidate, Calls
  <2>2. CASE KeyOK(o.from)
    <3>1. PICK at : Becomes(o, [o EXCEPT !.ok = TRUE, !.at = at])
      BY <1>1, <2>2 DEF HandleValidate
    <3> DEFINE n == [o EXCEPT !.ok = TRUE, !.at = at]
    <3>2. n.from = o.from /\ n.policy = o.policy /\ n.blocks = o.blocks
      BY <2>1 DEF Calls
    <3>3. SoundCall(o, past', db', disk') /\ db'.key[o.from] # "none"
      BY <1>k, <2>1, <2>2 DEF KeyOK
    <3> HIDE DEF n
    <3>4. SoundCall(n, past', db', disk')
      BY <3>2, <3>3 DEF SoundCall
    <3> QED BY <1>n, <3>1, <3>4 DEF n
  <2>3. CASE ~KeyOK(o.from)
    <3> DEFINE n == [o EXCEPT !.at = "reply"]
    <3>1. Becomes(o, n)
      BY <1>1, <2>3 DEF HandleValidate
    <3>2. n.from = o.from /\ n.policy = o.policy /\ n.blocks = o.blocks /\ n.ok = o.ok
      BY <2>1 DEF Calls
    <3> HIDE DEF n
    <3> QED BY <1>k, <1>n, <3>1, <3>2
  <2> QED BY <2>2, <2>3
<1>2. ASSUME NEW o \in calls, HandleRecord(o) \/ HandleIngest(o)
      PROVE  CallsSound'
  <2>1. PICK req \in {o} \cup Decoded(o), at \in {"ingest", "policy"} : Becomes(o, [req EXCEPT !.at = at])
    BY <1>2 DEF HandleRecord, HandleIngest
  <2> DEFINE n == [req EXCEPT !.at = at]
  <2>0. /\ req \in Calls /\ req.from = o.from /\ req.policy = o.policy
        /\ req.blocks = o.blocks /\ req.ok = o.ok
    BY <1>0, DecodedTypes
  <2>2. n.from = o.from /\ n.policy = o.policy /\ n.blocks = o.blocks /\ n.ok = o.ok
    BY <2>0 DEF Calls
  <2>3. Becomes(o, n)
    BY <2>1
  <2> HIDE DEF n
  <2> QED BY <1>k, <1>n, <2>2, <2>3
<1>3. ASSUME NEW o \in calls, HandlePolicy(o) PROVE CallsSound'
  <2>1. db' = db /\ disk' = disk /\ o \in Calls /\ o.from \in Agents
    BY <1>0, <1>3 DEF HandlePolicy, Calls
  <2>2. PICK p \in {NoDoc, db.policy[o.from]}, at \in {"reply", "fleet"} :
           Becomes(o, [o EXCEPT !.policy = p, !.at = at])
    BY <1>3 DEF HandlePolicy
  <2> DEFINE n == [o EXCEPT !.policy = p, !.at = at]
  <2>3. n.from = o.from /\ n.ok = o.ok /\ n.policy = p /\ n.blocks = o.blocks
    BY <2>1 DEF Calls
  <2>4. /\ db.policy[o.from].ver \in Nat /\ disk.policy[o.from].ver \in Nat
        /\ Names(NoDoc, db.policy[o.from]) /\ Names(NoDoc, disk.policy[o.from])
    BY <1>0, <2>1, StoredTypes
  <2>5. SoundPolicy(p, o.from, past', db', disk')
    <3>1. CASE p = NoDoc
      BY <2>1, <2>4, <3>1 DEF SoundPolicy, Names
    <3>2. CASE p = db.policy[o.from]
      <4>1. \/ db.policy[o.from] = disk.policy[o.from]
            \/ db.policy[o.from].ver > disk.policy[o.from].ver
        BY <1>g, <2>1 DEF Grows
      <4> QED BY <2>1, <2>4, <3>2, <4>1 DEF SoundPolicy, Names
    <3> QED BY <2>2, <3>1, <3>2
  <2>6. Becomes(o, n) /\ SoundCall(o, past', db', disk')
    BY <1>k, <2>2
  <2> HIDE DEF n
  <2>7. SoundCall(n, past', db', disk')
    BY <2>3, <2>5, <2>6 DEF SoundCall
  <2> QED BY <1>n, <2>6, <2>7
<1>4. ASSUME NEW o \in calls, HandleFleet(o) PROVE CallsSound'
  <2> DEFINE d == Swept(db)
  <2>1. o \in Calls /\ o.from \in Agents /\ d.dead = {} /\ Stored(d)
    BY <1>0, SweptTypes DEF Calls
  <2>2. db' = d
    BY <1>4 DEF HandleFleet, Save
  <2>3. PICK l \in {NoList, List(d)} : Becomes(o, [o EXCEPT !.blocks = l, !.at = "reply"])
    BY <1>4 DEF HandleFleet
  <2> HIDE DEF d
  <2> DEFINE n == [o EXCEPT !.blocks = l, !.at = "reply"]
  <2>4. n.from = o.from /\ n.ok = o.ok /\ n.policy = o.policy /\ n.blocks = l
    BY <2>1 DEF Calls
  <2>5. SoundList(l, past', db', disk')
    <3>1. CASE l = NoList
      BY <3>1 DEF SoundList, Covers, Has
    <3>2. CASE l = List(d)
      <4>1. l.ver = db'.fver /\ l.ips = Listed(db') /\ db'.fver \in Nat
        BY <1>0, <2>1, <2>2, <3>2, StoredTypes DEF List, Listed
      <4>2. db'.fver = disk'.fver => Listed(db') = Listed(disk')
        BY <1>g DEF Grows
      <4> QED BY <4>1, <4>2 DEF SoundList, Covers, Has
    <3> QED BY <2>3, <3>1, <3>2
  <2>6. SoundCall(o, past', db', disk') /\ Becomes(o, n)
    BY <1>k, <2>3
  <2> HIDE DEF n
  <2>7. SoundCall(n, past', db', disk')
    BY <2>4, <2>5, <2>6 DEF SoundCall
  <2> QED BY <1>n, <2>6, <2>7
<1>5. ASSUME NEW o \in calls, Answer(o) \/ DropAnswer(o)
      PROVE  CallsSound'
  BY <1>5, <1>a DEF Answer, DropAnswer
<1>6. ASSUME NEW a \in Agents, Validate(a) \/ Heartbeat(a)
      PROVE  CallsSound'
  <2>1. PICK kind, r : /\ calls' = calls \cup {Call(a, kind, r)}
                       /\ db' = db /\ disk' = disk
    BY <1>6 DEF Validate, Heartbeat
  <2>2. /\ Call(a, kind, r).from = a /\ ~Call(a, kind, r).ok
        /\ Call(a, kind, r).policy = NoDoc /\ Call(a, kind, r).blocks = NoList
    BY DEF Call
  <2>3. SoundCall(Call(a, kind, r), past', db', disk')
    BY <1>0, <1>6, <2>1, <2>2, NothingSound DEF SoundCall
  <2> QED BY <1>k, <1>6, <2>1, <2>3 DEF CallsSound
<1>7. ASSUME NEW a \in Agents, Fail(a) \/ Restart(a) PROVE CallsSound'
  <2>1. calls' \in Abandoned(a) /\ TypeInv
    BY <1>7 DEF Fail, Restart, Onward, FleetInv
  <2>2. ASSUME NEW c \in calls' PROVE SoundCall(c, past', db', disk')
    <3>1. PICK o \in calls : c = o \/ c = [o EXCEPT !.awaited = FALSE]
      BY <1>7, <2>1, AbandonedTypes
    <3>2. c.from = o.from /\ c.policy = o.policy /\ c.blocks = o.blocks /\ c.ok = o.ok
      BY <1>0, <3>1 DEF Calls
    <3> QED BY <1>k, <3>2
  <2> QED BY <2>2 DEF CallsSound
<1>8. ASSUME NEW a \in Agents,
             Generate(a) \/ Revoke(a) \/ SetPolicy(a) \/ \E ip \in IPs : LocalBan(a, ip)
      PROVE  CallsSound'
  BY <1>8, <1>a DEF Generate, Revoke, SetPolicy, LocalBan
<1>9. CASE Crash \/ UNCHANGED vars \/ \E ip \in IPs : Expire(ip)
  BY <1>9, <1>a DEF Crash, vars, Expire
<1> QED BY <1>1, <1>2, <1>3, <1>4, <1>5, <1>6, <1>7, <1>8, <1>9 DEF Next, Handle

\* Every agent is sound after a step.
LEMMA AgentsStep ==
    ASSUME Onward, [Next]_vars, ~Open
    PROVE  AgentsSound'
<1>0. /\ agent \in [Agents -> States] /\ calls \subseteq Calls
      /\ Stored(db) /\ Stored(disk) /\ Stored(db')
      /\ \A a \in Agents : /\ SoundAgent(agent[a], a, past, db, disk)
                           /\ Names(NoDoc, db.policy[a]) /\ Names(NoDoc, disk.policy[a])
      /\ \A c \in calls : SoundCall(c, past, db, disk)
  BY DEF Onward, FleetInv, TypeInv, AgentsSound, CallsSound
<1>g. /\ Moves(db, disk, db', disk')
      /\ past'.reused = past.reused /\ past'.relisted = past.relisted
  BY DEF Onward
<1>k. ASSUME NEW a \in Agents PROVE SoundAgent(agent[a], a, past', db', disk')
  <2>1. agent[a] \in States /\ SoundAgent(agent[a], a, past, db, disk)
    BY <1>0
  <2> QED BY <1>0, <1>g, <2>1, AgentKept
<1>u. ASSUME agent' = agent PROVE AgentsSound'
  BY <1>k, <1>u DEF AgentsSound
<1>n. ASSUME NEW a \in Agents, NEW st, agent' = [agent EXCEPT ![a] = st],
             SoundAgent(st, a, past', db', disk')
      PROVE  AgentsSound'
  BY <1>0, <1>k, <1>n DEF AgentsSound
<1>e. ASSUME NEW a \in Agents, NEW st, agent' = [agent EXCEPT ![a] = st],
             st.licensed = agent[a].licensed, st.vouched = agent[a].vouched,
             st.policy = agent[a].policy, st.blocks = agent[a].blocks
      PROVE  AgentsSound'
  <2>1. SoundAgent(st, a, past', db', disk')
    BY <1>k, <1>e DEF SoundAgent
  <2> QED BY <1>e, <1>n, <2>1
<1>1. ASSUME NEW a \in Agents, Validate(a) \/ Fail(a)
      PROVE  AgentsSound'
  <2> DEFINE s == agent[a]
  <2>1. PICK ph : agent' = [agent EXCEPT ![a] = [s EXCEPT !.phase = ph]]
    BY <1>1 DEF Validate, Fail
  <2> DEFINE st == [s EXCEPT !.phase = ph]
  <2>2. /\ st.licensed = s.licensed /\ st.vouched = s.vouched
        /\ st.policy = s.policy /\ st.blocks = s.blocks
    BY <1>0, <1>1 DEF States
  <2>3. agent' = [agent EXCEPT ![a] = st]
    BY <2>1
  <2> HIDE DEF st
  <2> QED BY <1>1, <1>e, <2>2, <2>3
<1>2. ASSUME NEW a \in Agents, Heartbeat(a)
      PROVE  AgentsSound'
  <2> DEFINE s == agent[a]
             st == [s EXCEPT !.phase = "waiting", !.recent = {}]
  <2>1. agent' = [agent EXCEPT ![a] = st]
    BY <1>0, <1>2 DEF Heartbeat
  <2>2. /\ st.licensed = s.licensed /\ st.vouched = s.vouched
        /\ st.policy = s.policy /\ st.blocks = s.blocks
    BY <1>0, <1>2 DEF States
  <2> HIDE DEF st
  <2> QED BY <1>2, <1>e, <2>1, <2>2
<1>3. ASSUME NEW a \in Agents, NEW ip \in IPs, LocalBan(a, ip)
      PROVE  AgentsSound'
  <2> DEFINE s == agent[a]
             st == [s EXCEPT !.local = @ \cup {ip}, !.recent = @ \cup {ip}, !.issued = @ + 1]
  <2>1. agent' = [agent EXCEPT ![a] = st]
    BY <1>0, <1>3 DEF LocalBan
  <2>2. /\ st.licensed = s.licensed /\ st.vouched = s.vouched
        /\ st.policy = s.policy /\ st.blocks = s.blocks
    BY <1>0, <1>3 DEF States
  <2> HIDE DEF st
  <2> QED BY <1>3, <1>e, <2>1, <2>2
<1>4. ASSUME NEW a \in Agents, Restart(a)
      PROVE  AgentsSound'
  <2>1. PICK kept : agent' = [agent EXCEPT ![a] = Fresh(kept)] /\ db' = db /\ disk' = disk
    BY <1>4 DEF Restart
  <2>2. SoundAgent(Fresh(kept), a, past', db', disk')
    BY <1>0, <1>4, <2>1, NothingSound DEF Fresh, SoundAgent
  <2> QED BY <1>4, <1>n, <2>1, <2>2
<1>5. ASSUME NEW c \in calls, Answer(c) PROVE AgentsSound'
  <2> DEFINE a == c.from
             s == agent[a]
             st == [ApplyLicense(s, c) EXCEPT !.phase = "idle", !.policy = Apply(@, c.policy)]
             n == IF c.blocks = NoList THEN st
                  ELSE [BanFleet(st, c.blocks.ips) EXCEPT !.blocks = c.blocks]
  <2>1. /\ a \in Agents /\ s \in States
        /\ SoundCall(c, past, db, disk) /\ SoundAgent(s, a, past, db, disk)
    BY <1>0 DEF Calls
  <2>2. agent' = [agent EXCEPT ![a] = n] /\ UNCHANGED <<db, disk, past>>
    BY <1>5 DEF Answer
  <2>3. /\ st.licensed = c.ok /\ st.vouched = (s.vouched \/ c.ok) /\ st.blocks = s.blocks
        /\ st.policy = Apply(s.policy, c.policy)
        /\ st = [s EXCEPT !.licensed = c.ok, !.vouched = @ \/ c.ok, !.phase = "idle",
                          !.policy = Apply(@, c.policy)]
    BY <2>1 DEF ApplyLicense, States
  <2>4. n.licensed = c.ok /\ n.vouched = (s.vouched \/ c.ok) /\ n.policy = Apply(s.policy, c.policy)
    BY <2>1, <2>3 DEF BanFleet, States
  <2>5. n.blocks = IF c.blocks = NoList THEN s.blocks ELSE c.blocks
    BY <2>1, <2>3 DEF BanFleet, States
  <2> HIDE DEF st
  <2> HIDE DEF n
  <2>6. n.licensed => n.vouched /\ db.key[a] # "none"
    BY <2>1, <2>4 DEF SoundCall
  <2>7. SoundPolicy(n.policy, a, past, db, disk)
    BY <2>1, <2>4 DEF Apply, SoundCall, SoundAgent
  <2>8. SoundList(n.blocks, past, db, disk)
    BY <2>1, <2>5 DEF SoundCall, SoundAgent
  <2>9. SoundAgent(n, a, past', db', disk')
    BY <2>2, <2>6, <2>7, <2>8 DEF SoundAgent
  <2> QED BY <1>n, <2>1, <2>2, <2>9
<1>6. ASSUME NEW a \in Agents, Generate(a) \/ Revoke(a) \/ SetPolicy(a)
      PROVE  AgentsSound'
  BY <1>6, <1>u DEF Generate, Revoke, SetPolicy
<1>7. ASSUME NEW c \in calls, Handle(c) \/ DropAnswer(c)
      PROVE  AgentsSound'
  BY <1>7, <1>u DEF Handle, HandleValidate, HandleRecord, HandleIngest, HandlePolicy,
                    HandleFleet, DropAnswer
<1>8. CASE Crash \/ UNCHANGED vars \/ \E ip \in IPs : Expire(ip)
  BY <1>8, <1>u DEF Crash, vars, Expire
<1> QED BY <1>1, <1>2, <1>3, <1>4, <1>5, <1>6, <1>7, <1>8 DEF Next

LEMMA FleetInit == Init => FleetInv
<1> SUFFICES ASSUME Init PROVE FleetInv
  OBVIOUS
<1>1. TypeInv /\ PastInv /\ Stored(db) /\ disk = db /\ calls = {}
  BY TypeInit, PastInit DEF Init, TypeInv
<1>2. Listed(db) = {} /\ \A a \in Agents : db.policy[a] = NoDoc
  BY DEF Init, Listed
<1>3. Capped(db)
  BY <1>2, FS_EmptySet, BoundAssumption DEF Capped
<1>4. Grows(disk, db) /\ Issued(db, disk)
  BY <1>1, GrowsNot DEF Issued
<1>5. \A a \in Agents : Names(NoDoc, db.policy[a])
  BY <1>2 DEF NoDoc, Names
<1>6. \A a \in Agents : agent[a] = Fresh({})
  BY DEF Init
<1>7. AgentsSound /\ CallsSound
  BY <1>1, <1>5, <1>6, NothingSound DEF Fresh, SoundAgent, AgentsSound, CallsSound
<1> QED BY <1>1, <1>3, <1>4, <1>5, <1>7 DEF FleetInv

\* A server that starts has what its file says: what it does not remember is in
\* the history, and no key that was used is forgotten.
LEMMA OpenStep == ASSUME FleetInv, TypeInv', Open PROVE AgentsSound' /\ CallsSound'
<1>0. /\ db' = disk /\ disk' = disk /\ agent' = agent /\ calls' = calls
      /\ past' = [past EXCEPT
            !.reused = @ \cup {a \in Agents : \E p \in HandedOut(a) : p.ver > disk.policy[a].ver},
            !.relisted = @ \/ \E l \in ListsOut : l.ver > disk.fver]
  BY DEF Open
<1>1. /\ agent \in [Agents -> States] /\ calls \subseteq Calls /\ Stored(disk)
      /\ Issued(db, disk) /\ AgentsSound /\ CallsSound /\ past \in History
  BY DEF FleetInv, TypeInv, PastInv
<1>2. /\ past'.reused = past.reused \cup
            {a \in Agents : \E p \in HandedOut(a) : p.ver > disk.policy[a].ver}
      /\ past'.relisted = (past.relisted \/ \E l \in ListsOut : l.ver > disk.fver)
  BY <1>0, <1>1 DEF History
<1>3. ASSUME NEW a \in Agents, NEW p \in HandedOut(a), p \in Policies,
             SoundPolicy(p, a, past, db, disk)
      PROVE  SoundPolicy(p, a, past', db', disk')
  <2>1. p.ver \in Nat /\ disk.policy[a].ver \in Nat
    BY <1>1, <1>3, StoredTypes, BoundAssumption DEF Policies
  <2>2. ASSUME a \notin past'.reused
        PROVE  p.ver <= disk.policy[a].ver /\ (p.ver = disk.policy[a].ver => p = disk.policy[a])
    <3>1. a \notin past.reused /\ ~(p.ver > disk.policy[a].ver)
      BY <1>2, <1>3, <2>2
    <3> QED BY <1>3, <2>1, <3>1 DEF SoundPolicy
  <2> QED BY <1>0, <2>2 DEF SoundPolicy, Names
<1>4. ASSUME NEW l \in ListsOut, l \in Lists, SoundList(l, past, db, disk)
      PROVE  SoundList(l, past', db', disk')
  <2>1. l.ver \in Nat /\ disk.fver \in Nat
    BY <1>1, <1>4, ListTypes, StoredTypes
  <2>2. ASSUME ~past'.relisted PROVE l.ver <= disk.fver /\ Has(l, disk)
    <3>1. ~past.relisted /\ ~(l.ver > disk.fver)
      BY <1>2, <1>4, <2>2
    <3> QED BY <1>4, <2>1, <3>1 DEF SoundList
  <2> QED BY <1>0, <2>2 DEF SoundList, Covers
<1>5. ASSUME NEW a \in Agents PROVE SoundAgent(agent'[a], a, past', db', disk')
  <2>1. /\ agent[a].policy \in Policies /\ agent[a].blocks \in Lists
        /\ SoundAgent(agent[a], a, past, db, disk)
    BY <1>1 DEF States, AgentsSound
  <2>2. agent[a].policy \in HandedOut(a) /\ agent[a].blocks \in ListsOut
    BY DEF HandedOut, ListsOut
  <2>3. SoundPolicy(agent[a].policy, a, past', db', disk')
    BY <1>3, <2>1, <2>2 DEF SoundAgent
  <2>4. SoundList(agent[a].blocks, past', db', disk')
    BY <1>4, <2>1, <2>2 DEF SoundAgent
  <2> QED BY <1>0, <1>1, <2>1, <2>3, <2>4 DEF SoundAgent, Issued
<1>6. ASSUME NEW c \in calls PROVE SoundCall(c, past', db', disk')
  <2>1. /\ c.policy \in Policies /\ c.blocks \in Lists /\ c.from \in Agents
        /\ SoundCall(c, past, db, disk)
    BY <1>1 DEF Calls, CallsSound
  <2>2. c.policy \in HandedOut(c.from) /\ c.blocks \in ListsOut
    BY DEF HandedOut, ListsOut
  <2>3. SoundPolicy(c.policy, c.from, past', db', disk')
    BY <1>3, <2>1, <2>2 DEF SoundCall
  <2>4. SoundList(c.blocks, past', db', disk')
    BY <1>4, <2>1, <2>2 DEF SoundCall
  <2> QED BY <1>0, <1>1, <2>1, <2>3, <2>4 DEF SoundCall, Issued
<1> QED BY <1>0, <1>5, <1>6 DEF AgentsSound, CallsSound

\* Every step keeps the inductive invariant.
LEMMA FleetStep == ASSUME FleetInv, [Next]_vars PROVE FleetInv'
<1>0. /\ Stored(db) /\ Stored(disk) /\ Capped(db) /\ Capped(disk)
      /\ Grows(disk, db) /\ Issued(db, disk)
      /\ \A a \in Agents : Names(NoDoc, db.policy[a]) /\ Names(NoDoc, disk.policy[a])
  BY DEF FleetInv, TypeInv
<1>1. TypeInv' /\ PastInv'
  BY TypeStep, PastStep DEF FleetInv
<1>2. Stored(db') /\ Stored(disk')
  BY <1>1 DEF TypeInv
<1>3. CASE Open
  <2>1. db' = disk /\ disk' = disk
    BY <1>3 DEF Open
  <2>2. /\ Capped(db') /\ Capped(disk')
        /\ \A a \in Agents : Names(NoDoc, db'.policy[a]) /\ Names(NoDoc, disk'.policy[a])
    BY <1>0, <2>1
  <2>3. Grows(disk', db') /\ Issued(db', disk')
    BY <1>0, <2>1, GrowsNot DEF Issued
  <2>4. AgentsSound' /\ CallsSound'
    BY <1>1, <1>3, OpenStep
  <2> QED BY <1>1, <2>2, <2>3, <2>4 DEF FleetInv
<1>4. CASE ~Open
  <2>1. Moves(db, disk, db', disk')
    BY <1>4, StoreStep DEF FleetInv
  <2>2. Grows(disk', db') /\ Issued(db', disk')
    BY <1>0, <1>2, <2>1, GrowsOn
  <2>3. Capped(db') /\ Capped(disk')
    BY <1>0, <2>1 DEF Moves, Alike, Capped
  <2>4. ASSUME NEW a \in Agents PROVE Names(NoDoc, db'.policy[a]) /\ Names(NoDoc, disk'.policy[a])
    <3>1. db.policy[a].ver \in Nat /\ db'.policy[a].ver \in Nat /\ NoDoc.ver \in Nat
      BY <1>0, <1>2, StoredTypes DEF NoDoc
    <3>2. Names(NoDoc, db'.policy[a])
      BY <1>0, <2>1, <3>1 DEF Moves, Grows, Names
    <3> QED BY <1>0, <2>1, <3>2 DEF Moves, Alike
  <2>5. past'.reused = past.reused /\ past'.relisted = past.relisted
    BY <1>4, PastGoesOn DEF FleetInv
  <2>6. Onward
    BY <1>1, <2>1, <2>2, <2>5 DEF Onward
  <2> QED BY <1>1, <1>4, <2>2, <2>3, <2>4, <2>6, CallsStep, AgentsStep DEF FleetInv
<1> QED BY <1>3, <1>4

\* The invariant holds, whatever is not written and whatever crashes.
LEMMA FleetAlways == Spec => []FleetInv
<1>1. FleetInv /\ [Next]_vars => FleetInv'
  BY FleetStep
<1> QED BY <1>1, FleetInit, PTL DEF Spec

\* An agent serves only after this process was told that its key is valid, and
\* only for a key that was issued.
THEOREM ServesLicensed == Spec => []FailClosed
BY FleetAlways, FleetInvFollows, PTL

\* The agent that has the server's version has the server's policy, however
\* calls are lost, late or overtaken, whoever crashes and whatever is not
\* written, unless the server came back behind what it had handed out.
THEOREM VersionNamesPolicy == Spec => []PolicyVersionNames
BY FleetAlways, FleetInvFollows, PTL

\* The blocklist stays under its cap, and its version names its contents, with
\* the same exception.
THEOREM VersionNamesBlocklist == Spec => []BlocklistSound
BY FleetAlways, FleetInvFollows, PTL

----------------------------------------------------------------------------
(* No echo loop.  Every ban still to be reported - recorded on an agent, or *)
(* in a call that is to be ingested - is worth two changes of the list, and *)
(* every entry of the list one, the sweep or eviction that ends it.  Only a *)
(* ban of an agent adds to that, for a ban that came from the fleet is not  *)
(* recorded again.  Where the list was not written, its file has an older   *)
(* list, which what is still to be reported can pay for as well.            *)

\* A call whose reported bans have not been ingested.
Pending == {"sent", "record", "ingest"}

Recorded(a, S) == {<<"agent", a, ip>> : ip \in S}
Reported(c, S) == {<<"call", c, ip>> : ip \in S}

\* The bans that agents ag and calls cl are still to bring to the store.
Owed(ag, cl) ==
    (UNION {Recorded(a, ag[a].recent) : a \in Agents})
    \cup (UNION {Reported(c, c.recent) : c \in {d \in cl : d.at \in Pending}})

Budget(d, o, b) ==
    /\ IsFiniteSet(o)
    /\ d.fver + Cardinality(Listed(d)) + 2 * Cardinality(o) <= 2 * b

\* The file's list is within the budget too: a crash may bring it back.
EchoInv == \A d \in {db, disk} : Budget(d, Owed(agent, calls), bans)

LEMMA OwedIs ==
    ASSUME NEW ag, NEW cl, NEW t
    PROVE  t \in Owed(ag, cl) <=>
              \/ \E a \in Agents : \E ip \in ag[a].recent : t = <<"agent", a, ip>>
              \/ \E c \in cl : \E ip \in c.recent : c.at \in Pending /\ t = <<"call", c, ip>>
BY DEF Owed, Recorded, Reported

\* What a finite set covers, element by element, is no larger than it is.
LEMMA ImageBound ==
    ASSUME NEW S, IsFiniteSet(S), NEW T, NEW f, \A t \in T : \E s \in S : t = f[s]
    PROVE  /\ IsFiniteSet(T) /\ Cardinality(T) <= Cardinality(S)
           /\ Cardinality(T) \in Nat /\ Cardinality(S) \in Nat
<1> DEFINE g == [s \in S |-> f[s]]
           U == {f[s] : s \in S}
<1>1. g \in Surjection(S, U)
  BY DEF Surjection
<1> HIDE DEF g
<1>2. IsFiniteSet(U) /\ Cardinality(U) <= Cardinality(S)
  BY <1>1, FS_Surjection
<1>3. T \in SUBSET U
  OBVIOUS
<1> HIDE DEF U
<1>4. IsFiniteSet(T) /\ Cardinality(T) <= Cardinality(U)
  BY <1>2, <1>3, FS_Subset
<1>5. Cardinality(T) \in Nat /\ Cardinality(U) \in Nat /\ Cardinality(S) \in Nat
  BY <1>2, <1>4, FS_CardinalityType
<1> QED BY <1>2, <1>4, <1>5

LEMMA ListedFinite ==
    ASSUME NEW d, Stored(d)
    PROVE  IsFiniteSet(Listed(d)) /\ Cardinality(Listed(d)) \in Nat
<1>1. Listed(d) \in SUBSET IPs
  BY StoredTypes DEF Listed
<1> QED BY <1>1, FiniteAssumption, FS_Subset, FS_CardinalityType

\* A step that moves what is owed, or loses some of it.
LEMMA BudgetMoves ==
    ASSUME NEW d, Stored(d), NEW e, Stored(e), e.fver = d.fver, Listed(e) = Listed(d),
           NEW b \in Nat, NEW o, Budget(d, o, b), NEW p, NEW f,
           \A t \in p : \E s \in o : t = f[s]
    PROVE  Budget(e, p, b)
<1>1. /\ IsFiniteSet(p) /\ Cardinality(p) <= Cardinality(o)
      /\ Cardinality(p) \in Nat /\ Cardinality(o) \in Nat
  BY ImageBound DEF Budget
<1>2. d.fver \in Nat /\ Cardinality(Listed(d)) \in Nat
  BY StoredTypes, ListedFinite
<1> QED BY <1>1, <1>2 DEF Budget

LEMMA BudgetLess ==
    ASSUME NEW d, Stored(d), NEW e, Stored(e), e.fver = d.fver, Listed(e) = Listed(d),
           NEW b \in Nat, NEW o, Budget(d, o, b), NEW p, p \subseteq o
    PROVE  Budget(e, p, b)
<1> DEFINE f == [t \in o |-> t]
<1>1. \A t \in p : \E s \in o : t = f[s]
  OBVIOUS
<1> HIDE DEF f
<1> QED BY <1>1, BudgetMoves

\* A ban of an agent pays for two changes.
LEMMA BudgetBan ==
    ASSUME NEW d, Stored(d), NEW b \in Nat, NEW o, Budget(d, o, b),
           NEW t, NEW p, p \subseteq o \cup {t}
    PROVE  Budget(d, p, b + 1)
<1>0. IsFiniteSet(o) /\ Cardinality(o) \in Nat
  BY FS_CardinalityType DEF Budget
<1>a. /\ IsFiniteSet(o \cup {t})
      /\ \/ Cardinality(o \cup {t}) = Cardinality(o)
         \/ Cardinality(o \cup {t}) = Cardinality(o) + 1
  BY <1>0, FS_AddElement
<1>1. /\ IsFiniteSet(o \cup {t}) /\ Cardinality(o) \in Nat
      /\ Cardinality(o \cup {t}) <= Cardinality(o) + 1
  BY <1>0, <1>a
<1>2. /\ IsFiniteSet(p) /\ Cardinality(p) <= Cardinality(o \cup {t})
      /\ Cardinality(p) \in Nat /\ Cardinality(o \cup {t}) \in Nat
  BY <1>1, FS_Subset, FS_CardinalityType
<1>3. d.fver \in Nat /\ Cardinality(Listed(d)) \in Nat
  BY StoredTypes, ListedFinite
<1> QED BY <1>1, <1>2, <1>3 DEF Budget

\* The store takes reported bans Y: the version moves once, the list grows by
\* no more than was reported, and nothing of Y is owed any more.
LEMMA BudgetIngest ==
    ASSUME NEW d, Stored(d), NEW ips \in SUBSET IPs, ips # {}, NEW e \in AddFleetBans(d, ips),
           NEW b \in Nat, NEW o, Budget(d, o, b), NEW c, Reported(c, ips) \subseteq o,
           NEW p, p \subseteq o \ Reported(c, ips)
    PROVE  Budget(e, p, b)
<1> DEFINE Y == Reported(c, ips)
           f == [t \in Y |-> t[3]]
<1>1. \A ip \in ips : \E t \in Y : ip = f[t]
  <2> SUFFICES ASSUME NEW ip \in ips
               PROVE  \E t \in Y : ip = f[t]
    OBVIOUS
  <2>1. <<"call", c, ip>> \in Y /\ <<"call", c, ip>>[3] = ip
    BY DEF Reported
  <2> QED BY <2>1
<1>2. IsFiniteSet(o) /\ Y \in SUBSET o
  BY DEF Budget
<1> HIDE DEF Y, f
<1>3. IsFiniteSet(Y) /\ Cardinality(Y) \in Nat /\ Cardinality(o) \in Nat
  BY <1>2, FS_Subset, FS_CardinalityType
<1>4. /\ IsFiniteSet(ips) /\ Cardinality(ips) <= Cardinality(Y) /\ Cardinality(ips) \in Nat
  BY <1>1, <1>3, ImageBound
<1>5. Cardinality(ips) >= 1
  BY <1>4, FS_EmptySet
<1>6. IsFiniteSet(p) /\ Cardinality(p) <= Cardinality(o) - Cardinality(Y) /\ Cardinality(p) \in Nat
  <2>1. o \cap Y = Y
    BY <1>2
  <2>2. IsFiniteSet(o \ Y) /\ Cardinality(o \ Y) = Cardinality(o) - Cardinality(Y)
    BY <1>2, <2>1, FS_Difference
  <2>3. p \in SUBSET (o \ Y)
    BY DEF Y
  <2> QED BY <2>2, <2>3, FS_Subset, FS_CardinalityType
<1>7. /\ IsFiniteSet(Listed(d)) /\ Cardinality(Listed(d)) \in Nat
      /\ Stored(e) /\ Cardinality(Listed(e)) \in Nat /\ d.fver \in Nat /\ e.fver \in Nat
  BY ListedFinite, StoredTypes, AddFleetBansTypes
<1>8. Cardinality(Listed(e)) <= Cardinality(Listed(d)) + Cardinality(ips)
  <2>1. PICK E : e = [d EXCEPT !.live = (@ \cup ips) \ E, !.dead = (@ \ ips) \ E,
                               !.fver = FleetVersion(d, ips, E)]
    BY DEF AddFleetBans
  <2>2. e.live = (d.live \cup ips) \ E /\ e.dead = (d.dead \ ips) \ E
    BY <2>1 DEF Stored, Database
  <2>3. Listed(e) \in SUBSET (Listed(d) \cup ips)
    BY <2>2 DEF Listed
  <2>4. /\ IsFiniteSet(Listed(d) \cup ips)
        /\ Cardinality(Listed(d) \cup ips) =
              Cardinality(Listed(d)) + Cardinality(ips) - Cardinality(Listed(d) \cap ips)
    BY <1>4, <1>7, FS_Union
  <2>5. Cardinality(Listed(d) \cap ips) \in Nat
    BY <1>4, FS_Intersection, FS_CardinalityType
  <2>6. /\ Cardinality(Listed(e)) <= Cardinality(Listed(d) \cup ips)
        /\ Cardinality(Listed(d) \cup ips) \in Nat
    BY <2>3, <2>4, FS_Subset, FS_CardinalityType
  <2> QED BY <1>4, <1>7, <2>4, <2>5, <2>6
<1>9. e.fver <= d.fver + 1
  <2>1. PICK E : e = [d EXCEPT !.live = (@ \cup ips) \ E, !.dead = (@ \ ips) \ E,
                               !.fver = FleetVersion(d, ips, E)]
    BY DEF AddFleetBans
  <2>2. e.fver \in {d.fver, d.fver + 1}
    BY <2>1 DEF FleetVersion, Stored, Database
  <2> QED BY <1>7, <2>2
<1> QED BY <1>3, <1>4, <1>5, <1>6, <1>7, <1>8, <1>9 DEF Budget

\* The sweep pays for its change with the entries it drops.
LEMMA BudgetSwept ==
    ASSUME NEW d, Stored(d), NEW b \in Nat, NEW o, Budget(d, o, b)
    PROVE  Budget(Swept(d), o, b)
<1>1. CASE d.dead = {}
  BY <1>1 DEF Swept
<1>2. CASE d.dead # {}
  <2>1. /\ Swept(d).fver = d.fver + 1 /\ Swept(d).live = d.live /\ Swept(d).dead = {}
    BY <1>2 DEF Swept, Stored, Database
  <2>2. PICK ip \in d.dead : TRUE
    BY <1>2
  <2>3. Listed(Swept(d)) \in SUBSET (Listed(d) \ {ip}) /\ ip \in Listed(d)
    BY <2>1, <2>2 DEF Listed, Stored
  <2>4. IsFiniteSet(Listed(d)) /\ Cardinality(Listed(d)) \in Nat /\ d.fver \in Nat
    BY ListedFinite, StoredTypes
  <2>5. IsFiniteSet(Listed(d) \ {ip}) /\ Cardinality(Listed(d) \ {ip}) = Cardinality(Listed(d)) - 1
    BY <2>3, <2>4, FS_RemoveElement
  <2>6. /\ Cardinality(Listed(Swept(d))) <= Cardinality(Listed(d) \ {ip})
        /\ Cardinality(Listed(Swept(d))) \in Nat
    BY <2>3, <2>5, FS_Subset, FS_CardinalityType
  <2>7. IsFiniteSet(o) /\ Cardinality(o) \in Nat
    BY FS_CardinalityType DEF Budget
  <2> QED BY <2>1, <2>4, <2>5, <2>6, <2>7 DEF Budget
<1> QED BY <1>1, <1>2

\* Agents that record no more than before, calls that claim no more.
LEMMA OwedLess ==
    ASSUME NEW ag, NEW bg, NEW cl, NEW dl, dl \subseteq cl,
           \A a \in Agents : bg[a].recent \subseteq ag[a].recent
    PROVE  Owed(bg, dl) \subseteq Owed(ag, cl)
<1> SUFFICES ASSUME NEW t \in Owed(bg, dl)
             PROVE  t \in Owed(ag, cl)
  OBVIOUS
<1>1. \/ \E a \in Agents : \E ip \in bg[a].recent : t = <<"agent", a, ip>>
      \/ \E c \in dl : \E ip \in c.recent : c.at \in Pending /\ t = <<"call", c, ip>>
  BY OwedIs
<1> QED BY <1>1, OwedIs

\* The calls dl are the calls cl, those in C moved on to n, none reporting more.
Moved(cl, dl, C, n) ==
    \A c \in dl : \E o \in cl : /\ c = IF o \in C THEN n[o] ELSE o
                                /\ c.recent \subseteq o.recent
                                /\ c.at \in Pending => o.at \in Pending

\* A call that moves on, or is given up, takes its claims along.
LEMMA OwedMoves ==
    ASSUME NEW ag, NEW bg, NEW cl, NEW dl, NEW C, NEW n, Moved(cl, dl, C, n),
           \A a \in Agents : bg[a].recent \subseteq ag[a].recent
    PROVE  \E f : \A t \in Owed(bg, dl) : \E s \in Owed(ag, cl) : t = f[s]
<1> DEFINE f == [t \in Owed(ag, cl) |-> IF t[1] = "call" /\ t[2] \in C
                                        THEN <<"call", n[t[2]], t[3]>> ELSE t]
<1>1. ASSUME NEW t \in Owed(bg, dl) PROVE \E s \in Owed(ag, cl) : t = f[s]
  <2>1. CASE \E a \in Agents : \E ip \in bg[a].recent : t = <<"agent", a, ip>>
    <3>1. t \in Owed(ag, cl)
      BY <2>1, OwedIs
    <3>2. t[1] = "agent"
      BY <2>1
    <3> QED BY <3>1, <3>2
  <2>2. CASE \E c \in dl : \E ip \in c.recent : c.at \in Pending /\ t = <<"call", c, ip>>
    <3>0. PICK c \in dl : \E ip \in c.recent : c.at \in Pending /\ t = <<"call", c, ip>>
      BY <2>2
    <3>1. PICK ip \in c.recent : c.at \in Pending /\ t = <<"call", c, ip>>
      BY <3>0
    <3>2. PICK o \in cl : /\ c = IF o \in C THEN n[o] ELSE o
                          /\ c.recent \subseteq o.recent
                          /\ c.at \in Pending => o.at \in Pending
      BY DEF Moved
    <3> DEFINE s == <<"call", o, ip>>
    <3>3. s \in Owed(ag, cl)
      BY <3>1, <3>2, OwedIs
    <3>4. s[1] = "call" /\ s[2] = o /\ s[3] = ip
      OBVIOUS
    <3> HIDE DEF s
    <3>5. t = f[s]
      BY <3>1, <3>2, <3>3, <3>4 DEF s
    <3> QED BY <3>3, <3>5
  <2> QED BY <2>1, <2>2, OwedIs
<1> QED BY <1>1

\* A list that memory or file had before.
Keeps(e) == \E d \in {db, disk} : e.fver = d.fver /\ Listed(e) = Listed(d)

\* A step that leaves the lists alone, and moves or loses some of what is owed.
LEMMA EchoKept ==
    ASSUME TypeInv, TypeInv', EchoInv, bans' = bans, Keeps(db'), Keeps(disk'),
           \E f : \A t \in Owed(agent', calls') : \E s \in Owed(agent, calls) : t = f[s]
    PROVE  EchoInv'
<1>1. /\ \A d \in {db, disk, db', disk'} : Stored(d)
      /\ bans \in Nat /\ \A d \in {db, disk} : Budget(d, Owed(agent, calls), bans)
  BY BoundAssumption DEF TypeInv, EchoInv
<1>2. ASSUME NEW e \in {db', disk'} PROVE Budget(e, Owed(agent', calls'), bans)
  <2>1. PICK d \in {db, disk} : e.fver = d.fver /\ Listed(e) = Listed(d)
    BY DEF Keeps
  <2> QED BY <1>1, <2>1, BudgetMoves
<1> QED BY <1>2 DEF EchoInv

LEMMA EchoSame ==
    ASSUME TypeInv, TypeInv', EchoInv, bans' = bans, Keeps(db'), Keeps(disk'),
           Owed(agent', calls') \subseteq Owed(agent, calls)
    PROVE  EchoInv'
<1> DEFINE f == [t \in Owed(agent, calls) |-> t]
<1>1. \A t \in Owed(agent', calls') : \E s \in Owed(agent, calls) : t = f[s]
  OBVIOUS
<1> HIDE DEF f
<1> QED BY <1>1, EchoKept

\* A step that adds no claim.
LEMMA EchoLess ==
    ASSUME TypeInv, TypeInv', EchoInv, bans' = bans, Keeps(db'), Keeps(disk'),
           calls' \subseteq calls,
           \A a \in Agents : agent'[a].recent \subseteq agent[a].recent
    PROVE  EchoInv'
BY OwedLess, EchoSame

\* A handler moves its call on.
LEMMA EchoCall ==
    ASSUME TypeInv, TypeInv', EchoInv, bans' = bans, agent' = agent,
           Keeps(db'), Keeps(disk'), NEW c \in calls, NEW new, Becomes(c, new),
           new.recent \subseteq c.recent, new.at \in Pending => c.at \in Pending
    PROVE  EchoInv'
<1> DEFINE n == [o \in {c} |-> new]
<1>1. Moved(calls, calls', {c}, n)
  BY DEF Becomes, Moved
<1>2. \A a \in Agents : agent'[a].recent \subseteq agent[a].recent
  OBVIOUS
<1> HIDE DEF n
<1> QED BY <1>1, <1>2, OwedMoves, EchoKept

\* An agent gives up its call: the call is lost, or handled all the same.
LEMMA EchoAbandons ==
    ASSUME TypeInv, TypeInv', EchoInv, bans' = bans, Keeps(db'), Keeps(disk'),
           \A x \in Agents : agent'[x].recent \subseteq agent[x].recent,
           NEW a \in Agents, calls' \in Abandoned(a)
    PROVE  EchoInv'
<1> DEFINE C == {c \in calls : c.from = a /\ c.awaited}
           n == [o \in C |-> [o EXCEPT !.awaited = FALSE]]
<1>1. ASSUME NEW k \in calls'
      PROVE  \E o \in calls : /\ k = IF o \in C THEN n[o] ELSE o
                              /\ k.recent = o.recent
                              /\ k.at \in Pending => o.at \in Pending
  <2>1. k \in calls \ C \/ \E o \in C : k = [o EXCEPT !.awaited = FALSE]
    BY DEF Abandoned
  <2>2. CASE k \in calls \ C
    BY <2>2
  <2>3. ASSUME NEW o \in C, k = [o EXCEPT !.awaited = FALSE]
        PROVE  k.recent = o.recent /\ k.at = o.at /\ k = n[o] /\ o \in calls
    <3>1. o \in Calls
      BY DEF TypeInv
    <3> QED BY <2>3, <3>1 DEF Calls
  <2> HIDE DEF C, n
  <2> QED BY <2>1, <2>2, <2>3
<1> HIDE DEF C, n
<1>2. Moved(calls, calls', C, n)
  BY <1>1 DEF Moved
<1> QED BY <1>2, OwedMoves, EchoKept

\* A heartbeat takes over what its agent recorded.
LEMMA EchoHeartbeat ==
    ASSUME TypeInv, TypeInv', EchoInv, NEW a \in Agents, Heartbeat(a)
    PROVE  EchoInv'
<1>0. PICK k : /\ calls' = calls \cup {k} /\ k.recent = agent[a].recent
               /\ agent' = [agent EXCEPT ![a].phase = "waiting", ![a].recent = {}]
               /\ db' = db /\ disk' = disk /\ bans' = bans
  BY DEF Heartbeat, Call
<1>r. \A x \in Agents : agent'[x].recent = IF x = a THEN {} ELSE agent[x].recent
  <2>1. agent \in [Agents -> States]
    BY DEF TypeInv
  <2> QED BY <1>0, <2>1 DEF States
<1> DEFINE f == [s \in Owed(agent, calls) |-> IF s[1] = "agent" /\ s[2] = a
                                              THEN <<"call", k, s[3]>> ELSE s]
<1>1. ASSUME NEW t \in Owed(agent', calls')
      PROVE  \E s \in Owed(agent, calls) : t = f[s]
  <2>1. ASSUME NEW x \in Agents, NEW ip \in agent'[x].recent, t = <<"agent", x, ip>>
        PROVE  \E s \in Owed(agent, calls) : t = f[s]
    <3>1. x # a /\ t \in Owed(agent, calls)
      BY <1>r, <2>1, OwedIs
    <3>2. t[2] = x
      BY <2>1
    <3> QED BY <3>1, <3>2
  <2>2. ASSUME NEW c \in calls, NEW ip \in c.recent, c.at \in Pending, t = <<"call", c, ip>>
        PROVE  \E s \in Owed(agent, calls) : t = f[s]
    <3>1. t \in Owed(agent, calls) /\ t[1] # "agent"
      BY <2>2, OwedIs
    <3> QED BY <3>1
  <2>3. ASSUME NEW ip \in k.recent, t = <<"call", k, ip>>
        PROVE  \E s \in Owed(agent, calls) : t = f[s]
    <3> DEFINE s == <<"agent", a, ip>>
    <3>1. s \in Owed(agent, calls)
      BY <1>0, OwedIs
    <3>2. s[1] = "agent" /\ s[2] = a /\ s[3] = ip
      OBVIOUS
    <3> HIDE DEF s
    <3>3. t = f[s]
      BY <2>3, <3>1, <3>2
    <3> QED BY <3>1, <3>3
  <2> HIDE DEF f
  <2>4. \/ \E x \in Agents : \E ip \in agent'[x].recent : t = <<"agent", x, ip>>
        \/ \E c \in calls' : \E ip \in c.recent : c.at \in Pending /\ t = <<"call", c, ip>>
    BY OwedIs
  <2> QED BY <1>0, <2>1, <2>2, <2>3, <2>4
<1> HIDE DEF f
<1>2. Keeps(db') /\ Keeps(disk')
  BY <1>0 DEF Keeps
<1> QED BY <1>0, <1>1, <1>2, EchoKept

\* Every step keeps within the budget.
LEMMA EchoStep ==
    ASSUME TypeInv, TypeInv', EchoInv, [Next]_vars
    PROVE  EchoInv'
<1>0. /\ Stored(db) /\ Stored(disk) /\ db \in Database /\ Stored(db') /\ Stored(disk')
      /\ calls \subseteq Calls /\ agent \in [Agents -> States] /\ bans \in Nat
      /\ Budget(db, Owed(agent, calls), bans) /\ Budget(disk, Owed(agent, calls), bans)
  BY BoundAssumption DEF TypeInv, Stored, EchoInv
<1>s. ASSUME NEW d, Save(d), d.fver = db.fver, Listed(d) = Listed(db)
      PROVE  Keeps(db') /\ Keeps(disk')
  BY <1>s DEF Save, Keeps
<1>u. ASSUME UNCHANGED <<db, disk>> PROVE Keeps(db') /\ Keeps(disk')
  BY <1>u DEF Keeps
<1>q. ASSUME bans' = bans, UNCHANGED <<db, disk>>, calls' \subseteq calls,
             \A a \in Agents : agent'[a].recent \subseteq agent[a].recent
      PROVE  EchoInv'
  BY <1>q, <1>u, EchoLess
<1>1. ASSUME NEW a \in Agents, Generate(a) \/ Revoke(a) \/ SetPolicy(a)
      PROVE  EchoInv'
  <2>1. PICK d : /\ \/ \E k : d = [db EXCEPT !.key[a] = k]
                    \/ \E p : d = [db EXCEPT !.policy[a] = p]
                 /\ Save(d)
    BY <1>1 DEF Generate, Revoke, SetPolicy, Save
  <2>2. d.fver = db.fver /\ Listed(d) = Listed(db)
    BY <1>0, <2>1 DEF Database, Listed
  <2>3. bans' = bans /\ calls' = calls /\ agent' = agent
    BY <1>1 DEF Generate, Revoke, SetPolicy
  <2> QED BY <1>s, <2>1, <2>2, <2>3, EchoLess
<1>2. ASSUME NEW ip \in IPs, Expire(ip) PROVE EchoInv'
  <2>1. /\ disk' = Aged(disk, ip) /\ db' \in {db, Aged(db, ip)}
        /\ bans' = bans /\ calls' = calls /\ agent' = agent
    BY <1>2 DEF Expire
  <2>2. Keeps(db') /\ Keeps(disk')
    BY <1>0, <2>1, AgedAlike DEF Alike, Keeps
  <2> QED BY <2>1, <2>2, EchoLess
<1>3. CASE Open \/ Crash \/ UNCHANGED vars
  <2>1. /\ bans' = bans /\ calls' \subseteq calls /\ agent' = agent
        /\ db' \in {db, disk} /\ disk' = disk
    BY <1>3 DEF Open, Crash, vars
  <2>2. Keeps(db') /\ Keeps(disk')
    BY <2>1 DEF Keeps
  <2> QED BY <2>1, <2>2, EchoLess
<1>4. ASSUME NEW a \in Agents, Validate(a) PROVE EchoInv'
  <2> DEFINE k == Call(a, "validate", {})
  <2>0. k.recent = {}
    BY DEF Call
  <2> HIDE DEF k
  <2>1. /\ calls' = calls \cup {k} /\ k.recent = {}
        /\ agent' = [agent EXCEPT ![a].phase = "waiting"]
        /\ UNCHANGED <<db, disk>> /\ bans' = bans
    BY <1>4, <2>0 DEF Validate, k
  <2>2. \A x \in Agents : agent'[x].recent = agent[x].recent
    BY <1>0, <2>1 DEF States
  <2>3. ASSUME NEW t \in Owed(agent', calls') PROVE t \in Owed(agent, calls)
    <3>1. \/ \E x \in Agents : \E ip \in agent'[x].recent : t = <<"agent", x, ip>>
          \/ \E c \in calls' : \E ip \in c.recent : c.at \in Pending /\ t = <<"call", c, ip>>
      BY OwedIs
    <3>2. \/ \E x \in Agents : \E ip \in agent[x].recent : t = <<"agent", x, ip>>
          \/ \E c \in calls : \E ip \in c.recent : c.at \in Pending /\ t = <<"call", c, ip>>
      BY <2>1, <2>2, <3>1
    <3> QED BY <3>2, OwedIs
  <2>4. Owed(agent', calls') \subseteq Owed(agent, calls)
    BY <2>3
  <2> QED BY <1>u, <2>1, <2>4, EchoSame
<1>5. ASSUME NEW a \in Agents, Heartbeat(a) PROVE EchoInv'
  BY <1>5, EchoHeartbeat
<1>6. ASSUME NEW a \in Agents, Fail(a) \/ Restart(a) PROVE EchoInv'
  <2>1. /\ calls' \in Abandoned(a) /\ UNCHANGED <<db, disk>> /\ bans' = bans
        /\ \/ agent' = [agent EXCEPT ![a].phase = "idle"]
           \/ \E kept : agent' = [agent EXCEPT ![a] = Fresh(kept)]
    BY <1>6 DEF Fail, Restart
  <2>2. \A kept : Fresh(kept).recent = {}
    BY DEF Fresh
  <2>3. \A x \in Agents : agent'[x].recent \subseteq agent[x].recent
    BY <1>0, <2>1, <2>2 DEF States
  <2> QED BY <1>u, <2>1, <2>3, EchoAbandons
<1>7. ASSUME NEW a \in Agents, NEW ip \in IPs, LocalBan(a, ip) PROVE EchoInv'
  <2>1. /\ UNCHANGED <<db, disk>> /\ bans' = bans + 1 /\ calls' = calls
        /\ agent' = [agent EXCEPT ![a].local = @ \cup {ip}, ![a].recent = @ \cup {ip},
                                  ![a].issued = @ + 1]
    BY <1>7 DEF LocalBan
  <2>2. \A x \in Agents : agent'[x].recent = IF x = a THEN agent[x].recent \cup {ip}
                                             ELSE agent[x].recent
    BY <1>0, <2>1 DEF States
  <2>3. ASSUME NEW t \in Owed(agent', calls')
        PROVE  t \in Owed(agent, calls) \/ t = <<"agent", a, ip>>
    <3>1. \/ \E x \in Agents : \E j \in agent'[x].recent : t = <<"agent", x, j>>
          \/ \E c \in calls' : \E j \in c.recent : c.at \in Pending /\ t = <<"call", c, j>>
      BY OwedIs
    <3>2. CASE \E c \in calls : \E j \in c.recent : c.at \in Pending /\ t = <<"call", c, j>>
      BY <3>2, OwedIs
    <3>3. CASE \E x \in Agents : \E j \in agent[x].recent : t = <<"agent", x, j>>
      BY <3>3, OwedIs
    <3>4. \A x \in Agents : \A j \in agent'[x].recent :
             j \in agent[x].recent \/ (x = a /\ j = ip)
      BY <2>2
    <3> QED BY <2>1, <3>1, <3>2, <3>3, <3>4
  <2> DEFINE new == <<"agent", a, ip>>
  <2>4. Owed(agent', calls') \subseteq Owed(agent, calls) \cup {new}
    BY <2>3
  <2> HIDE DEF new
  <2>5. \A d \in {db, disk} : Budget(d, Owed(agent', calls'), bans + 1)
    BY <1>0, <2>4, BudgetBan
  <2> QED BY <2>1, <2>5 DEF EchoInv
<1>8. ASSUME NEW c \in calls, HandleValidate(c) \/ HandlePolicy(c) PROVE EchoInv'
  <2>0. c \in Calls
    BY <1>0
  <2>v. ASSUME HandleValidate(c)
        PROVE  \E new : /\ Becomes(c, new) /\ new.recent = c.recent
                        /\ new.at \in Pending => c.at \in Pending
    <3> DEFINE w == IF c.kind = "validate" THEN "policy" ELSE "record"
               x == [c EXCEPT !.at = "reply"]
               y == [c EXCEPT !.ok = TRUE, !.at = w]
    <3>1. /\ x.recent = c.recent /\ y.recent = c.recent
          /\ c.at \in Pending
      BY <2>0, <2>v DEF HandleValidate, Calls, Pending
    <3>2. Becomes(c, x) \/ Becomes(c, y)
      BY <2>v DEF HandleValidate
    <3> HIDE DEF x, y
    <3> QED BY <3>1, <3>2
  <2>p. ASSUME HandlePolicy(c)
        PROVE  \E new : /\ Becomes(c, new) /\ new.recent = c.recent
                        /\ new.at \in Pending => c.at \in Pending
    <3> DEFINE p == db.policy[c.from]
               q == IF c.kind = "validate" \/ p.ver # c.pver THEN p ELSE NoDoc
               w == IF c.kind = "validate" THEN "reply" ELSE "fleet"
               x == [c EXCEPT !.policy = q, !.at = w]
    <3>1. x.recent = c.recent /\ x.at = w /\ w \notin Pending
      BY <2>0 DEF Calls, Pending
    <3>2. Becomes(c, x)
      BY <2>p DEF HandlePolicy
    <3> HIDE DEF x, w
    <3> QED BY <3>1, <3>2
  <2>1. PICK new : /\ Becomes(c, new) /\ new.recent = c.recent
                   /\ new.at \in Pending => c.at \in Pending
    BY <1>8, <2>v, <2>p
  <2>2. bans' = bans /\ UNCHANGED <<db, disk>> /\ agent' = agent
    BY <1>8 DEF HandleValidate, HandlePolicy
  <2> QED BY <1>u, <2>1, <2>2, EchoCall
<1>9. ASSUME NEW c \in calls, HandleRecord(c) PROVE EchoInv'
  <2>0. PICK req \in Decoded(c) : /\ Save([db EXCEPT !.status[c.from] = req.stat])
                                  /\ Becomes(c, [req EXCEPT !.at = "ingest"])
    BY <1>9 DEF HandleRecord
  <2> DEFINE new == [req EXCEPT !.at = "ingest"]
             d == [db EXCEPT !.status[c.from] = req.stat]
  <2>1. req \in Calls /\ req.recent \subseteq c.recent /\ c.at \in Pending
    BY <1>0, <1>9, DecodedTypes DEF HandleRecord, Pending
  <2>2. Becomes(c, new) /\ new.recent \subseteq c.recent
    BY <2>0, <2>1 DEF Calls
  <2>3. d.fver = db.fver /\ Listed(d) = Listed(db) /\ Save(d)
    BY <1>0, <2>0 DEF Database, Listed
  <2> HIDE DEF new, d
  <2>4. bans' = bans /\ agent' = agent
    BY <1>9 DEF HandleRecord
  <2> QED BY <1>s, <2>1, <2>2, <2>3, <2>4, EchoCall
<1>10. ASSUME NEW c \in calls, HandleIngest(c) PROVE EchoInv'
  <2> DEFINE new == [c EXCEPT !.at = "policy"]
  <2>1. /\ Becomes(c, new) /\ new.recent = c.recent /\ c.at \in Pending /\ new.at \notin Pending
        /\ c.recent \in SUBSET IPs /\ bans' = bans /\ agent' = agent
    BY <1>0, <1>10 DEF HandleIngest, Calls, Pending
  <2> HIDE DEF new
  <2>2. CASE c.recent = {}
    <3>1. UNCHANGED <<db, disk>>
      BY <1>10, <2>2 DEF HandleIngest
    <3> QED BY <1>u, <2>1, <3>1, EchoCall
  <2>3. CASE c.recent # {}
    <3>1. PICK d \in AddFleetBans(db, c.recent) : Save(d)
      BY <1>10, <2>3 DEF HandleIngest
    <3>2. db' = d /\ disk' \in {d, disk}
      BY <3>1 DEF Save
    <3>3. Reported(c, c.recent) \subseteq Owed(agent, calls)
      BY <2>1, OwedIs DEF Reported
    <3>4. ASSUME NEW t \in Owed(agent', calls')
          PROVE  t \in Owed(agent, calls) \ Reported(c, c.recent)
      <4>1. \/ \E x \in Agents : \E j \in agent[x].recent : t = <<"agent", x, j>>
            \/ \E k \in calls \ {c} : \E j \in k.recent : k.at \in Pending /\ t = <<"call", k, j>>
        BY <2>1, OwedIs DEF Becomes
      <4>2. t \in Owed(agent, calls)
        BY <4>1, OwedIs
      <4>3. t[1] # "call" \/ t[2] # c
        BY <4>1
      <4>4. \A s \in Reported(c, c.recent) : s[1] = "call" /\ s[2] = c
        BY DEF Reported
      <4> QED BY <4>2, <4>3, <4>4
    <3>5. Owed(agent', calls') \subseteq Owed(agent, calls) \ Reported(c, c.recent)
      BY <3>4
    <3>6. Budget(d, Owed(agent', calls'), bans)
      BY <1>0, <2>1, <2>3, <3>3, <3>5, BudgetIngest
    <3>7. Budget(disk, Owed(agent', calls'), bans)
      BY <1>0, <3>5, BudgetLess
    <3> QED BY <2>1, <3>2, <3>6, <3>7 DEF EchoInv
  <2> QED BY <2>2, <2>3
<1>11. ASSUME NEW c \in calls, HandleFleet(c) PROVE EchoInv'
  <2>1. db' = Swept(db) /\ disk' \in {Swept(db), disk} /\ bans' = bans /\ agent' = agent
    BY <1>11 DEF HandleFleet, Save
  <2> DEFINE l == IF Swept(db).fver # c.bver THEN List(Swept(db)) ELSE NoList
             new == [c EXCEPT !.blocks = l, !.at = "reply"]
  <2>2. Becomes(c, new) /\ new.at \notin Pending
    <3>1. c \in Calls /\ Becomes(c, new)
      BY <1>0, <1>11 DEF HandleFleet
    <3> HIDE DEF l
    <3> QED BY <3>1 DEF Calls, Pending
  <2> HIDE DEF new
  <2>3. ASSUME NEW t \in Owed(agent', calls') PROVE t \in Owed(agent, calls)
    <3>1. \/ \E x \in Agents : \E j \in agent[x].recent : t = <<"agent", x, j>>
          \/ \E k \in calls : \E j \in k.recent : k.at \in Pending /\ t = <<"call", k, j>>
      BY <2>1, <2>2, OwedIs DEF Becomes
    <3> QED BY <3>1, OwedIs
  <2>4. Owed(agent', calls') \subseteq Owed(agent, calls)
    BY <2>3
  <2>5. Budget(Swept(db), Owed(agent, calls), bans) /\ Stored(Swept(db))
    BY <1>0, BudgetSwept, SweptTypes
  <2>6. Budget(Swept(db), Owed(agent', calls'), bans)
    BY <1>0, <2>4, <2>5, BudgetLess
  <2>7. Budget(disk, Owed(agent', calls'), bans)
    BY <1>0, <2>4, BudgetLess
  <2> QED BY <2>1, <2>6, <2>7 DEF EchoInv
<1>12. ASSUME NEW c \in calls, Answer(c) \/ DropAnswer(c) PROVE EchoInv'
  <2>1. bans' = bans /\ UNCHANGED <<db, disk>> /\ calls' \subseteq calls
    BY <1>12 DEF Answer, DropAnswer
  <2>2. \A x \in Agents : agent'[x].recent = agent[x].recent
    <3>1. CASE DropAnswer(c)
      BY <3>1 DEF DropAnswer
    <3>2. CASE Answer(c)
      <4> DEFINE st == [ApplyLicense(agent[c.from], c) EXCEPT
                           !.phase = "idle", !.policy = Apply(@, c.policy)]
                 bt == [BanFleet(st, c.blocks.ips) EXCEPT !.blocks = c.blocks]
      <4>1. c.from \in Agents /\ agent[c.from] \in States
        BY <1>0 DEF Calls
      <4>2. st.recent = agent[c.from].recent /\ bt.recent = agent[c.from].recent
        BY <4>1 DEF ApplyLicense, BanFleet, States
      <4>3. \/ agent' = [agent EXCEPT ![c.from] = st]
            \/ agent' = [agent EXCEPT ![c.from] = bt]
        BY <3>2 DEF Answer
      <4> HIDE DEF st, bt
      <4> QED BY <1>0, <4>1, <4>2, <4>3
    <3> QED BY <1>12, <3>1, <3>2
  <2> QED BY <1>q, <2>1, <2>2
<1> QED
  BY <1>1, <1>2, <1>3, <1>4, <1>5, <1>6, <1>7, <1>8, <1>9, <1>10, <1>11, <1>12
  DEF Next, Handle

LEMMA EchoInit == Init => EchoInv
<1> SUFFICES ASSUME Init PROVE EchoInv
  OBVIOUS
<1>1. \A a \in Agents : agent[a].recent = {}
  BY DEF Init, Fresh
<1>2. calls = {} /\ disk = db /\ db.fver = 0 /\ Listed(db) = {} /\ bans = 0
  BY DEF Init, Listed
<1>3. Owed(agent, calls) = {}
  <2>1. \A t : t \notin Owed(agent, calls)
    BY <1>1, <1>2, OwedIs
  <2> QED BY <2>1
<1> QED BY <1>2, <1>3, FS_EmptySet DEF EchoInv, Budget

\* The list changes at most twice for each ban an agent issued, for any number
\* of agents, evictions, expiries, late calls, crashes and failed writes.
THEOREM NoEcho == Spec => []NoEchoLoop
<1>1. FleetInv /\ EchoInv /\ [Next]_vars => FleetInv' /\ EchoInv'
  <2> SUFFICES ASSUME FleetInv, EchoInv, [Next]_vars PROVE FleetInv' /\ EchoInv'
    OBVIOUS
  <2>1. FleetInv'
    BY FleetStep
  <2>2. TypeInv /\ TypeInv'
    BY <2>1 DEF FleetInv
  <2> QED BY <2>1, <2>2, EchoStep
<1>2. FleetInv /\ EchoInv => NoEchoLoop
  <2> SUFFICES ASSUME FleetInv, EchoInv PROVE NoEchoLoop
    OBVIOUS
  <2>1. Stored(db) /\ bans \in Nat
    BY BoundAssumption DEF FleetInv, TypeInv
  <2>2. db.fver \in Nat /\ Cardinality(Listed(db)) \in Nat
    BY <2>1, StoredTypes, ListedFinite
  <2>3. /\ Cardinality(Owed(agent, calls)) \in Nat
        /\ db.fver + Cardinality(Listed(db)) + 2 * Cardinality(Owed(agent, calls)) <= 2 * bans
    BY FS_CardinalityType DEF EchoInv, Budget
  <2> QED BY <2>1, <2>2, <2>3 DEF NoEchoLoop
<1> QED BY <1>1, <1>2, FleetInit, EchoInit, PTL DEF Spec

============================================================================
