------------------------------ MODULE BanList ------------------------------
(***************************************************************************)
(* internal/banlist: the TTL ban table of one agent process, with its      *)
(* escalation, its size cap, its sweeper and its snapshot file.            *)
(*                                                                         *)
(* Every mutator of the store checks the allowlist and reads the clock     *)
(* BEFORE it takes the mutex.  A mutator is therefore two steps: Begin     *)
(* captures the time, Commit is the critical section, and any other        *)
(* goroutine (or the clock) may move in between.  The snapshot likewise    *)
(* copies the table under the mutex and writes and renames the file after  *)
(* it has released it.                                                     *)
(*                                                                         *)
(* Time is a number of ticks; ZeroTime is Go's zero time.Time, so the      *)
(* clock starts at 1.  Addresses are model values: parsing is elsewhere.   *)
(***************************************************************************)
EXTENDS Integers, FiniteSets, Sequences

CONSTANTS
    IPs,             \* client addresses
    Workers,         \* goroutines that call Ban, BanFor and BanFleet
    Params,          \* the [base, max, esc, maxEntries] a config may carry
    AllowSets,       \* the allowlists a config may carry
    FixedDurations,  \* durations an operator may pass to BanFor
    FleetTTL,        \* duration of a fleet ban
    RecentCap,       \* recentCap
    PersistPath,     \* is ban.persist_path set?
    NoCall,          \* a worker that is not inside the store
    BanHorizon,      \* bound: no ban is requested at or after this time
    MaxTime,         \* bound: the clock stops here
    MaxOffenses      \* bound: offences counted against one address

ZeroTime == 0

ASSUME FiniteAssumption == IsFiniteSet(IPs)
ASSUME ParamsAssumption ==
    Params \subseteq [base : Nat, max : Nat, esc : Nat \ {0}, maxEntries : Nat \ {0}]
ASSUME AllowAssumption == AllowSets \subseteq SUBSET IPs
ASSUME DurationAssumption ==
    /\ FixedDurations \subseteq Nat
    /\ FleetTTL \in Nat \ {0}
ASSUME BoundAssumption ==
    /\ RecentCap \in Nat /\ RecentCap >= 2
    /\ BanHorizon \in Nat
    /\ MaxTime \in Nat
    /\ MaxOffenses \in Nat
ASSUME PathAssumption == PersistPath \in BOOLEAN

VARIABLES
    now,        \* the clock
    banned,     \* Store.banned: address -> entry, a partial function
    allow,      \* Store.allowNets
    params,     \* Store.base, max, escalation, maxEntries (forget = max)
    recent,     \* Store.recent
    call,       \* call[w]: the mutator w is inside, with what it captured
    cutoff,     \* the sweeper's captured time, ZeroTime when it sleeps
    mode,       \* "up", "closing" (stop closed), "exited" or "crashed"
    persister,  \* persistLoop: "none", "loop", "saving", "final" or "done"
    snap,       \* the records snapshot() copied and has not renamed yet
    disk,       \* the snapshot file
    high,       \* history: latest expiry ever given to an address
    strikes     \* history: offences ever counted against an address

vars == <<now, banned, allow, params, recent, call, cutoff, mode, persister,
          snap, disk, high, strikes>>

----------------------------------------------------------------------------
(* Tables and entries. *)

Entry == [expires : Nat, offenses : Nat]
IsTable(tbl) == DOMAIN tbl \subseteq IPs /\ tbl \in [DOMAIN tbl -> Entry]
EmptyTable == [ip \in {} |-> [expires |-> ZeroTime, offenses |-> 0]]

Call == [op : {"Ban", "BanFor", "BanFleet"}, ip : IPs, d : Nat, t : Nat]

Without(tbl, S) == [ip \in DOMAIN tbl \ S |-> tbl[ip]]
Put(tbl, ip, e) ==
    [x \in DOMAIN tbl \cup {ip} |-> IF x = ip THEN e ELSE tbl[x]]

\* A map lookup, or the zero entry the mutators insert for a new address.
EntryOf(tbl, ip) ==
    IF ip \in DOMAIN tbl THEN tbl[ip] ELSE [expires |-> ZeroTime, offenses |-> 0]

Live(tbl, t) == {ip \in DOMAIN tbl : tbl[ip].expires > t}

IsAllowed(ip) == ip \in allow
IsBanned(ip) == ~IsAllowed(ip) /\ ip \in Live(banned, now)

\* escalation^n, the factor of the (n+1)-th offence.  A duration outside
\* 1..max (too long, or overflowed to zero and below) becomes max.
Pow(esc, n) ==
    LET pow[k \in 0..n] == IF k = 0 THEN 1 ELSE esc * pow[k - 1] IN pow[n]

Duration(p, offenses) ==
    LET d == p.base * Pow(p.esc, offenses - 1)
    IN  IF d \in 1..p.max THEN d ELSE p.max

\* MUTANT: evict the ban with the longest time to run.
VictimsLongest(tbl, t) ==
    {ip \in DOMAIN tbl : \A j \in DOMAIN tbl : tbl[ip].expires >= tbl[j].expires}

\* evictLocked: the map is ranged over in any order.  The first expired entry
\* met is dropped; without one, an entry that expires soonest is.
Victims(tbl, t) ==
    LET expired == {ip \in DOMAIN tbl : t > tbl[ip].expires}
        soonest == {ip \in DOMAIN tbl :
                        \A j \in DOMAIN tbl : tbl[ip].expires <= tbl[j].expires}
    IN  IF expired # {} THEN expired ELSE soonest

\* MUTANT: off by one at the cap.
IsFullLate(tbl) == Cardinality(DOMAIN tbl) > params.maxEntries

IsFull(tbl) == Cardinality(DOMAIN tbl) >= params.maxEntries

\* MUTANT: evictLocked goes on after the first victim.
MakeRoomAll(tbl, ip, t) ==
    IF ip \notin DOMAIN tbl /\ IsFull(tbl) THEN {EmptyTable} ELSE {tbl}

\* The tables a mutator may find itself with once it has made room for ip.
MakeRoom(tbl, ip, t) ==
    IF ip \notin DOMAIN tbl /\ IsFull(tbl)
    THEN {Without(tbl, {v}) : v \in Victims(tbl, t)}
    ELSE {tbl}

\* recordRecentLocked: a full buffer loses its oldest half first.
RecordRecent(buf, ip) ==
    LET kept == IF Len(buf) >= RecentCap
                THEN SubSeq(buf, (RecentCap \div 2) + 1, Len(buf))
                ELSE buf
    IN  Append(kept, ip)

\* MUTANT: a restored ban counts as one more offence.
LoadChoicesCounted(file, t, cap) ==
    {[ip \in S |-> [file[ip] EXCEPT !.offenses = @ + 1]] :
        S \in {R \in SUBSET Live(file, t) : Cardinality(R) <= cap}}

\* load: unexpired records, in map order, while there is room.
LoadChoices(file, t, cap) ==
    LET live == Live(file, t)
    IN  {[ip \in S |-> file[ip]] :
            S \in {R \in SUBSET live :
                      \/ R = live /\ Cardinality(live) <= cap
                      \/ Cardinality(R) = cap}}

Up == mode \in {"up", "closing"}
Down == mode \in {"exited", "crashed"}

----------------------------------------------------------------------------
Init ==
    /\ now = 1
    /\ banned = EmptyTable
    /\ allow \in AllowSets
    /\ params \in Params
    /\ recent = <<>>
    /\ call = [w \in Workers |-> NoCall]
    /\ cutoff = ZeroTime
    /\ mode = "up"
    /\ persister = IF PersistPath THEN "loop" ELSE "none"
    /\ snap = EmptyTable
    /\ disk = EmptyTable
    /\ high = [ip \in IPs |-> ZeroTime]
    /\ strikes = [ip \in IPs |-> 0]

\* The unlocked prologue of Ban, BanFor and BanFleet: an allowlisted address
\* returns at once, any other goes on with the time it has read.
Begin(w, op, ip, d) ==
    /\ Up
    /\ call[w] = NoCall
    /\ ~IsAllowed(ip)
    /\ now < BanHorizon
    /\ strikes[ip] < MaxOffenses
    /\ call' = [call EXCEPT ![w] = [op |-> op, ip |-> ip, d |-> d, t |-> now]]
    /\ UNCHANGED <<now, banned, allow, params, recent, cutoff, mode, persister,
                   snap, disk, high, strikes>>

BeginBan(w) == \E ip \in IPs : Begin(w, "Ban", ip, 0)
BeginBanFor(w) == \E ip \in IPs, d \in FixedDurations : Begin(w, "BanFor", ip, d)
BeginBanFleet(w) == \E ip \in IPs : Begin(w, "BanFleet", ip, FleetTTL)

\* What the critical section of Ban and BanFor makes of the entry e.
Offended(e, c) ==
    LET n == e.offenses + 1
    IN  [offenses |-> n,
         expires |-> c.t + (IF c.op = "Ban" THEN Duration(params, n) ELSE c.d)]

\* MUTANT: a fleet ban overwrites whatever expiry the entry had.
ExtendedBlindly(e, c) == [e EXCEPT !.expires = c.t + c.d]

\* What the critical section of BanFleet makes of the entry e.
Extended(e, c) ==
    IF c.t + c.d > e.expires THEN [e EXCEPT !.expires = c.t + c.d] ELSE e

Later(a, b) == IF a > b THEN a ELSE b

\* The critical section shared by Ban and BanFor.
CommitOffence(w) ==
    /\ Up
    /\ call[w] # NoCall
    /\ call[w].op \in {"Ban", "BanFor"}
    /\ LET c == call[w]
           e == Offended(EntryOf(banned, c.ip), c)
       IN  /\ \E tbl \in MakeRoom(banned, c.ip, c.t) : banned' = Put(tbl, c.ip, e)
           /\ recent' = RecordRecent(recent, c.ip)
           /\ high' = [high EXCEPT ![c.ip] = Later(@, e.expires)]
           /\ strikes' = [strikes EXCEPT ![c.ip] = @ + 1]
    /\ call' = [call EXCEPT ![w] = NoCall]
    /\ UNCHANGED <<now, allow, params, cutoff, mode, persister, snap, disk>>

CommitBanFleet(w) ==
    /\ Up
    /\ call[w] # NoCall
    /\ call[w].op = "BanFleet"
    /\ LET c == call[w]
           e == Extended(EntryOf(banned, c.ip), c)
       IN  /\ \E tbl \in MakeRoom(banned, c.ip, c.t) : banned' = Put(tbl, c.ip, e)
           /\ high' = [high EXCEPT ![c.ip] = Later(@, e.expires)]
    /\ call' = [call EXCEPT ![w] = NoCall]
    /\ UNCHANGED <<now, allow, params, recent, cutoff, mode, persister, snap,
                   disk, strikes>>

Unban(ip) ==
    /\ Up
    /\ ip \in DOMAIN banned
    /\ banned' = Without(banned, {ip})
    /\ UNCHANGED <<now, allow, params, recent, call, cutoff, mode, persister,
                   snap, disk, high, strikes>>

DrainRecent ==
    /\ Up
    /\ recent # <<>>
    /\ recent' = <<>>
    /\ UNCHANGED <<now, banned, allow, params, call, cutoff, mode, persister,
                   snap, disk, high, strikes>>

SetAllowlist ==
    /\ Up
    /\ allow' \in AllowSets
    /\ UNCHANGED <<now, banned, params, recent, call, cutoff, mode, persister,
                   snap, disk, high, strikes>>

SetParams ==
    /\ Up
    /\ params' \in Params
    /\ UNCHANGED <<now, banned, allow, recent, call, cutoff, mode, persister,
                   snap, disk, high, strikes>>

\* sweep: reads the clock ...
SweepBegin ==
    /\ Up
    /\ cutoff = ZeroTime
    /\ cutoff' = now
    /\ UNCHANGED <<now, banned, allow, params, recent, call, mode, persister,
                   snap, disk, high, strikes>>

\* MUTANT: the offence history goes as soon as the ban has run out.
ForgottenAtExpiry(tbl, t) == {ip \in DOMAIN tbl : t > tbl[ip].expires}

\* MUTANT: the comparison is the wrong way round.
ForgottenNever(tbl, t) == {ip \in DOMAIN tbl : t + params.max < tbl[ip].expires}

Forgotten(tbl, t) == {ip \in DOMAIN tbl : t > tbl[ip].expires + params.max}

\* ... and then takes the mutex and deletes what is past its forget window.
SweepCommit ==
    /\ Up
    /\ cutoff # ZeroTime
    /\ banned' = Without(banned, Forgotten(banned, cutoff))
    /\ cutoff' = ZeroTime
    /\ UNCHANGED <<now, allow, params, recent, call, mode, persister, snap,
                   disk, high, strikes>>

\* snapshot, under the mutex: the bans still in force.  Once stop is closed
\* the loop's select may still take its ticker, or make the final save.
SnapshotCollect ==
    /\ Up
    /\ persister = "loop"
    /\ snap' = [ip \in Live(banned, now) |-> banned[ip]]
    /\ \/ persister' = "saving"
       \/ mode = "closing" /\ persister' = "final"
    /\ UNCHANGED <<now, banned, allow, params, recent, call, cutoff, mode,
                   disk, high, strikes>>

\* snapshot, after the mutex: write the temporary file and rename it.  An
\* error leaves the old file and is ignored by the loop.
SnapshotWrite ==
    /\ Up
    /\ persister \in {"saving", "final"}
    /\ \/ disk' = snap
       \/ disk' = disk
    /\ persister' = IF persister = "final" THEN "done" ELSE "loop"
    /\ snap' = EmptyTable
    /\ UNCHANGED <<now, banned, allow, params, recent, call, cutoff, mode,
                   high, strikes>>

\* main's deferred bans.Close(): closes the stop channel, waits for nobody.
Close ==
    /\ mode = "up"
    /\ mode' = "closing"
    /\ UNCHANGED <<now, banned, allow, params, recent, call, cutoff, persister,
                   snap, disk, high, strikes>>

\* The process ends: every goroutine and the whole in-memory store are gone.
ProcessEnds ==
    /\ banned' = EmptyTable
    /\ recent' = <<>>
    /\ call' = [w \in Workers |-> NoCall]
    /\ cutoff' = ZeroTime
    /\ snap' = EmptyTable
    /\ UNCHANGED <<now, allow, params, persister, disk, high, strikes>>

\* main returns, straight after Close.
Exit == mode = "closing" /\ mode' = "exited" /\ ProcessEnds

Crash == Up /\ mode' = "crashed" /\ ProcessEnds

\* New and EnablePersistence with the config read at this start.  A file that
\* cannot be read leaves the agent running without persistence.
Start ==
    /\ Down
    /\ mode' = "up"
    /\ allow' \in AllowSets
    /\ params' \in Params
    /\ \/ /\ PersistPath
          /\ banned' \in LoadChoices(disk, now, params'.maxEntries)
          /\ persister' = "loop"
       \/ /\ banned' = EmptyTable
          /\ persister' = "none"
    /\ UNCHANGED <<now, recent, call, cutoff, snap, disk, high, strikes>>

Tick ==
    /\ now < MaxTime
    /\ now' = now + 1
    /\ UNCHANGED <<banned, allow, params, recent, call, cutoff, mode, persister,
                   snap, disk, high, strikes>>

Next ==
    \/ \E w \in Workers : BeginBan(w) \/ BeginBanFor(w) \/ BeginBanFleet(w)
    \/ \E w \in Workers : CommitOffence(w) \/ CommitBanFleet(w)
    \/ \E ip \in IPs : Unban(ip)
    \/ DrainRecent \/ SetAllowlist \/ SetParams
    \/ SweepBegin \/ SweepCommit
    \/ SnapshotCollect \/ SnapshotWrite
    \/ Close \/ Exit \/ Crash \/ Start \/ Tick

Spec == Init /\ [][Next]_vars

\* Time passes, the sweeper's ticker keeps firing and a goroutine inside the
\* store gets the mutex.  Nothing forces a request, a reload or a crash.
Fairness ==
    /\ WF_vars(Tick)
    /\ WF_vars(SweepBegin)
    /\ WF_vars(SweepCommit)
    /\ \A w \in Workers : WF_vars(CommitOffence(w) \/ CommitBanFleet(w))

FairSpec == Spec /\ Fairness

----------------------------------------------------------------------------
(* Properties. *)

\* Every variable has its type, and the report buffer of recordRecentLocked
\* never outgrows recentCap, however long nobody drains it.
TypeOK ==
    /\ now \in Nat
    /\ IsTable(banned)
    /\ allow \in SUBSET IPs
    /\ params \in Params
    /\ recent \in Seq(IPs) /\ Len(recent) <= RecentCap
    /\ call \in [Workers -> Call \cup {NoCall}]
    /\ cutoff \in Nat
    /\ mode \in {"up", "closing", "exited", "crashed"}
    /\ persister \in {"none", "loop", "saving", "final", "done"}
    /\ IsTable(snap)
    /\ IsTable(disk)
    /\ high \in [IPs -> Nat]
    /\ strikes \in [IPs -> Nat]

\* A ban the table, a snapshot in flight or the file holds was really issued:
\* no race, crash or restart makes a ban longer, or an address a worse
\* offender, than the calls made against it.
NoPhantomBan ==
    \A tbl \in {banned, snap, disk} : \A ip \in DOMAIN tbl :
        /\ tbl[ip].expires <= high[ip]
        /\ tbl[ip].offenses <= strikes[ip]

\* The table grows only up to the cap in force: a call, a fleet push or a
\* restart that adds addresses leaves at most maxEntries of them, although
\* SetParams may have lowered the cap under the current size.
GrowthUnderCap ==
    [][Cardinality(DOMAIN banned') > Cardinality(DOMAIN banned)
         => Cardinality(DOMAIN banned') <= params'.maxEntries]_vars

\* Making room costs the least: the evicted ban has run out by now, or no
\* remaining ban ends before it - although the victim was chosen with a time
\* read before the mutex was taken.
EvictsSoonest ==
    [][DOMAIN banned' \ DOMAIN banned # {} =>
         \A v \in DOMAIN banned \ DOMAIN banned' :
            \/ now > banned[v].expires
            \/ \A j \in DOMAIN banned \cap DOMAIN banned' :
                   banned[v].expires <= banned[j].expires]_vars

\* ip alone gave up its entry of a full table to an address that had none.
Displaced(ip) ==
    /\ Cardinality(DOMAIN banned) >= params.maxEntries
    /\ \E x \in IPs \ DOMAIN banned :
           DOMAIN banned' = (DOMAIN banned \ {ip}) \cup {x}

\* Offence history is lost only to an unban, to a newcomer that takes its
\* place in a full table, to the end of the process, or a whole forget window
\* after the ban.  A full table alone excuses nothing: neither the sweeper nor
\* a reload takes anything from it before its time.
HistoryKept ==
    [][\A ip \in DOMAIN banned :
         \/ ip \in DOMAIN banned' /\ banned'[ip].offenses >= banned[ip].offenses
         \/ Unban(ip)
         \/ Displaced(ip)
         \/ mode' \in {"exited", "crashed"}
         \/ now > banned[ip].expires + params.max]_vars

\* A ban in force ends sooner than it was set to only by an unban, a local
\* Ban or BanFor of the same address, a newcomer that takes its place in a full
\* table or the end of the process; never by a fleet push, the sweeper or a
\* reload, however full the table is.
EarlyRelease ==
    [][\A ip \in Live(banned, now) :
         \/ ip \in DOMAIN banned' /\ banned'[ip].expires >= banned[ip].expires
         \/ Unban(ip)
         \/ \E w \in Workers : CommitOffence(w) /\ call[w].ip = ip
         \/ Displaced(ip)
         \/ mode' \in {"exited", "crashed"}]_vars

\* Auto-unban: once no new ban is requested, the sweeper empties the table
\* for good, whatever the order of sweeps, stale commits, reloads and crashes.
AutoUnban == <>[](banned = EmptyTable)

----------------------------------------------------------------------------
\* The table in force, seen from the rest of the agent.
Table == INSTANCE BanTable WITH blocked <- Live(banned, now),
                                past <- {ip \in IPs : high[ip] # ZeroTime}

\* The detailed store implements the abstract one: whatever the races between
\* captured times, evictions, sweeps, snapshots, crashes and restarts, a call
\* changes the standing of its own address and of at most one other, which it
\* releases; nothing else bans anybody, and a restart only brings back bans
\* that were issued.
ImplementsTable == Table!Spec

(* What the documentation says and the code does not keep. *)

\* README: "hard cap on tracked IPs".  The table never holds more than
\* ban.max_entries addresses.
HardCap == Cardinality(DOMAIN banned) <= params.maxEntries

\* Package comment: "an IP that keeps coming back costs the attacker more
\* each time".  A further offence never brings the end of a ban forward.
OffenceLengthens ==
    [][\A w \in Workers : \A ip \in Live(banned, now) :
         CommitOffence(w) /\ call[w].op = "Ban" /\ call[w].ip = ip
           => banned'[ip].expires >= banned[ip].expires]_vars

\* config: persisted bans are "saved periodically + on shutdown".  A process
\* that exits through Close has made its final save.
SavedOnShutdown ==
    [][mode = "closing" /\ mode' = "exited" => persister \in {"none", "done"}]_vars

============================================================================
