--------------------------- MODULE BanListProofs ---------------------------
(* Machine-checked facts about BanList, for every value of its constants. *)
EXTENDS BanList, FiniteSetTheorems, TLAPS

----------------------------------------------------------------------------
(* Tables. *)

\* Deleting addresses from a table leaves a table.
LEMMA WithoutTable ==
    ASSUME NEW tbl, IsTable(tbl), NEW S
    PROVE  /\ IsTable(Without(tbl, S))
           /\ DOMAIN Without(tbl, S) = DOMAIN tbl \ S
           /\ \A ip \in DOMAIN tbl \ S : Without(tbl, S)[ip] = tbl[ip]
BY DEF IsTable, Without

\* Storing an entry in a table leaves a table.
LEMMA PutTable ==
    ASSUME NEW tbl, IsTable(tbl), NEW ip \in IPs, NEW e \in Entry
    PROVE  /\ IsTable(Put(tbl, ip, e))
           /\ DOMAIN Put(tbl, ip, e) = DOMAIN tbl \cup {ip}
           /\ Put(tbl, ip, e)[ip] = e
           /\ \A x \in DOMAIN tbl : x # ip => Put(tbl, ip, e)[x] = tbl[x]
BY DEF IsTable, Put

\* The table New starts with is a table.
LEMMA EmptyIsTable == IsTable(EmptyTable) /\ DOMAIN EmptyTable = {}
BY DEF IsTable, EmptyTable

\* What a mutator looks up is an entry.
LEMMA EntryOfType ==
    ASSUME NEW tbl, IsTable(tbl), NEW ip
    PROVE  EntryOf(tbl, ip) \in Entry
BY DEF IsTable, EntryOf, Entry, ZeroTime

\* Ban never applies a duration outside 0..max, whatever the escalation.
LEMMA DurationType ==
    ASSUME NEW p \in Params, NEW n
    PROVE  Duration(p, n) \in Nat /\ Duration(p, n) <= p.max
<1> DEFINE d == p.base * Pow(p.esc, n - 1)
<1>1. p.max \in Nat
  BY ParamsAssumption
<1>2. Duration(p, n) = IF d \in 1..p.max THEN d ELSE p.max
  BY DEF Duration
<1> HIDE DEF d
<1> QED BY <1>1, <1>2

\* evictLocked takes at most one entry away and adds none.
LEMMA MakeRoomTable ==
    ASSUME NEW tbl, IsTable(tbl), NEW ip, NEW t, NEW room \in MakeRoom(tbl, ip, t)
    PROVE  /\ IsTable(room)
           /\ DOMAIN room \subseteq DOMAIN tbl
           /\ \A x \in DOMAIN room : room[x] = tbl[x]
           /\ \/ room = tbl /\ (ip \in DOMAIN tbl \/ ~IsFull(tbl))
              \/ /\ ip \notin DOMAIN tbl
                 /\ IsFull(tbl)
                 /\ \E v \in Victims(tbl, t) : room = Without(tbl, {v})
<1>1. CASE ip \notin DOMAIN tbl /\ IsFull(tbl)
  <2>1. PICK v \in Victims(tbl, t) : room = Without(tbl, {v})
    BY <1>1 DEF MakeRoom
  <2>2. /\ IsTable(room)
        /\ DOMAIN room = DOMAIN tbl \ {v}
        /\ \A x \in DOMAIN tbl \ {v} : room[x] = tbl[x]
    BY <2>1, WithoutTable
  <2> QED BY <1>1, <2>1, <2>2
<1>2. CASE ~(ip \notin DOMAIN tbl /\ IsFull(tbl))
  BY <1>2 DEF MakeRoom
<1> QED BY <1>1, <1>2

\* A victim is an entry of the table.
LEMMA VictimsInTable ==
    ASSUME NEW tbl, NEW t, NEW v \in Victims(tbl, t)
    PROVE  v \in DOMAIN tbl
BY DEF Victims

\* What load restores is a part of the file, no larger than the cap.
LEMMA LoadTable ==
    ASSUME NEW file, IsTable(file), NEW t, NEW cap \in Nat,
           NEW tbl \in LoadChoices(file, t, cap)
    PROVE  /\ IsTable(tbl)
           /\ DOMAIN tbl \subseteq DOMAIN file
           /\ \A ip \in DOMAIN tbl : tbl[ip] = file[ip]
           /\ Cardinality(DOMAIN tbl) <= cap
<1>1. PICK S \in SUBSET Live(file, t) :
          /\ tbl = [ip \in S |-> file[ip]]
          /\ (S = Live(file, t) /\ Cardinality(S) <= cap) \/ Cardinality(S) = cap
  BY DEF LoadChoices
<1>2. S \subseteq DOMAIN file
  BY DEF Live
<1>3. Cardinality(S) <= cap
  BY <1>1
<1> QED BY <1>1, <1>2, <1>3 DEF IsTable

\* recordRecentLocked keeps the buffer a sequence of addresses within the cap.
LEMMA RecordRecentBound ==
    ASSUME NEW buf \in Seq(IPs), Len(buf) <= RecentCap, NEW ip \in IPs
    PROVE  /\ RecordRecent(buf, ip) \in Seq(IPs)
           /\ Len(RecordRecent(buf, ip)) <= RecentCap
<1> DEFINE h == RecentCap \div 2
           kept == SubSeq(buf, h + 1, Len(buf))
<1>1. h \in Nat /\ h >= 1 /\ h <= RecentCap /\ RecentCap \in Nat
  BY BoundAssumption
<1>2. CASE Len(buf) >= RecentCap
  <2>1. Len(buf) = RecentCap
    BY <1>2, <1>1
  <2>2. kept \in Seq(IPs) /\ Len(kept) = RecentCap - h
    BY <2>1, <1>1
  <2>3. RecordRecent(buf, ip) = Append(kept, ip)
    BY <1>2 DEF RecordRecent
  <2> HIDE DEF kept, h
  <2> QED BY <2>2, <2>3, <1>1
<1>3. CASE ~(Len(buf) >= RecentCap)
  <2>1. RecordRecent(buf, ip) = Append(buf, ip)
    BY <1>3 DEF RecordRecent
  <2> HIDE DEF kept, h
  <2> QED BY <2>1, <1>3, <1>1
<1> QED BY <1>2, <1>3

----------------------------------------------------------------------------
(* Types. *)

\* The two mutators write entries.
LEMMA NewEntries ==
    ASSUME params \in Params, NEW e \in Entry, NEW c \in Call
    PROVE  Offended(e, c) \in Entry /\ Extended(e, c) \in Entry
<1>1. /\ c.t \in Nat /\ c.d \in Nat
      /\ e.expires \in Nat /\ e.offenses \in Nat
  BY DEF Call, Entry
<1>2. Duration(params, e.offenses + 1) \in Nat
  BY DurationType
<1>3. Offended(e, c) \in Entry
  BY <1>1, <1>2 DEF Offended, Entry
<1>4. Extended(e, c) \in Entry
  BY <1>1 DEF Extended, Entry
<1> QED BY <1>3, <1>4

\* The critical sections of Ban, BanFor and BanFleet leave a table.
LEMMA CommitTable ==
    ASSUME IsTable(banned), params \in Params, NEW c \in Call,
           NEW room \in MakeRoom(banned, c.ip, c.t)
    PROVE  /\ IsTable(Put(room, c.ip, Offended(EntryOf(banned, c.ip), c)))
           /\ IsTable(Put(room, c.ip, Extended(EntryOf(banned, c.ip), c)))
<1>1. c.ip \in IPs
  BY DEF Call
<1>2. EntryOf(banned, c.ip) \in Entry
  BY EntryOfType
<1>3. /\ Offended(EntryOf(banned, c.ip), c) \in Entry
      /\ Extended(EntryOf(banned, c.ip), c) \in Entry
  BY <1>2, NewEntries
<1>4. IsTable(room)
  BY MakeRoomTable
<1> QED BY <1>1, <1>3, <1>4, PutTable

\* A state of the store stays well typed, and the buffer within recentCap,
\* across every operation, crash and restart.
LEMMA TypeStep == TypeOK /\ [Next]_vars => TypeOK'
<1> SUFFICES ASSUME TypeOK, [Next]_vars PROVE TypeOK'
  OBVIOUS
<1> USE DEF TypeOK
<1>1. ASSUME NEW w \in Workers, BeginBan(w) \/ BeginBanFor(w) \/ BeginBanFleet(w)
      PROVE  TypeOK'
  <2>1. PICK op \in {"Ban", "BanFor", "BanFleet"}, ip \in IPs, d \in Nat :
            Begin(w, op, ip, d)
    BY <1>1, DurationAssumption DEF BeginBan, BeginBanFor, BeginBanFleet
  <2>2. [op |-> op, ip |-> ip, d |-> d, t |-> now] \in Call
    BY DEF Call
  <2> QED BY <2>1, <2>2 DEF Begin
<1>2. ASSUME NEW w \in Workers, CommitOffence(w)
      PROVE  TypeOK'
  <2> DEFINE c == call[w]
             e == Offended(EntryOf(banned, c.ip), c)
  <2>1. c \in Call /\ c.ip \in IPs
    BY <1>2 DEF CommitOffence, Call
  <2>2. e \in Entry
    BY <2>1, EntryOfType, NewEntries
  <2>3. IsTable(banned')
    BY <1>2, <2>1, CommitTable DEF CommitOffence
  <2>4. recent' \in Seq(IPs) /\ Len(recent') <= RecentCap
    BY <1>2, <2>1, RecordRecentBound DEF CommitOffence
  <2>5. high' \in [IPs -> Nat] /\ strikes' \in [IPs -> Nat]
    BY <1>2, <2>1, <2>2 DEF CommitOffence, Later, Entry
  <2>6. call' \in [Workers -> Call \cup {NoCall}]
    BY <1>2 DEF CommitOffence
  <2> QED BY <1>2, <2>3, <2>4, <2>5, <2>6 DEF CommitOffence
<1>3. ASSUME NEW w \in Workers, CommitBanFleet(w)
      PROVE  TypeOK'
  <2> DEFINE c == call[w]
             e == Extended(EntryOf(banned, c.ip), c)
  <2>1. c \in Call /\ c.ip \in IPs
    BY <1>3 DEF CommitBanFleet, Call
  <2>2. e \in Entry
    BY <2>1, EntryOfType, NewEntries
  <2>3. IsTable(banned')
    BY <1>3, <2>1, CommitTable DEF CommitBanFleet
  <2>4. high' \in [IPs -> Nat]
    BY <1>3, <2>1, <2>2 DEF CommitBanFleet, Later, Entry
  <2>5. call' \in [Workers -> Call \cup {NoCall}]
    BY <1>3 DEF CommitBanFleet
  <2> QED BY <1>3, <2>3, <2>4, <2>5 DEF CommitBanFleet
<1>4. ASSUME NEW ip \in IPs, Unban(ip)
      PROVE  TypeOK'
  BY <1>4, WithoutTable DEF Unban
<1>5. CASE DrainRecent
  BY <1>5, BoundAssumption DEF DrainRecent
<1>6. CASE SetAllowlist \/ SetParams
  BY <1>6, AllowAssumption DEF SetAllowlist, SetParams
<1>7. CASE SweepBegin \/ SweepCommit
  <2> DEFINE gone == Forgotten(banned, cutoff)
  <2>0. IsTable(Without(banned, gone))
    BY WithoutTable
  <2>1. IsTable(banned')
    BY <1>7, <2>0 DEF SweepBegin, SweepCommit
  <2>2. cutoff' \in Nat
    BY <1>7 DEF SweepBegin, SweepCommit, ZeroTime
  <2> QED BY <1>7, <2>1, <2>2 DEF SweepBegin, SweepCommit
<1>8. CASE SnapshotCollect
  <2>1. IsTable(snap')
    BY <1>8 DEF SnapshotCollect, Live, IsTable
  <2> QED BY <1>8, <2>1 DEF SnapshotCollect
<1>9. CASE SnapshotWrite
  BY <1>9, EmptyIsTable DEF SnapshotWrite
<1>10. CASE Close
  BY <1>10 DEF Close
<1>11. CASE Exit \/ Crash
  <2>1. ProcessEnds /\ mode' \in {"exited", "crashed"}
    BY <1>11 DEF Exit, Crash
  <2>2. IsTable(banned') /\ IsTable(snap') /\ IsTable(disk')
    BY <2>1, EmptyIsTable DEF ProcessEnds
  <2>3. /\ recent' \in Seq(IPs) /\ Len(recent') <= RecentCap
        /\ call' \in [Workers -> Call \cup {NoCall}]
        /\ cutoff' \in Nat
    BY <2>1, BoundAssumption DEF ProcessEnds, ZeroTime
  <2> QED BY <2>1, <2>2, <2>3 DEF ProcessEnds
<1>12. CASE Start
  <2>1. params' \in Params /\ params'.maxEntries \in Nat
    BY <1>12, ParamsAssumption DEF Start
  <2>2. IsTable(banned')
    BY <1>12, <2>1, LoadTable, EmptyIsTable DEF Start
  <2> QED BY <1>12, <2>1, <2>2, AllowAssumption DEF Start
<1>13. CASE Tick
  BY <1>13 DEF Tick
<1>14. CASE UNCHANGED vars
  BY <1>14 DEF vars
<1> QED BY <1>1, <1>2, <1>3, <1>4, <1>5, <1>6, <1>7, <1>8, <1>9, <1>10, <1>11,
           <1>12, <1>13, <1>14 DEF Next

\* Every reachable state of the ban store is well typed and its report buffer
\* stays within recentCap, for any number of addresses and goroutines.
THEOREM TypeCorrect == Spec => []TypeOK
<1>1. Init => TypeOK
  BY EmptyIsTable, AllowAssumption, BoundAssumption
  DEF Init, TypeOK, ZeroTime
<1>2. TypeOK /\ [Next]_vars => TypeOK'
  BY TypeStep
<1> QED BY <1>1, <1>2, PTL DEF Spec

----------------------------------------------------------------------------
(* No phantom bans. *)

\* Every entry of tbl is accounted for by the histories h and k.
Backed(tbl, h, k) ==
    \A ip \in DOMAIN tbl : tbl[ip].expires <= h[ip] /\ tbl[ip].offenses <= k[ip]

\* The histories only grow, so what they account for stays accounted for.
LEMMA BackedMonotone ==
    ASSUME NEW tbl, IsTable(tbl),
           NEW h \in [IPs -> Nat], NEW k \in [IPs -> Nat],
           NEW h2 \in [IPs -> Nat], NEW k2 \in [IPs -> Nat],
           \A ip \in IPs : h[ip] <= h2[ip] /\ k[ip] <= k2[ip],
           Backed(tbl, h, k)
    PROVE  Backed(tbl, h2, k2)
<1> SUFFICES ASSUME NEW ip \in DOMAIN tbl
             PROVE  tbl[ip].expires <= h2[ip] /\ tbl[ip].offenses <= k2[ip]
  BY DEF Backed
<1>1. ip \in IPs /\ tbl[ip].expires \in Nat /\ tbl[ip].offenses \in Nat
  BY DEF IsTable, Entry
<1>2. tbl[ip].expires <= h[ip] /\ tbl[ip].offenses <= k[ip]
  BY DEF Backed
<1> QED BY <1>1, <1>2

\* A part of an accounted table is accounted for.
LEMMA BackedPart ==
    ASSUME NEW tbl, NEW h, NEW k, Backed(tbl, h, k),
           NEW part, DOMAIN part \subseteq DOMAIN tbl,
           \A ip \in DOMAIN part : part[ip] = tbl[ip]
    PROVE  Backed(part, h, k)
BY DEF Backed

\* A critical section that stores e for ip, and records e in the histories,
\* leaves the table accounted for.
LEMMA BackedPut ==
    ASSUME NEW tbl, IsTable(tbl), NEW ip \in IPs, NEW e \in Entry,
           NEW h, NEW k, Backed(tbl, h, k), e.expires <= h[ip], e.offenses <= k[ip]
    PROVE  Backed(Put(tbl, ip, e), h, k)
<1>1. /\ DOMAIN Put(tbl, ip, e) = DOMAIN tbl \cup {ip}
      /\ Put(tbl, ip, e)[ip] = e
      /\ \A x \in DOMAIN tbl : x # ip => Put(tbl, ip, e)[x] = tbl[x]
  BY PutTable
<1> QED BY <1>1 DEF Backed

\* Ban, BanFor, BanFleet, sweeps, snapshots, crashes and restarts keep every
\* entry of the table, of a snapshot in flight and of the file accounted for.
LEMMA PhantomStep == TypeOK /\ TypeOK' /\ NoPhantomBan /\ [Next]_vars => NoPhantomBan'
<1> SUFFICES ASSUME TypeOK, TypeOK', NoPhantomBan, [Next]_vars
             PROVE  NoPhantomBan'
  OBVIOUS
<1>a. Backed(banned, high, strikes) /\ Backed(snap, high, strikes)
      /\ Backed(disk, high, strikes)
  BY DEF NoPhantomBan, Backed
<1>t. /\ IsTable(banned) /\ IsTable(snap) /\ IsTable(disk)
      /\ high \in [IPs -> Nat] /\ strikes \in [IPs -> Nat]
      /\ high' \in [IPs -> Nat] /\ strikes' \in [IPs -> Nat]
      /\ params \in Params
  BY DEF TypeOK
<1>b. SUFFICES /\ Backed(banned', high', strikes')
               /\ Backed(snap', high', strikes')
               /\ Backed(disk', high', strikes')
  BY DEF NoPhantomBan, Backed
<1>e. Backed(EmptyTable, high', strikes')
  BY EmptyIsTable DEF Backed
<1>1. ASSUME NEW w \in Workers, CommitOffence(w) \/ CommitBanFleet(w)
      PROVE  /\ Backed(banned', high', strikes')
             /\ Backed(snap', high', strikes')
             /\ Backed(disk', high', strikes')
  <2> DEFINE c == call[w]
             old == EntryOf(banned, c.ip)
             e == IF CommitOffence(w) THEN Offended(old, c) ELSE Extended(old, c)
  <2>1. c \in Call /\ c.ip \in IPs
    BY <1>1 DEF CommitOffence, CommitBanFleet, Call, TypeOK
  <2>2. old \in Entry /\ e \in Entry
    BY <1>t, <2>1, EntryOfType, NewEntries
  <2>3. old.offenses <= strikes[c.ip] /\ old.expires <= high[c.ip]
    BY <1>a, <1>t, <2>1 DEF EntryOf, Backed, ZeroTime
  <2>4. /\ high' = [high EXCEPT ![c.ip] = Later(@, e.expires)]
        /\ \E room \in MakeRoom(banned, c.ip, c.t) : banned' = Put(room, c.ip, e)
        /\ snap' = snap /\ disk' = disk
        /\ strikes' = IF CommitOffence(w) THEN [strikes EXCEPT ![c.ip] = @ + 1] ELSE strikes
    BY <1>1 DEF CommitOffence, CommitBanFleet
  <2>5. e.offenses = IF CommitOffence(w) THEN old.offenses + 1 ELSE old.offenses
    BY <2>2 DEF Offended, Extended, Entry
  <2> HIDE DEF e, old
  <2>6. \A ip \in IPs : high[ip] <= high'[ip] /\ strikes[ip] <= strikes'[ip]
    BY <1>t, <2>1, <2>2, <2>4 DEF Later, Entry
  <2>7. e.expires <= high'[c.ip]
    BY <1>t, <2>1, <2>2, <2>4 DEF Later, Entry
  <2>8. e.offenses <= strikes'[c.ip]
    BY <1>t, <2>1, <2>2, <2>3, <2>4, <2>5 DEF Entry
  <2>9. /\ Backed(banned, high', strikes')
        /\ Backed(snap, high', strikes')
        /\ Backed(disk, high', strikes')
    BY <1>a, <1>t, <2>6, BackedMonotone
  <2>10. PICK room \in MakeRoom(banned, c.ip, c.t) : banned' = Put(room, c.ip, e)
    BY <2>4
  <2>11. IsTable(room) /\ Backed(room, high', strikes')
    BY <1>t, <2>9, MakeRoomTable, BackedPart
  <2> QED BY <2>1, <2>2, <2>4, <2>7, <2>8, <2>9, <2>10, <2>11, BackedPut
<1>2. ASSUME NEW S, banned' = Without(banned, S),
             UNCHANGED <<snap, disk, high, strikes>>
      PROVE  /\ Backed(banned', high', strikes')
             /\ Backed(snap', high', strikes')
             /\ Backed(disk', high', strikes')
  <2>1. /\ DOMAIN banned' \subseteq DOMAIN banned
        /\ \A ip \in DOMAIN banned' : banned'[ip] = banned[ip]
    BY <1>2 DEF Without
  <2>2. Backed(banned', high, strikes)
    BY <1>a, <2>1, BackedPart
  <2> QED BY <1>2, <1>a, <2>2
<1>3. CASE UNCHANGED <<banned, snap, disk, high, strikes>>
  BY <1>3, <1>a
<1>4. CASE SnapshotCollect
  <2>1. DOMAIN snap' = Live(banned, now) /\ \A ip \in DOMAIN snap' : snap'[ip] = banned[ip]
    BY <1>4 DEF SnapshotCollect
  <2>2. Backed(snap', high, strikes)
    BY <1>a, <2>1, BackedPart DEF Live
  <2> QED BY <1>4, <1>a, <2>2 DEF SnapshotCollect
<1>5. CASE SnapshotWrite
  BY <1>5, <1>a, <1>e DEF SnapshotWrite
<1>6. CASE Exit \/ Crash
  BY <1>6, <1>a, <1>e DEF Exit, Crash, ProcessEnds
<1>7. CASE Start
  <2>1. params'.maxEntries \in Nat
    BY <1>7, ParamsAssumption DEF Start
  <2>2. \/ banned' = EmptyTable
        \/ banned' \in LoadChoices(disk, now, params'.maxEntries)
    BY <1>7 DEF Start
  <2>3. Backed(banned', high', strikes')
    <3>1. CASE banned' = EmptyTable
      BY <3>1, <1>e
    <3>2. CASE banned' \in LoadChoices(disk, now, params'.maxEntries)
      <4>1. /\ DOMAIN banned' \subseteq DOMAIN disk
            /\ \A ip \in DOMAIN banned' : banned'[ip] = disk[ip]
        BY <3>2, <2>1, <1>t, LoadTable
      <4> QED BY <4>1, <1>a, <1>7, BackedPart DEF Start
    <3> QED BY <2>2, <3>1, <3>2
  <2> QED BY <1>7, <1>a, <2>3 DEF Start
<1>8. ASSUME NEW ip \in IPs, Unban(ip)
      PROVE  banned' = Without(banned, {ip}) /\ UNCHANGED <<snap, disk, high, strikes>>
  BY <1>8 DEF Unban
<1>9. CASE SweepCommit
  BY <1>2, <1>9 DEF SweepCommit
<1>10. ASSUME \/ \E w \in Workers : BeginBan(w) \/ BeginBanFor(w) \/ BeginBanFleet(w)
              \/ DrainRecent \/ SetAllowlist \/ SetParams \/ SweepBegin \/ Close
              \/ Tick \/ UNCHANGED vars
       PROVE UNCHANGED <<banned, snap, disk, high, strikes>>
  BY <1>10 DEF BeginBan, BeginBanFor, BeginBanFleet, Begin, DrainRecent, SetAllowlist,
               SetParams, SweepBegin, Close, Tick, vars
<1> QED BY <1>1, <1>2, <1>3, <1>4, <1>5, <1>6, <1>7, <1>8, <1>9, <1>10 DEF Next

\* Whatever the order of bans, fleet pushes, sweeps, snapshots, crashes and
\* restarts, the table and the file only hold bans that were issued.
THEOREM NoPhantom == Spec => []NoPhantomBan
<1>1. Init => NoPhantomBan
  BY EmptyIsTable DEF Init, NoPhantomBan
<1>2. TypeOK /\ TypeOK' /\ NoPhantomBan /\ [Next]_vars => NoPhantomBan'
  BY PhantomStep
<1> QED BY <1>1, <1>2, TypeCorrect, PTL DEF Spec

----------------------------------------------------------------------------
(* What a step may do to the table. *)

\* A time read before the mutex is never ahead of the clock, and a process
\* that is down holds no table.
Captured ==
    /\ \A w \in Workers : call[w] # NoCall => call[w].t <= now
    /\ cutoff <= now
    /\ Down => banned = EmptyTable

\* Captured is kept by every step.
LEMMA CapturedStep == TypeOK /\ Captured /\ [Next]_vars => Captured'
<1> SUFFICES ASSUME TypeOK, Captured, [Next]_vars PROVE Captured'
  OBVIOUS
<1>t. now \in Nat /\ cutoff \in Nat /\ call \in [Workers -> Call \cup {NoCall}]
  BY DEF TypeOK
<1>c. \A w \in Workers : call[w] # NoCall => call[w].t \in Nat
  BY <1>t DEF Call
<1> USE DEF Captured, Up, Down
<1>1. ASSUME NEW w \in Workers, BeginBan(w) \/ BeginBanFor(w) \/ BeginBanFleet(w)
      PROVE  Captured'
  <2>1. PICK op, ip, d : Begin(w, op, ip, d)
    BY <1>1 DEF BeginBan, BeginBanFor, BeginBanFleet
  <2>2. \A v \in Workers : v # w => call'[v] = call[v]
    BY <1>t, <2>1 DEF Begin
  <2>3. call'[w].t = now
    BY <1>t, <2>1 DEF Begin
  <2> QED BY <1>t, <1>c, <2>1, <2>2, <2>3 DEF Begin
<1>2. ASSUME NEW w \in Workers, CommitOffence(w) \/ CommitBanFleet(w)
      PROVE  Captured'
  BY <1>2, <1>t, <1>c DEF CommitOffence, CommitBanFleet
<1>3. CASE Exit \/ Crash
  <2>1. ProcessEnds
    BY <1>3 DEF Exit, Crash
  <2> QED BY <2>1, <1>t DEF ProcessEnds, ZeroTime
<1>4. CASE Tick
  BY <1>4, <1>t, <1>c DEF Tick
<1>5. CASE SweepBegin \/ SweepCommit
  BY <1>5, <1>t DEF SweepBegin, SweepCommit, ZeroTime
<1>6. ASSUME \/ \E ip \in IPs : Unban(ip)
             \/ DrainRecent \/ SetAllowlist \/ SetParams \/ SnapshotCollect
             \/ SnapshotWrite \/ Close \/ Start \/ UNCHANGED vars
      PROVE  Captured'
  BY <1>6 DEF Unban, DrainRecent, SetAllowlist, SetParams, SnapshotCollect,
              SnapshotWrite, Close, Start, vars
<1> QED BY <1>1, <1>2, <1>3, <1>4, <1>5, <1>6 DEF Next

\* Captured is an invariant of the store.
LEMMA CapturedInv == Spec => []Captured
<1>1. Init => Captured
  BY DEF Init, Captured, Down, ZeroTime
<1> QED BY <1>1, CapturedStep, TypeCorrect, PTL DEF Spec

\* The critical section of a mutator: room is made, one entry is written.
Commit(w) ==
    LET c == call[w] IN
    /\ c \in Call /\ c # NoCall
    /\ \E room \in MakeRoom(banned, c.ip, c.t), e \in Entry :
          /\ banned' = Put(room, c.ip, e)
          /\ e.offenses >= EntryOf(banned, c.ip).offenses
          /\ \/ e.expires >= EntryOf(banned, c.ip).expires
             \/ CommitOffence(w)
    /\ params' = params

\* Ban, BanFor and BanFleet all end in such a critical section.
LEMMA CommitIsCommit ==
    ASSUME TypeOK, NEW w \in Workers, CommitOffence(w) \/ CommitBanFleet(w)
    PROVE  Commit(w)
<1> DEFINE c == call[w]
           old == EntryOf(banned, c.ip)
<1>1. c \in Call /\ c.ip \in IPs /\ params \in Params /\ IsTable(banned)
  BY DEF CommitOffence, CommitBanFleet, Call, TypeOK
<1>2. old \in Entry /\ Offended(old, c) \in Entry /\ Extended(old, c) \in Entry
  BY <1>1, EntryOfType, NewEntries
<1>3. Offended(old, c).offenses >= old.offenses
  BY <1>2 DEF Offended, Entry
<1>4. /\ Extended(old, c).offenses >= old.offenses
      /\ Extended(old, c).expires >= old.expires
  BY <1>1, <1>2 DEF Extended, Entry, Call
<1>5. CASE CommitOffence(w)
  <2>1. PICK room \in MakeRoom(banned, c.ip, c.t) :
            banned' = Put(room, c.ip, Offended(old, c))
    BY <1>5 DEF CommitOffence
  <2> HIDE DEF old
  <2> QED BY <1>5, <1>1, <1>2, <1>3, <2>1 DEF Commit, CommitOffence, old
<1>6. CASE CommitBanFleet(w)
  <2>1. PICK room \in MakeRoom(banned, c.ip, c.t) :
            banned' = Put(room, c.ip, Extended(old, c))
    BY <1>6 DEF CommitBanFleet
  <2> HIDE DEF old
  <2> QED BY <1>6, <1>1, <1>2, <1>4, <2>1 DEF Commit, CommitBanFleet, old
<1> QED BY <1>5, <1>6

\* The six things a step can do to the table.
LEMMA StepShape ==
    ASSUME TypeOK, Captured, [Next]_vars
    PROVE  \/ banned' = banned
           \/ \E w \in Workers : Commit(w)
           \/ \E ip \in IPs : Unban(ip)
           \/ banned' = Without(banned, Forgotten(banned, cutoff))
           \/ banned' = EmptyTable /\ mode' \in {"exited", "crashed"}
           \/ /\ banned = EmptyTable
              /\ params' \in Params
              /\ banned' \in LoadChoices(disk, now, params'.maxEntries)
<1>1. ASSUME NEW w \in Workers, CommitOffence(w) \/ CommitBanFleet(w)
      PROVE  Commit(w)
  BY <1>1, CommitIsCommit
<1>2. CASE SweepCommit
  BY <1>2 DEF SweepCommit
<1>3. CASE Exit \/ Crash
  BY <1>3 DEF Exit, Crash, ProcessEnds
<1>4. CASE Start
  BY <1>4 DEF Start, Captured
<1>5. ASSUME \/ \E w \in Workers : BeginBan(w) \/ BeginBanFor(w) \/ BeginBanFleet(w)
             \/ DrainRecent \/ SetAllowlist \/ SetParams \/ SweepBegin
             \/ SnapshotCollect \/ SnapshotWrite \/ Close \/ Tick \/ UNCHANGED vars
      PROVE  banned' = banned
  BY <1>5 DEF BeginBan, BeginBanFor, BeginBanFleet, Begin, DrainRecent, SetAllowlist,
              SetParams, SweepBegin, SnapshotCollect, SnapshotWrite, Close, Tick, vars
<1> QED BY <1>1, <1>2, <1>3, <1>4, <1>5 DEF Next

\* A critical section either writes the entry of an address it knows, or adds
\* an address under the cap, or trades one victim of a full table for it.
LEMMA CommitShape ==
    ASSUME TypeOK, NEW w \in Workers, Commit(w)
    PROVE  \E v :
           LET ip == call[w].ip
           IN  /\ ip \in IPs /\ ip \in DOMAIN banned'
               /\ \A x \in DOMAIN banned \cap DOMAIN banned' :
                      x # ip => banned'[x] = banned[x]
               /\ \/ ip \in DOMAIN banned /\ DOMAIN banned' = DOMAIN banned
                  \/ /\ ip \notin DOMAIN banned /\ ~IsFull(banned)
                     /\ DOMAIN banned' = DOMAIN banned \cup {ip}
                  \/ /\ ip \notin DOMAIN banned /\ IsFull(banned)
                     /\ v \in Victims(banned, call[w].t)
                     /\ DOMAIN banned' = (DOMAIN banned \ {v}) \cup {ip}
<1> DEFINE c == call[w]
<1>1. PICK room \in MakeRoom(banned, c.ip, c.t), e \in Entry :
          banned' = Put(room, c.ip, e)
  BY DEF Commit
<1>2. c.ip \in IPs /\ IsTable(banned)
  BY DEF Commit, Call, TypeOK
<1>3. /\ IsTable(room)
      /\ \A x \in DOMAIN room : room[x] = banned[x]
      /\ \/ room = banned /\ (c.ip \in DOMAIN banned \/ ~IsFull(banned))
         \/ /\ c.ip \notin DOMAIN banned
            /\ IsFull(banned)
            /\ \E v \in Victims(banned, c.t) : room = Without(banned, {v})
  BY <1>2, MakeRoomTable
<1>4. /\ DOMAIN banned' = DOMAIN room \cup {c.ip}
      /\ \A x \in DOMAIN room : x # c.ip => banned'[x] = room[x]
  <2>1. /\ DOMAIN Put(room, c.ip, e) = DOMAIN room \cup {c.ip}
        /\ \A x \in DOMAIN room : x # c.ip => Put(room, c.ip, e)[x] = room[x]
    BY DEF Put
  <2> QED BY <1>1, <2>1
<1>5. CASE room = banned /\ (c.ip \in DOMAIN banned \/ ~IsFull(banned))
  BY <1>2, <1>4, <1>5
<1>6. CASE /\ c.ip \notin DOMAIN banned
           /\ IsFull(banned)
           /\ \E v \in Victims(banned, c.t) : room = Without(banned, {v})
  <2>1. PICK v \in Victims(banned, c.t) : room = Without(banned, {v})
    BY <1>6
  <2>2. DOMAIN room = DOMAIN banned \ {v}
    BY <2>1, <1>2, WithoutTable
  <2>3. \A x \in DOMAIN banned \cap DOMAIN banned' :
            x # c.ip => banned'[x] = banned[x]
    BY <1>3, <1>4
  <2> QED BY <1>2, <1>4, <1>6, <2>1, <2>2, <2>3
<1> QED BY <1>3, <1>5, <1>6

\* A call, a fleet push or a restart that adds addresses to the table leaves
\* at most maxEntries of them, whatever reloads did to the cap before.
THEOREM GrowthIsCapped == Spec => GrowthUnderCap
<1> DEFINE Capped == Cardinality(DOMAIN banned') > Cardinality(DOMAIN banned)
                        => Cardinality(DOMAIN banned') <= params'.maxEntries
<1>1. ASSUME TypeOK, Captured, [Next]_vars PROVE Capped
  <2>t. /\ IsTable(banned) /\ IsTable(disk)
        /\ params \in Params /\ params.maxEntries \in Nat
    BY <1>1, ParamsAssumption DEF TypeOK
  <2>f. IsFiniteSet(DOMAIN banned) /\ Cardinality(DOMAIN banned) \in Nat
    BY <2>t, FiniteAssumption, FS_Subset, FS_CardinalityType DEF IsTable
  <2>s. ASSUME DOMAIN banned' \subseteq DOMAIN banned PROVE Capped
    <3>1. Cardinality(DOMAIN banned') <= Cardinality(DOMAIN banned)
      BY <2>f, <2>s, FS_Subset
    <3>2. Cardinality(DOMAIN banned') \in Nat
      BY <2>f, <2>s, FS_Subset, FS_CardinalityType
    <3> QED BY <2>f, <3>1, <3>2
  <2>1. ASSUME NEW w \in Workers, Commit(w) PROVE Capped
    <3> DEFINE ip == call[w].ip
    <3>1. PICK v :
            \/ DOMAIN banned' = DOMAIN banned
            \/ /\ ip \notin DOMAIN banned /\ ~IsFull(banned)
               /\ DOMAIN banned' = DOMAIN banned \cup {ip}
            \/ /\ ip \notin DOMAIN banned
               /\ v \in Victims(banned, call[w].t)
               /\ DOMAIN banned' = (DOMAIN banned \ {v}) \cup {ip}
      BY <1>1, <2>1, CommitShape
    <3>p. params' = params
      BY <2>1 DEF Commit
    <3> HIDE DEF ip
    <3>2. CASE DOMAIN banned' = DOMAIN banned
      BY <3>2, <2>s
    <3>3. CASE /\ ip \notin DOMAIN banned /\ ~IsFull(banned)
               /\ DOMAIN banned' = DOMAIN banned \cup {ip}
      <4>1. Cardinality(DOMAIN banned') = Cardinality(DOMAIN banned) + 1
        BY <3>3, <2>f, FS_AddElement
      <4>2. Cardinality(DOMAIN banned) < params.maxEntries
        BY <3>3, <2>t, <2>f DEF IsFull
      <4> QED BY <4>1, <4>2, <3>p, <2>t, <2>f
    <3>4. CASE /\ ip \notin DOMAIN banned
               /\ v \in Victims(banned, call[w].t)
               /\ DOMAIN banned' = (DOMAIN banned \ {v}) \cup {ip}
      <4>1. v \in DOMAIN banned
        BY <3>4, VictimsInTable
      <4>2. /\ IsFiniteSet(DOMAIN banned \ {v})
            /\ Cardinality(DOMAIN banned \ {v}) = Cardinality(DOMAIN banned) - 1
        BY <4>1, <2>f, FS_RemoveElement
      <4>3. Cardinality(DOMAIN banned') = Cardinality(DOMAIN banned \ {v}) + 1
        BY <3>4, <4>2, FS_AddElement
      <4> QED BY <4>2, <4>3, <2>f
    <3> QED BY <3>1, <3>2, <3>3, <3>4
  <2>2. ASSUME NEW ip \in IPs, Unban(ip) PROVE Capped
    BY <2>2, <2>s, <2>t, WithoutTable DEF Unban
  <2>3. CASE banned' = Without(banned, Forgotten(banned, cutoff))
    <3>1. DOMAIN banned' = DOMAIN banned \ Forgotten(banned, cutoff)
      BY <2>3, <2>t, WithoutTable
    <3> QED BY <3>1, <2>s
  <2>4. CASE banned' = EmptyTable
    BY <2>4, <2>s, EmptyIsTable
  <2>5. CASE params' \in Params /\ banned' \in LoadChoices(disk, now, params'.maxEntries)
    <3>1. params'.maxEntries \in Nat
      BY <2>5, ParamsAssumption
    <3> QED BY <2>5, <2>t, <3>1, LoadTable
  <2>6. CASE banned' = banned
    BY <2>6, <2>s
  <2> QED BY <1>1, StepShape, <2>1, <2>2, <2>3, <2>4, <2>5, <2>6
<1>2. TypeOK /\ Captured /\ [Next]_vars => [Capped]_vars
  BY <1>1
<1> QED BY <1>2, TypeCorrect, CapturedInv, PTL DEF Spec, GrowthUnderCap

\* Making room for an address never costs a ban that outlives one it keeps.
THEOREM EvictionIsCheapest == Spec => EvictsSoonest
<1> DEFINE Cheap(v) ==
       \/ now > banned[v].expires
       \/ \A j \in DOMAIN banned \cap DOMAIN banned' :
              banned[v].expires <= banned[j].expires
<1> DEFINE A == DOMAIN banned' \ DOMAIN banned # {} =>
                  \A v \in DOMAIN banned \ DOMAIN banned' : Cheap(v)
<1>1. ASSUME TypeOK, Captured, [Next]_vars PROVE A
  <2>t. IsTable(banned) /\ now \in Nat
    BY <1>1 DEF TypeOK
  <2>1. ASSUME NEW w \in Workers, Commit(w) PROVE A
    <3> DEFINE ip == call[w].ip
               t == call[w].t
    <3>1. PICK v :
            \/ DOMAIN banned \subseteq DOMAIN banned'
            \/ /\ v \in Victims(banned, t)
               /\ DOMAIN banned' = (DOMAIN banned \ {v}) \cup {ip}
      BY <1>1, <2>1, CommitShape
    <3>2. t \in Nat /\ t <= now
      <4>1. call[w] \in Call
        BY <2>1 DEF Commit
      <4>2. t \in Nat
        BY <4>1 DEF Call
      <4> QED BY <1>1, <2>1, <4>2 DEF Captured, Commit
    <3> HIDE DEF t, ip
    <3>3. CASE DOMAIN banned \subseteq DOMAIN banned'
      BY <3>3
    <3>4. CASE /\ v \in Victims(banned, t)
               /\ DOMAIN banned' = (DOMAIN banned \ {v}) \cup {ip}
      <4>1. v \in DOMAIN banned /\ banned[v].expires \in Nat
        BY <3>4, <2>t, VictimsInTable DEF IsTable, Entry
      <4>2. \/ t > banned[v].expires
            \/ \A j \in DOMAIN banned : banned[v].expires <= banned[j].expires
        BY <3>4 DEF Victims
      <4>3. Cheap(v)
        BY <4>1, <4>2, <3>2, <2>t
      <4> QED BY <3>4, <4>3
    <3> QED BY <3>1, <3>3, <3>4
  <2>2. ASSUME DOMAIN banned' \subseteq DOMAIN banned \/ banned = EmptyTable PROVE A
    BY <2>2, EmptyIsTable
  <2>3. ASSUME NEW ip \in IPs, Unban(ip) PROVE DOMAIN banned' \subseteq DOMAIN banned
    BY <2>3 DEF Unban, Without
  <2>4. ASSUME banned' = Without(banned, Forgotten(banned, cutoff))
        PROVE  DOMAIN banned' \subseteq DOMAIN banned
    <3>1. DOMAIN banned' = DOMAIN banned \ Forgotten(banned, cutoff)
      BY <2>4, <2>t, WithoutTable
    <3> QED BY <3>1
  <2>5. ASSUME banned' = EmptyTable PROVE DOMAIN banned' \subseteq DOMAIN banned
    BY <2>5, EmptyIsTable
  <2> HIDE DEF A
  <2> QED BY <1>1, StepShape, <2>1, <2>2, <2>3, <2>4, <2>5
<1>2. TypeOK /\ Captured /\ [Next]_vars => [A]_vars
  BY <1>1
<1> QED BY <1>2, TypeCorrect, CapturedInv, PTL DEF Spec, EvictsSoonest

\* What a critical section does to the entry of an address that stays.
LEMMA CommitEntry ==
    ASSUME TypeOK, NEW w \in Workers, Commit(w),
           NEW x \in DOMAIN banned, x \in DOMAIN banned'
    PROVE  /\ banned'[x].offenses >= banned[x].offenses
           /\ \/ banned'[x].expires >= banned[x].expires
              \/ CommitOffence(w) /\ call[w].ip = x
<1> DEFINE c == call[w]
<1>1. PICK room \in MakeRoom(banned, c.ip, c.t), e \in Entry :
          /\ banned' = Put(room, c.ip, e)
          /\ e.offenses >= EntryOf(banned, c.ip).offenses
          /\ e.expires >= EntryOf(banned, c.ip).expires \/ CommitOffence(w)
  BY DEF Commit
<1>2. IsTable(banned)
  BY DEF TypeOK
<1>3. banned[x].offenses \in Nat /\ banned[x].expires \in Nat
  BY <1>2 DEF IsTable, Entry
<1>4. CASE x = c.ip
  <2>1. EntryOf(banned, c.ip) = banned[x]
    BY <1>4 DEF EntryOf
  <2>2. banned'[x] = e
    BY <1>1, <1>4 DEF Put
  <2> QED BY <1>1, <1>4, <2>1, <2>2
<1>5. CASE x # c.ip
  <2>1. banned'[x] = banned[x]
    BY <1>5, CommitShape
  <2> QED BY <1>3, <2>1
<1> QED BY <1>4, <1>5

\* A critical section removes an entry only to give its place in a full table
\* to the address it adds.
LEMMA CommitRemoves ==
    ASSUME TypeOK, NEW w \in Workers, Commit(w),
           NEW x \in DOMAIN banned, x \notin DOMAIN banned'
    PROVE  Displaced(x)
<1> DEFINE ip == call[w].ip
<1>1. PICK v :
        /\ ip \in IPs
        /\ \/ ip \in DOMAIN banned /\ DOMAIN banned' = DOMAIN banned
           \/ /\ ip \notin DOMAIN banned /\ ~IsFull(banned)
              /\ DOMAIN banned' = DOMAIN banned \cup {ip}
           \/ /\ ip \notin DOMAIN banned /\ IsFull(banned)
              /\ v \in Victims(banned, call[w].t)
              /\ DOMAIN banned' = (DOMAIN banned \ {v}) \cup {ip}
  BY CommitShape
<1> HIDE DEF ip
<1>2. /\ ip \in IPs \ DOMAIN banned /\ IsFull(banned)
      /\ DOMAIN banned' = (DOMAIN banned \ {v}) \cup {ip}
  BY <1>1
<1>3. v = x
  BY <1>2
<1> QED BY <1>2, <1>3 DEF Displaced, IsFull

\* Escalation works for addresses that come back: their offence count is
\* forgotten only by an operator, for a newcomer that takes their place in a
\* full table, with the process, or a whole forget window after their ban.
THEOREM HistoryIsKept == Spec => HistoryKept
<1> DEFINE Kept(ip) ==
       \/ ip \in DOMAIN banned' /\ banned'[ip].offenses >= banned[ip].offenses
       \/ Unban(ip)
       \/ Displaced(ip)
       \/ mode' \in {"exited", "crashed"}
       \/ now > banned[ip].expires + params.max
<1>1. ASSUME TypeOK, Captured, [Next]_vars, NEW ip \in DOMAIN banned
      PROVE  Kept(ip)
  <2>t. IsTable(banned) /\ now \in Nat /\ cutoff \in Nat /\ params.max \in Nat
    BY <1>1, ParamsAssumption DEF TypeOK
  <2>e. banned[ip].offenses \in Nat /\ banned[ip].expires \in Nat
    BY <2>t, <1>1 DEF IsTable, Entry
  <2>0. ASSUME ip \in DOMAIN banned', banned'[ip] = banned[ip] PROVE Kept(ip)
    BY <2>0, <2>e
  <2>1. ASSUME NEW w \in Workers, Commit(w) PROVE Kept(ip)
    <3>1. CASE ip \notin DOMAIN banned'
      BY <1>1, <2>1, <3>1, CommitRemoves
    <3>2. CASE ip \in DOMAIN banned'
      BY <1>1, <2>1, <3>2, CommitEntry
    <3> QED BY <3>1, <3>2
  <2>2. ASSUME NEW x \in IPs, Unban(x) PROVE Kept(ip)
    <3>1. CASE x = ip
      BY <2>2, <3>1
    <3>2. CASE x # ip
      <4>1. ip \in DOMAIN banned' /\ banned'[ip] = banned[ip]
        BY <1>1, <2>2, <3>2 DEF Unban, Without
      <4> QED BY <4>1, <2>0
    <3> QED BY <3>1, <3>2
  <2>3. CASE banned' = Without(banned, Forgotten(banned, cutoff))
    <3>1. CASE ip \in Forgotten(banned, cutoff)
      <4>1. cutoff > banned[ip].expires + params.max /\ cutoff <= now
        BY <1>1, <3>1 DEF Forgotten, Captured
      <4> QED BY <4>1, <2>t, <2>e
    <3>2. CASE ip \notin Forgotten(banned, cutoff)
      <4>1. ip \in DOMAIN banned' /\ banned'[ip] = banned[ip]
        BY <1>1, <2>3, <3>2 DEF Without
      <4> QED BY <4>1, <2>0
    <3> QED BY <3>1, <3>2
  <2>4. CASE banned = EmptyTable
    BY <1>1, <2>4, EmptyIsTable
  <2>5. CASE mode' \in {"exited", "crashed"}
    BY <2>5
  <2>6. CASE banned' = banned
    BY <1>1, <2>0, <2>6
  <2> HIDE DEF Kept
  <2> QED BY <1>1, StepShape, <2>1, <2>2, <2>3, <2>4, <2>5, <2>6
<1>2. TypeOK /\ Captured /\ [Next]_vars => [\A ip \in DOMAIN banned : Kept(ip)]_vars
  BY <1>1
<1> QED BY <1>2, TypeCorrect, CapturedInv, PTL DEF Spec, HistoryKept

\* No fleet push, sweep or reload ends a ban in force before its time.
THEOREM NoEarlyRelease == Spec => EarlyRelease
<1> DEFINE Kept(ip) ==
       \/ ip \in DOMAIN banned' /\ banned'[ip].expires >= banned[ip].expires
       \/ Unban(ip)
       \/ \E w \in Workers : CommitOffence(w) /\ call[w].ip = ip
       \/ Displaced(ip)
       \/ mode' \in {"exited", "crashed"}
<1>1. ASSUME TypeOK, Captured, [Next]_vars, NEW ip \in Live(banned, now)
      PROVE  Kept(ip)
  <2>t. IsTable(banned) /\ now \in Nat /\ cutoff \in Nat /\ params.max \in Nat
    BY <1>1, ParamsAssumption DEF TypeOK
  <2>l. ip \in DOMAIN banned /\ banned[ip].expires > now
    BY <1>1 DEF Live
  <2>e. banned[ip].expires \in Nat
    BY <2>t, <2>l DEF IsTable, Entry
  <2>0. ASSUME ip \in DOMAIN banned', banned'[ip] = banned[ip] PROVE Kept(ip)
    BY <2>0, <2>e
  <2>1. ASSUME NEW w \in Workers, Commit(w) PROVE Kept(ip)
    <3>1. CASE ip \notin DOMAIN banned'
      BY <1>1, <2>l, <2>1, <3>1, CommitRemoves
    <3>2. CASE ip \in DOMAIN banned'
      <4>1. \/ banned'[ip].expires >= banned[ip].expires
            \/ CommitOffence(w) /\ call[w].ip = ip
        BY <1>1, <2>l, <2>1, <3>2, CommitEntry
      <4> QED BY <3>2, <4>1
    <3> QED BY <3>1, <3>2
  <2>2. ASSUME NEW x \in IPs, Unban(x) PROVE Kept(ip)
    <3>1. CASE x = ip
      BY <2>2, <3>1
    <3>2. CASE x # ip
      <4>1. ip \in DOMAIN banned' /\ banned'[ip] = banned[ip]
        BY <2>l, <2>2, <3>2 DEF Unban, Without
      <4> QED BY <4>1, <2>0
    <3> QED BY <3>1, <3>2
  <2>3. CASE banned' = Without(banned, Forgotten(banned, cutoff))
    <3>1. ip \notin Forgotten(banned, cutoff)
      BY <1>1, <2>t, <2>l, <2>e DEF Forgotten, Captured
    <3>2. ip \in DOMAIN banned' /\ banned'[ip] = banned[ip]
      BY <2>l, <2>3, <3>1 DEF Without
    <3> QED BY <3>2, <2>0
  <2>4. CASE banned = EmptyTable
    BY <2>l, <2>4, EmptyIsTable
  <2>5. CASE mode' \in {"exited", "crashed"}
    BY <2>5
  <2>6. CASE banned' = banned
    BY <2>l, <2>0, <2>6
  <2> HIDE DEF Kept
  <2> QED BY <1>1, StepShape, <2>1, <2>2, <2>3, <2>4, <2>5, <2>6
<1>2. TypeOK /\ Captured /\ [Next]_vars => [\A ip \in Live(banned, now) : Kept(ip)]_vars
  BY <1>1
<1> QED BY <1>2, TypeCorrect, CapturedInv, PTL DEF Spec, EarlyRelease

----------------------------------------------------------------------------
(* The table implements what the rest of the agent relies on. *)

\* The clock starts after the zero time, so whatever was issued has an end
\* that is not the zero time.
Started == now >= 1 /\ \A w \in Workers : call[w] # NoCall => call[w].t >= 1

\* Started is kept by every step.
LEMMA StartedStep == TypeOK /\ Started /\ [Next]_vars => Started'
<1> SUFFICES ASSUME TypeOK, Started, [Next]_vars PROVE Started'
  OBVIOUS
<1>t. now \in Nat /\ call \in [Workers -> Call \cup {NoCall}]
  BY DEF TypeOK
<1> USE DEF Started
<1>1. ASSUME NEW w \in Workers, BeginBan(w) \/ BeginBanFor(w) \/ BeginBanFleet(w)
      PROVE  Started'
  <2>1. PICK op, ip, d : Begin(w, op, ip, d)
    BY <1>1 DEF BeginBan, BeginBanFor, BeginBanFleet
  <2>2. \A v \in Workers : v # w => call'[v] = call[v]
    BY <1>t, <2>1 DEF Begin
  <2>3. call'[w].t = now
    BY <1>t, <2>1 DEF Begin
  <2> QED BY <1>t, <2>1, <2>2, <2>3 DEF Begin
<1>2. ASSUME NEW w \in Workers, CommitOffence(w) \/ CommitBanFleet(w)
      PROVE  Started'
  BY <1>2, <1>t DEF CommitOffence, CommitBanFleet
<1>3. CASE Exit \/ Crash
  BY <1>3, <1>t DEF Exit, Crash, ProcessEnds
<1>4. CASE Tick
  BY <1>4, <1>t DEF Tick
<1>5. ASSUME \/ \E ip \in IPs : Unban(ip)
             \/ DrainRecent \/ SetAllowlist \/ SetParams \/ SweepBegin \/ SweepCommit
             \/ SnapshotCollect \/ SnapshotWrite \/ Close \/ Start \/ UNCHANGED vars
      PROVE  Started'
  BY <1>5 DEF Unban, DrainRecent, SetAllowlist, SetParams, SweepBegin, SweepCommit,
              SnapshotCollect, SnapshotWrite, Close, Start, vars
<1> QED BY <1>1, <1>2, <1>3, <1>4, <1>5 DEF Next

\* Started is an invariant of the store.
LEMMA StartedInv == Spec => []Started
<1>1. Init => Started
  BY DEF Init, Started
<1> QED BY <1>1, StartedStep, TypeCorrect, PTL DEF Spec

\* The abstract state: the addresses in force and those ever banned.
InForce == Live(banned, now)
Issued == {ip \in IPs : high[ip] # ZeroTime}

\* Whatever an accounted table holds in force was issued.
LEMMA LiveWasIssued ==
    ASSUME TypeOK, NEW tbl, IsTable(tbl), Backed(tbl, high, strikes)
    PROVE  Live(tbl, now) \subseteq Issued
<1> SUFFICES ASSUME NEW ip \in Live(tbl, now) PROVE ip \in Issued
  OBVIOUS
<1>1. ip \in IPs /\ tbl[ip].expires \in Nat /\ tbl[ip].expires > now
  BY DEF Live, IsTable, Entry
<1>2. tbl[ip].expires <= high[ip] /\ high[ip] \in Nat /\ now \in Nat
  BY <1>1 DEF Backed, Live, TypeOK
<1> QED BY <1>1, <1>2 DEF Issued, ZeroTime

\* A critical section issues a ban against its own address.
LEMMA CommitIssues ==
    ASSUME TypeOK, Started, NEW w \in Workers, CommitOffence(w) \/ CommitBanFleet(w)
    PROVE  Issued' = Issued \cup {call[w].ip}
<1> DEFINE c == call[w]
           old == EntryOf(banned, c.ip)
           e == IF CommitOffence(w) THEN Offended(old, c) ELSE Extended(old, c)
<1>1. /\ c \in Call /\ c.ip \in IPs /\ c.t \in Nat /\ c.d \in Nat /\ c.t >= 1
      /\ params \in Params /\ IsTable(banned) /\ high \in [IPs -> Nat]
  BY DEF CommitOffence, CommitBanFleet, Call, TypeOK, Started
<1>2. old \in Entry
  BY <1>1, EntryOfType
<1>3. Offended(old, c).expires \in Nat /\ Offended(old, c).expires >= 1
  <2>1. Duration(params, old.offenses + 1) \in Nat
    BY <1>1, DurationType
  <2> HIDE DEF c, old
  <2> QED BY <1>1, <1>2, <2>1 DEF Offended, Entry
<1>4. Extended(old, c).expires \in Nat /\ Extended(old, c).expires >= 1
  <2> HIDE DEF c, old
  <2> QED BY <1>1, <1>2 DEF Extended, Entry
<1>5. high' = [high EXCEPT ![c.ip] = Later(@, e.expires)]
  BY DEF CommitOffence, CommitBanFleet
<1>6. e.expires \in Nat /\ e.expires >= 1
  BY <1>3, <1>4
<1> HIDE DEF e, c
<1>7. high'[c.ip] \in Nat /\ high'[c.ip] >= 1 /\ \A ip \in IPs \ {c.ip} : high'[ip] = high[ip]
  BY <1>1, <1>5, <1>6 DEF Later
<1> QED BY <1>1, <1>7 DEF Issued, ZeroTime, c

\* A critical section is a call of the abstract table: it settles the standing
\* of its own address and costs at most one other its ban.
LEMMA CommitBlocks ==
    ASSUME TypeOK, Captured, Started, [Next]_vars,
           NEW w \in Workers, CommitOffence(w) \/ CommitBanFleet(w)
    PROVE  Table!Block(call[w].ip)
<1> DEFINE ip == call[w].ip
           rest == Live(banned', now) \ {ip}
<1>1. Commit(w) /\ now' = now
  BY CommitIsCommit DEF CommitOffence, CommitBanFleet
<1>2. PICK v :
          /\ ip \in IPs
          /\ \A x \in DOMAIN banned \cap DOMAIN banned' : x # ip => banned'[x] = banned[x]
          /\ \/ ip \in DOMAIN banned /\ DOMAIN banned' = DOMAIN banned
             \/ ip \notin DOMAIN banned /\ DOMAIN banned' = DOMAIN banned \cup {ip}
             \/ ip \notin DOMAIN banned /\ DOMAIN banned' = (DOMAIN banned \ {v}) \cup {ip}
  BY <1>1, CommitShape
<1> HIDE DEF ip
<1>3. rest = InForce \ {ip} \/ (ip \notin InForce /\ rest = InForce \ {v})
  BY <1>2 DEF Live, InForce
<1>4. rest \in Table!Others(ip)
  <2>1. CASE rest = InForce \ {ip}
    BY <2>1 DEF Table!Others, InForce
  <2>2. CASE ip \notin InForce /\ rest = InForce \ {v} /\ v \in InForce
    BY <2>2 DEF Table!Others, InForce
  <2>3. CASE ip \notin InForce /\ rest = InForce \ {v} /\ v \notin InForce
    <3>1. rest = InForce \ {ip}
      BY <2>3
    <3> QED BY <3>1, <2>1
  <2> QED BY <1>3, <2>1, <2>2, <2>3
<1>5. InForce' \in {rest, rest \cup {ip}}
  BY <1>1 DEF InForce
<1>6. Issued' = Issued \cup {ip}
  BY CommitIssues DEF ip
<1> HIDE DEF rest
<1> QED BY <1>4, <1>5, <1>6 DEF Table!Block, InForce, Issued, ip

\* Every step of the store is one of the abstract table, or changes neither
\* who is in force nor who was ever banned.
LEMMA TableStep ==
    ASSUME TypeOK, Captured, Started, NoPhantomBan, [Next]_vars
    PROVE  Table!Next \/ UNCHANGED <<InForce, Issued>>
<1>t. IsTable(banned) /\ IsTable(disk) /\ now \in Nat
  BY DEF TypeOK
<1>r. ASSUME high' = high, InForce' \subseteq InForce PROVE Table!Next
  <2>1. Issued' = Issued
    BY <1>r DEF Issued
  <2>2. Table!Release
    BY <1>r, <2>1 DEF Table!Release, InForce, Issued
  <2> QED BY <2>2 DEF Table!Next
<1>1. ASSUME NEW w \in Workers, CommitOffence(w) \/ CommitBanFleet(w) PROVE Table!Next
  <2>1. call[w].ip \in IPs
    BY <1>1 DEF CommitOffence, CommitBanFleet, Call, TypeOK
  <2>2. Table!Block(call[w].ip)
    BY <1>1, CommitBlocks
  <2>3. \E ip \in IPs : Table!Block(ip)
    BY <2>1, <2>2 DEF Table!Block, Table!Others
  <2> QED BY <2>3 DEF Table!Next
<1>2. ASSUME NEW S, banned' = Without(banned, S), now' = now, high' = high PROVE Table!Next
  <2>1. InForce' \subseteq InForce
    BY <1>2 DEF InForce, Live, Without
  <2> QED BY <1>2, <2>1, <1>r
<1>3. ASSUME NEW ip \in IPs, Unban(ip) PROVE Table!Next
  BY <1>2, <1>3 DEF Unban
<1>4. CASE SweepCommit
  BY <1>2, <1>4 DEF SweepCommit
<1>5. CASE Exit \/ Crash
  <2>1. banned' = EmptyTable /\ now' = now /\ high' = high
    BY <1>5 DEF Exit, Crash, ProcessEnds
  <2>2. InForce' \subseteq InForce
    BY <2>1, EmptyIsTable DEF InForce, Live
  <2> QED BY <2>1, <2>2, <1>r
<1>6. CASE Tick
  <2>1. banned' = banned /\ now' = now + 1 /\ high' = high
    BY <1>6 DEF Tick
  <2>2. InForce' \subseteq InForce
    BY <1>t, <2>1 DEF InForce, Live, IsTable, Entry
  <2> QED BY <2>1, <2>2, <1>r
<1>7. CASE Start
  <2>1. /\ banned = EmptyTable /\ now' = now /\ high' = high
        /\ params'.maxEntries \in Nat
        /\ banned' = EmptyTable \/ banned' \in LoadChoices(disk, now, params'.maxEntries)
    BY <1>7, ParamsAssumption DEF Start, Captured
  <2>2. InForce = {} /\ Issued' = Issued
    BY <2>1, EmptyIsTable DEF InForce, Live, Issued
  <2>3. Live(disk, now) \subseteq Issued
    <3>1. Backed(disk, high, strikes)
      BY DEF NoPhantomBan, Backed
    <3> QED BY <3>1, <1>t, LiveWasIssued
  <2>4. InForce' \subseteq Issued
    <3>1. CASE banned' = EmptyTable
      BY <3>1, EmptyIsTable DEF InForce, Live
    <3>2. CASE banned' \in LoadChoices(disk, now, params'.maxEntries)
      <4>1. /\ DOMAIN banned' \subseteq DOMAIN disk
            /\ \A ip \in DOMAIN banned' : banned'[ip] = disk[ip]
        BY <3>2, <2>1, <1>t, LoadTable
      <4> QED BY <4>1, <2>1, <2>3 DEF InForce, Live
    <3> QED BY <2>1, <3>1, <3>2
  <2>5. Table!Restore
    BY <2>2, <2>4 DEF Table!Restore, InForce, Issued
  <2> QED BY <2>5 DEF Table!Next
<1>8. ASSUME \/ \E w \in Workers : BeginBan(w) \/ BeginBanFor(w) \/ BeginBanFleet(w)
             \/ DrainRecent \/ SetAllowlist \/ SetParams \/ SweepBegin
             \/ SnapshotCollect \/ SnapshotWrite \/ Close \/ UNCHANGED vars
      PROVE  UNCHANGED <<InForce, Issued>>
  <2>1. UNCHANGED <<banned, now, high>>
    BY <1>8 DEF BeginBan, BeginBanFor, BeginBanFleet, Begin, DrainRecent, SetAllowlist,
                SetParams, SweepBegin, SnapshotCollect, SnapshotWrite, Close, vars
  <2> QED BY <2>1 DEF InForce, Issued
<1> QED BY <1>1, <1>3, <1>4, <1>5, <1>6, <1>7, <1>8 DEF Next

\* The ban table implements the abstract one for any number of addresses and
\* goroutines: a call settles its own address and costs at most one other its
\* ban, nothing else bans anybody, a restart brings back only what was issued.
THEOREM TableImplemented == Spec => ImplementsTable
<1>1. Init => Table!Init
  <2> SUFFICES ASSUME Init PROVE Table!Init
    OBVIOUS
  <2>1. Live(banned, now) = {}
    BY EmptyIsTable DEF Init, Live
  <2>2. Issued = {}
    BY DEF Init, Issued
  <2> QED BY <2>1, <2>2 DEF Table!Init, Issued
<1>2. TypeOK /\ Captured /\ Started /\ NoPhantomBan /\ [Next]_vars
        => [Table!Next]_<<Live(banned, now), {ip \in IPs : high[ip] # ZeroTime}>>
  BY TableStep DEF InForce, Issued
<1> QED BY <1>1, <1>2, TypeCorrect, CapturedInv, StartedInv, NoPhantom, PTL
        DEF Spec, ImplementsTable, Table!Spec

============================================================================
