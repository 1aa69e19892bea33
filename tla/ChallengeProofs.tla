-------------------------- MODULE ChallengeProofs --------------------------
(* Machine-checked facts about the global limiter and the challenge gate in *)
(* front of it, for every set of browsers, configs and changes.             *)
EXTENDS Challenge, TokenBucketProofs

----------------------------------------------------------------------------
(* The global limiters on their own: the ceiling of each, for every rate,   *)
(* burst, cost and set of callers.                                          *)

\* What a limiter has admitted in the window was paid for out of its burst
\* and of the time its bucket has credited so far; last is the key to it: a
\* request is counted against time only once, because last never moves back.
Paid == \A l \in DOMAIN buckets : Balanced(buckets[l], from, used[l])

\* The inductive invariant.
CeilingInv ==
    /\ TypeOK
    /\ RemainingIsFraction
    /\ from <= now
    /\ \A c \in Callers : call[c] # Idle => call[c].t <= now
    /\ Paid

\* The parts of the invariant, in the form the provers use.
LEMMA LimiterTypes ==
    ASSUME CeilingInv
    PROVE  /\ now \in Nat /\ from \in Nat /\ from <= now
           /\ Len(buckets) \in Nat /\ DOMAIN buckets = 1..Len(buckets)
           /\ DOMAIN used = 1..Len(buckets) /\ Len(used) = Len(buckets)
           /\ \A l \in DOMAIN buckets :
                 /\ buckets[l] \in Bucket /\ used[l] \in Nat
                 /\ buckets[l].tokens <= Burst /\ buckets[l].last <= now
                 /\ Balanced(buckets[l], from, used[l])
           /\ \A c \in Callers : call[c] # Idle =>
                 /\ call[c] \in Call /\ call[c].t \in Nat /\ call[c].t <= now
                 /\ call[c].lim \in DOMAIN buckets
BY DEF CeilingInv, TypeOK, RemainingIsFraction, Paid, Call

\* A step that rewrites one bucket and perhaps counts an admission.
LEMMA OneBucket ==
    ASSUME CeilingInv, NEW l \in DOMAIN buckets, NEW b \in Bucket, NEW u \in Nat,
           buckets' = [buckets EXCEPT ![l] = b], used' = [used EXCEPT ![l] = u],
           b.tokens <= Burst, b.last <= now, Balanced(b, from, u),
           call' \in [Callers -> Call \cup {Idle}],
           \A c \in Callers : call'[c] # Idle => call'[c] = call[c],
           UNCHANGED <<now, from>>
    PROVE  CeilingInv'
<1>1. /\ buckets' \in Seq(Bucket) /\ used' \in Seq(Nat)
      /\ Len(used') = Len(buckets') /\ DOMAIN buckets' = DOMAIN buckets
      /\ \A k \in DOMAIN buckets : /\ buckets'[k] = IF k = l THEN b ELSE buckets[k]
                                   /\ used'[k] = IF k = l THEN u ELSE used[k]
  BY LimiterTypes DEF CeilingInv, TypeOK
<1>2. \A c \in Callers : call'[c] # Idle => call'[c].lim \in DOMAIN buckets'
  BY <1>1, LimiterTypes
<1>3. TypeOK'
  BY <1>1, <1>2, LimiterTypes DEF TypeOK
<1>4. RemainingIsFraction' /\ Paid'
  BY <1>1, LimiterTypes DEF RemainingIsFraction, Paid
<1> QED BY <1>3, <1>4, LimiterTypes DEF CeilingInv

\* A step that leaves the buckets alone.
LEMMA NoBucket ==
    ASSUME CeilingInv, UNCHANGED <<buckets, from, used>>,
           now' \in Nat, now <= now', call' \in [Callers -> Call \cup {Idle}],
           \A c \in Callers : call'[c] # Idle /\ call'[c] # call[c] =>
               call'[c].lim \in DOMAIN buckets /\ call'[c].t \in Nat /\ call'[c].t <= now'
    PROVE  CeilingInv'
<1>1. TypeOK'
  BY LimiterTypes DEF CeilingInv, TypeOK
<1>2. RemainingIsFraction'
  <2> SUFFICES ASSUME NEW l \in DOMAIN buckets
               PROVE  buckets[l].tokens <= Burst /\ buckets[l].last <= now'
    BY DEF RemainingIsFraction
  <2>1. buckets[l].last \in Nat /\ buckets[l].last <= now /\ buckets[l].tokens <= Burst
    BY LimiterTypes DEF Bucket
  <2> QED BY <2>1, LimiterTypes
<1>3. \A c \in Callers : call'[c] # Idle => call'[c].t <= now'
  <2> SUFFICES ASSUME NEW c \in Callers, call'[c] # Idle, call'[c] = call[c]
               PROVE  call[c].t <= now'
    OBVIOUS
  <2>1. call[c].t \in Nat /\ call[c].t <= now
    BY LimiterTypes
  <2> QED BY <2>1, LimiterTypes
<1>4. Paid'
  BY DEF CeilingInv, Paid
<1> QED BY <1>1, <1>2, <1>3, <1>4, LimiterTypes DEF CeilingInv

\* Every step keeps the inductive invariant.
LEMMA CeilingStep == CeilingInv /\ [Next]_vars => CeilingInv'
<1> SUFFICES ASSUME CeilingInv, [Next]_vars PROVE CeilingInv'
  OBVIOUS
<1>0. call \in [Callers -> Call \cup {Idle}] /\ used \in Seq(Nat) /\ buckets \in Seq(Bucket)
  BY DEF CeilingInv, TypeOK
<1>b. Burst \in Nat /\ Rate \in Nat /\ Cost \in Nat
  BY BucketAssumption
<1>1. ASSUME NEW c \in Callers, NEW l \in DOMAIN buckets, AllowBegin(c, l) PROVE CeilingInv'
  <2> DEFINE e == [lim |-> l, t |-> now]
  <2>1. e \in Call
    BY LimiterTypes DEF Call
  <2>2. call' = [call EXCEPT ![c] = e] /\ UNCHANGED <<now, buckets, from, used>>
    BY <1>1 DEF AllowBegin
  <2>3. e.lim \in DOMAIN buckets /\ e.t \in Nat /\ e.t <= now
    BY LimiterTypes
  <2> HIDE DEF e
  <2>4. call' \in [Callers -> Call \cup {Idle}]
    BY <1>0, <2>1, <2>2
  <2>5. \A d \in Callers : call'[d] # call[d] => call'[d] = e
    BY <1>0, <2>2
  <2> QED BY <2>2, <2>3, <2>4, <2>5, NoBucket, LimiterTypes
<1>2. ASSUME NEW c \in Callers, AllowCommit(c) PROVE CeilingInv'
  <2> DEFINE l == call[c].lim
             t == call[c].t
             f == Refill(buckets[l], t)
             u == IF Admits(f) /\ t >= from THEN used[l] + 1 ELSE used[l]
  <2>1. /\ l \in DOMAIN buckets /\ t \in Nat /\ t <= now
        /\ buckets[l] \in Bucket /\ used[l] \in Nat
        /\ buckets[l].tokens <= Burst /\ buckets[l].last <= now
        /\ Balanced(buckets[l], from, used[l]) /\ from \in Nat /\ now \in Nat
    BY <1>2, LimiterTypes DEF AllowCommit
  <2>2. /\ buckets' = [buckets EXCEPT ![l] = Spend(f)] /\ UNCHANGED <<now, from>>
        /\ call' = [call EXCEPT ![c] = Idle]
    BY <1>2 DEF AllowCommit
  <2>3. used' = IF Admits(f) /\ t >= from THEN [used EXCEPT ![l] = @ + 1] ELSE used
    BY <1>2 DEF AllowCommit
  <2>4. used' = [used EXCEPT ![l] = u]
    <3>1. used = [used EXCEPT ![l] = used[l]]
      BY <1>0
    <3>2. CASE Admits(f) /\ t >= from
      BY <2>3, <3>2
    <3>3. CASE ~(Admits(f) /\ t >= from)
      BY <2>3, <3>1, <3>3
    <3> QED BY <3>2, <3>3
  <2>5. u \in Nat
    BY <2>1
  <2> HIDE DEF l, t
  <2>6. f \in Bucket /\ f.tokens <= Burst /\ f.last <= now
    <3>1. /\ f \in Bucket /\ f.tokens <= Burst
          /\ f.last = IF t > buckets[l].last THEN t ELSE buckets[l].last
      BY <2>1, RefillCredit
    <3> QED BY <2>1, <3>1
  <2>7. Balanced(Spend(f), from, u)
    BY <2>1, <2>5, BooksAfterAllow
  <2> HIDE DEF f, u
  <2>8. Spend(f) \in Bucket /\ Spend(f).tokens <= Burst /\ Spend(f).last <= now
    BY <1>b, <2>6, SpendCost DEF Bucket
  <2>9. /\ call' \in [Callers -> Call \cup {Idle}]
        /\ \A d \in Callers : call'[d] # Idle => call'[d] = call[d]
    BY <1>0, <2>2
  <2> QED BY <2>1, <2>2, <2>4, <2>5, <2>7, <2>8, <2>9, OneBucket
<1>3. ASSUME NEW l \in DOMAIN buckets, Remaining(l) PROVE CeilingInv'
  <2> DEFINE f == Refill(buckets[l], now)
  <2>1. /\ buckets[l] \in Bucket /\ used[l] \in Nat /\ now \in Nat /\ from \in Nat
        /\ buckets[l].tokens <= Burst /\ buckets[l].last <= now
        /\ Balanced(buckets[l], from, used[l])
    BY LimiterTypes
  <2>2. /\ f \in Bucket /\ f.tokens <= Burst
        /\ f.last = IF now > buckets[l].last THEN now ELSE buckets[l].last
    BY <2>1, RefillCredit
  <2>3. f.last <= now
    BY <2>1, <2>2
  <2>4. Balanced(f, from, used[l])
    BY <2>1, BooksAfterRefill
  <2>5. buckets' = [buckets EXCEPT ![l] = f] /\ UNCHANGED <<now, call, from, used>>
    BY <1>3 DEF Remaining
  <2> HIDE DEF f
  <2>6. used' = [used EXCEPT ![l] = used[l]]
    BY <1>0, <2>5
  <2>7. call' \in [Callers -> Call \cup {Idle}]
    BY <1>0, <2>5
  <2> QED BY <2>1, <2>2, <2>3, <2>4, <2>5, <2>6, <2>7, OneBucket
<1>4. CASE NewGlobal
  <2>1. FullBucket \in Bucket /\ FullBucket.tokens <= Burst /\ FullBucket.last <= now
    BY <1>b, LimiterTypes DEF FullBucket, Bucket
  <2>2. buckets' = Append(buckets, FullBucket) /\ used' = Append(used, 0)
        /\ UNCHANGED <<now, call, from>>
    BY <1>4 DEF NewGlobal
  <2>3. /\ buckets' \in Seq(Bucket) /\ used' \in Seq(Nat) /\ Len(used') = Len(buckets')
        /\ \A l \in DOMAIN buckets' :
              \/ l \in DOMAIN buckets /\ buckets'[l] = buckets[l] /\ used'[l] = used[l]
              \/ buckets'[l] = FullBucket /\ used'[l] = 0
        /\ DOMAIN buckets \subseteq DOMAIN buckets'
    BY <1>0, <2>1, <2>2, LimiterTypes
  <2>4. Balanced(FullBucket, from, 0)
    BY DEF Balanced
  <2>5. TypeOK'
    BY <2>2, <2>3 DEF CeilingInv, TypeOK
  <2>6. RemainingIsFraction'
    BY <2>1, <2>2, <2>3 DEF CeilingInv, RemainingIsFraction
  <2>7. Paid'
    BY <2>2, <2>3, <2>4 DEF CeilingInv, Paid
  <2> QED BY <2>2, <2>5, <2>6, <2>7 DEF CeilingInv
<1>5. CASE Tick
  <2>1. now' = now + 1 /\ UNCHANGED <<buckets, call, from, used>>
    BY <1>5 DEF Tick
  <2>2. now' \in Nat /\ now <= now'
    BY <2>1, LimiterTypes
  <2> QED BY <1>0, <2>1, <2>2, NoBucket
<1>6. CASE OpenWindow
  <2>1. /\ from' = now /\ used' = [l \in DOMAIN used |-> 0]
        /\ UNCHANGED <<now, buckets, call>>
    BY <1>6 DEF OpenWindow
  <2>2. used' \in Seq(Nat) /\ Len(used') = Len(buckets) /\ \A l \in DOMAIN buckets : used'[l] = 0
    BY <2>1, LimiterTypes
  <2>3. Paid'
    BY <2>1, <2>2 DEF Paid, Balanced
  <2> QED BY <2>1, <2>2, <2>3, LimiterTypes DEF CeilingInv, TypeOK, RemainingIsFraction
<1>7. CASE UNCHANGED vars
  BY <1>7 DEF vars, CeilingInv, TypeOK, RemainingIsFraction, Paid
<1> QED BY <1>1, <1>2, <1>3, <1>4, <1>5, <1>6, <1>7 DEF Next

\* The books being balanced, no window admits more than burst + rps * length.
LEMMA CeilingFollows == CeilingInv => CeilingHolds
<1> SUFFICES ASSUME CeilingInv, NEW l \in DOMAIN buckets
             PROVE  used[l] * Cost <= Burst + Rate * (now - from)
  BY DEF CeilingHolds
<1> QED BY LimiterTypes, BooksBound

\* One full bucket, nothing admitted yet.
LEMMA CeilingBegins ==
    /\ now \in Nat /\ from = now
    /\ buckets = <<FullBucket>> /\ used = << 0 >>
    /\ call = [c \in Callers |-> Idle]
    => CeilingInv
<1> SUFFICES ASSUME now \in Nat /\ from = now,
                    buckets = <<FullBucket>> /\ used = << 0 >>,
                    call = [c \in Callers |-> Idle]
             PROVE  CeilingInv
  OBVIOUS
<1>1. FullBucket \in Bucket /\ FullBucket.tokens <= Burst /\ FullBucket.last <= now
  BY BucketAssumption DEF FullBucket, Bucket
<1>2. /\ buckets \in Seq(Bucket) /\ used \in Seq(Nat) /\ Len(used) = Len(buckets)
      /\ \A l \in DOMAIN buckets : buckets[l] = FullBucket /\ used[l] = 0
  BY <1>1
<1> QED BY <1>1, <1>2 DEF CeilingInv, TypeOK, RemainingIsFraction, Paid, Balanced

\* For any burst, rate and number of concurrent callers, a global limiter
\* admits at most burst + rps * length requests in any window, and Remaining
\* is a fraction.
THEOREM Ceiling == Spec => [](TypeOK /\ CeilingHolds /\ RemainingIsFraction)
<1>1. Init => CeilingInv
  BY CeilingBegins DEF Init
<1>2. CeilingInv => TypeOK /\ RemainingIsFraction
  BY DEF CeilingInv
<1> QED BY <1>1, <1>2, CeilingStep, CeilingFollows, PTL DEF Spec

----------------------------------------------------------------------------
(* Snapshots, puzzles and cookies. *)

Modes == {"off", "adaptive", "always"}
Snapshots == [lim : Nat, mode : Modes]
Signature == [key : Nat, ts : Nat, diff : Nat]

Pages ==
    {NoPage}
    \cup [at : {"come", "allow", "gate", "stamp"}, snap : Snapshots]
    \cup [at : {"sign"}, ts : Nat, born : Nat]
    \cup [at : {"render"}, ts : Nat, diff : Nat, sig : Signature, born : Nat]
    \cup [at : {"solve"}, ts : Nat, diff : Nat, sig : Signature, born : Nat, age : Nat]

Cookies == [ts : Nat, diff : Nat, sig : Signature, work : Nat, until : Nat, born : Nat,
            altered : BOOLEAN]

Controls ==
    [at : {"params", "lifetime", "swap"}, diff : Nat, ttl : Nat, snap : Snapshots]
    \cup [at : {"store"}, snap : Snapshots]

\* ts is born in whole seconds.
Dated(ts, born) == ts <= born /\ born <= ts + Second - 1

\* What Serve signs is what it says.
Honest(p) == p.sig.ts = p.ts /\ p.sig.diff = p.diff /\ Dated(p.ts, p.born)

\* A signed difficulty is in force, or was after the time that is signed with
\* it: Serve reads the clock first and loads the difficulty then.
Backed(sig) ==
    /\ sig.ts <= now
    /\ sig.diff = difficulty \/ \E r \in past : r.diff = sig.diff /\ r.until >= sig.ts

\* What the invariant says of one browser.
Fine(p, ck) ==
    /\ p.at \in {"come", "allow", "gate", "stamp"} => p.snap.lim \in DOMAIN buckets
    /\ p.at = "sign" => Dated(p.ts, p.born) /\ p.born <= now
    /\ p.at \in {"render", "solve"} => Honest(p) /\ Backed(p.sig)
    /\ ck # Idle => /\ Backed(ck.sig)
                    /\ ck.altered \/ (Honest(ck) /\ ck.work = ck.diff)

\* Snapshots in force or on their way there have a limiter.
Manned ==
    /\ snap.lim \in DOMAIN buckets
    /\ \A k \in Admins : ctl[k] # Idle => ctl[k].snap.lim \in DOMAIN buckets

GateTypes ==
    /\ difficulty \in Nat /\ ttl \in Nat /\ secret \in Nat
    /\ past \subseteq [diff : Nat, until : Nat]
    /\ snap \in Snapshots
    /\ ctl \in [Admins -> Controls \cup {Idle}]
    /\ page \in [Browsers -> Pages]
    /\ cookie \in [Browsers -> Cookies \cup {Idle}]

\* The inductive invariant, on top of the limiters' own.
GateInv ==
    /\ GateTypes
    /\ Manned
    /\ \A c \in Browsers : Fine(page[c], cookie[c])

\* Time goes on, and a difficulty that is replaced is remembered; within a
\* process no limiter goes away.
Remembers ==
    /\ now' \in Nat /\ now <= now'
    /\ past \subseteq past'
    /\ difficulty' = difficulty \/ [diff |-> difficulty, until |-> now] \in past'
Onward == Remembers /\ DOMAIN buckets \subseteq DOMAIN buckets'

\* Rounding to whole seconds loses less than a second.
LEMMA WholeDated == ASSUME NEW t \in Nat PROVE Whole(t) \in Nat /\ Dated(Whole(t), t)
<1> DEFINE k == t \div Second
           r == t % Second
<1>1. Second \in Nat /\ Second > 0
  BY ChallengeAssumption
<1>2. k \in Nat /\ r \in 0..(Second - 1)
  BY <1>1
<1>3. t = Second * k + r
  BY <1>1
<1>4. k * Second \in Nat /\ k * Second = Second * k
  BY <1>1, <1>2
<1> HIDE DEF k, r
<1>5. k * Second <= t /\ t <= k * Second + Second - 1
  BY <1>1, <1>2, <1>3, <1>4
<1> QED BY <1>4, <1>5 DEF Whole, Dated, k

\* A difficulty once backed stays so.
LEMMA BackedKept ==
    ASSUME now \in Nat, past' \subseteq [diff : Nat, until : Nat], Remembers,
           NEW sig \in Signature, Backed(sig)
    PROVE  Backed(sig)'
<1>1. sig.ts \in Nat /\ sig.ts <= now /\ now <= now' /\ now' \in Nat
  BY DEF Signature, Backed, Remembers
<1>2. past \subseteq past' /\ (\/ difficulty' = difficulty
                               \/ [diff |-> difficulty, until |-> now] \in past')
  BY DEF Remembers
<1>3. sig.diff = difficulty' \/ \E r \in past' : r.diff = sig.diff /\ r.until >= sig.ts
  <2>1. CASE \E r \in past : r.diff = sig.diff /\ r.until >= sig.ts
    BY <1>2, <2>1
  <2>2. CASE sig.diff = difficulty /\ difficulty' = difficulty
    BY <2>2
  <2>3. CASE sig.diff = difficulty /\ [diff |-> difficulty, until |-> now] \in past'
    <3> DEFINE r == [diff |-> difficulty, until |-> now]
    <3>1. r \in past' /\ r.diff = sig.diff /\ r.until = now
      BY <2>3
    <3>2. r.until >= sig.ts
      BY <1>1, <3>1
    <3> QED BY <3>1, <3>2
  <2> QED BY <1>2, <2>1, <2>2, <2>3 DEF Backed
<1>4. sig.ts <= now'
  BY <1>1
<1> QED BY <1>3, <1>4 DEF Backed

\* A browser at rest stays fine.
LEMMA FineKept ==
    ASSUME now \in Nat, past' \subseteq [diff : Nat, until : Nat], Onward,
           NEW p \in Pages, NEW ck \in Cookies \cup {Idle}, Fine(p, ck)
    PROVE  Fine(p, ck)'
<1>1. p.at \in {"come", "allow", "gate", "stamp"} => p.snap.lim \in DOMAIN buckets'
  BY DEF Fine, Onward
<1>2. p.at = "sign" => Dated(p.ts, p.born) /\ p.born <= now'
  <2> SUFFICES ASSUME p.at = "sign" PROVE Dated(p.ts, p.born) /\ p.born <= now'
    OBVIOUS
  <2>1. p.born \in Nat
    BY DEF Pages, NoPage
  <2> QED BY <2>1 DEF Fine, Onward, Remembers
<1>3. p.at \in {"render", "solve"} => Honest(p) /\ Backed(p.sig)'
  <2> SUFFICES ASSUME p.at \in {"render", "solve"} PROVE Honest(p) /\ Backed(p.sig)'
    OBVIOUS
  <2>1. p.sig \in Signature
    BY DEF Pages, NoPage
  <2> QED BY <2>1, BackedKept DEF Fine, Onward
<1>4. ck # Idle => /\ Backed(ck.sig)'
                   /\ ck.altered \/ (Honest(ck) /\ ck.work = ck.diff)
  <2> SUFFICES ASSUME ck # Idle
               PROVE  Backed(ck.sig)' /\ (ck.altered \/ (Honest(ck) /\ ck.work = ck.diff))
    OBVIOUS
  <2>1. ck.sig \in Signature
    BY DEF Cookies
  <2> QED BY <2>1, BackedKept DEF Fine, Onward
<1> QED BY <1>1, <1>2, <1>3, <1>4 DEF Fine, Honest, Dated

\* A step of browser c gives it a new page and perhaps a new cookie.
LEMMA GateMoves ==
    ASSUME CeilingInv, GateInv, NEW c \in Browsers,
           NEW p \in Pages, NEW ck \in Cookies \cup {Idle},
           page' = [page EXCEPT ![c] = p], cookie' = [cookie EXCEPT ![c] = ck],
           UNCHANGED <<now, manager, control>>, DOMAIN buckets' = DOMAIN buckets,
           Fine(p, ck)
    PROVE  GateInv'
<1>0. /\ past' \subseteq [diff : Nat, until : Nat] /\ Onward
      /\ now \in Nat /\ UNCHANGED <<difficulty, ttl, secret, past, snap, ctl>>
  BY LimiterTypes DEF GateInv, GateTypes, Onward, Remembers, manager, control
<1>1. /\ page' \in [Browsers -> Pages]
      /\ cookie' \in [Browsers -> Cookies \cup {Idle}]
      /\ \A d \in Browsers : /\ page'[d] = IF d = c THEN p ELSE page[d]
                             /\ cookie'[d] = IF d = c THEN ck ELSE cookie[d]
  BY DEF GateInv, GateTypes
<1>2. \A q \in Pages, e \in Cookies \cup {Idle} : Fine(q, e) => Fine(q, e)'
  BY <1>0, FineKept
<1>3. ASSUME NEW d \in Browsers PROVE Fine(page[d], cookie[d])'
  <2>1. /\ page'[d] \in Pages /\ cookie'[d] \in Cookies \cup {Idle}
        /\ page[d] \in Pages /\ cookie[d] \in Cookies \cup {Idle}
    BY <1>1 DEF GateInv, GateTypes
  <2>2. PICK q \in Pages, e \in Cookies \cup {Idle} :
            q = page'[d] /\ e = cookie'[d] /\ Fine(q, e)
    <3>1. CASE d = c
      BY <1>1, <3>1
    <3>2. CASE d # c
      BY <1>1, <2>1, <3>2 DEF GateInv
    <3> QED BY <3>1, <3>2
  <2>3. Fine(q, e)'
    BY <1>2, <2>2
  <2> QED BY <2>2, <2>3 DEF Fine, Honest, Dated, Backed
<1>4. GateTypes' /\ Manned'
  BY <1>0, <1>1 DEF GateInv, GateTypes, Manned
<1> QED BY <1>3, <1>4 DEF GateInv

\* The limiters, the clock and the admins leave the browsers alone.
LEMMA GateKept ==
    ASSUME CeilingInv, GateInv, Onward, page' = page, cookie' = cookie,
           GateTypes', Manned'
    PROVE  GateInv'
<1> SUFFICES ASSUME NEW c \in Browsers PROVE Fine(page[c], cookie[c])'
  BY DEF GateInv
<1>1. page[c] \in Pages /\ cookie[c] \in Cookies \cup {Idle} /\ Fine(page[c], cookie[c])
  BY DEF GateInv, GateTypes
<1>2. PICK q \in Pages, e \in Cookies \cup {Idle} :
          q = page[c] /\ e = cookie[c] /\ Fine(q, e)
  BY <1>1
<1>3. Fine(q, e)'
  BY <1>2, FineKept, LimiterTypes DEF GateTypes
<1> QED BY <1>2, <1>3 DEF Fine, Honest, Dated, Backed

\* A browser's page and cookie, by where its request is.
LEMMA PageAt ==
    ASSUME GateInv, NEW c \in Browsers
    PROVE  /\ page[c] \in Pages /\ cookie[c] \in Cookies \cup {Idle}
           /\ Fine(page[c], cookie[c])
           /\ page[c].at \in {"come", "allow", "gate", "stamp"} =>
                 /\ page[c] \in [at : {"come", "allow", "gate", "stamp"}, snap : Snapshots]
                 /\ page[c].snap.lim \in DOMAIN buckets
           /\ page[c].at = "sign" => page[c] \in [at : {"sign"}, ts : Nat, born : Nat]
           /\ page[c].at = "render" =>
                 page[c] \in [at : {"render"}, ts : Nat, diff : Nat, sig : Signature, born : Nat]
           /\ page[c].at = "solve" =>
                 page[c] \in [at : {"solve"}, ts : Nat, diff : Nat, sig : Signature,
                              born : Nat, age : Nat]
<1>1. page[c] \in Pages /\ cookie[c] \in Cookies \cup {Idle} /\ Fine(page[c], cookie[c])
  BY DEF GateInv, GateTypes
<1>2. page[c].at \in {"come", "allow", "gate", "stamp"} => page[c].snap.lim \in DOMAIN buckets
  BY <1>1 DEF Fine
<1> QED BY <1>1, <1>2 DEF Pages, NoPage

\* The limiters of a process stay, whatever the limiter does.
LEMMA LimiterMoves ==
    ASSUME CeilingInv, [Next]_vars
    PROVE  /\ now' \in Nat /\ now <= now'
           /\ DOMAIN buckets \subseteq DOMAIN buckets'
           /\ now' = now \/ Tick
<1>0. buckets \in Seq(Bucket) /\ DOMAIN buckets = 1..Len(buckets) /\ now \in Nat
  BY LimiterTypes DEF CeilingInv, TypeOK
<1>1. ASSUME NEW c \in Callers, AllowCommit(c) \/ \E l \in DOMAIN buckets : AllowBegin(c, l)
      PROVE  now' = now /\ DOMAIN buckets' = DOMAIN buckets
  BY <1>1 DEF AllowCommit, AllowBegin
<1>2. ASSUME NEW l \in DOMAIN buckets, Remaining(l)
      PROVE  now' = now /\ DOMAIN buckets' = DOMAIN buckets
  BY <1>2 DEF Remaining
<1>3. ASSUME NewGlobal PROVE now' = now /\ DOMAIN buckets \subseteq DOMAIN buckets'
  <2>1. Len(Append(buckets, FullBucket)) = Len(buckets) + 1
    BY <1>0
  <2>2. buckets' = Append(buckets, FullBucket) /\ now' = now
    BY <1>3 DEF NewGlobal
  <2>3. DOMAIN buckets' = 1..(Len(buckets) + 1)
    BY <1>0, <2>2
  <2> QED BY <1>0, <2>2, <2>3, LimiterTypes
<1>4. ASSUME Tick \/ OpenWindow \/ UNCHANGED vars
      PROVE  /\ now' \in Nat /\ now <= now' /\ DOMAIN buckets' = DOMAIN buckets
             /\ now' = now \/ Tick
  BY <1>0, <1>4 DEF Tick, OpenWindow, vars
<1> QED BY <1>0, <1>1, <1>2, <1>3, <1>4 DEF Next

\* A step of the gate is a step of the limiters, or a new process begins.
LEMMA LimiterStep ==
    ASSUME GateInv, ChallengeNext
    PROVE  [Next]_vars \/ Restart
<1>0. Browsers \subseteq Callers
  BY ChallengeAssumption
<1>1. ASSUME NEW c \in Browsers, Browse(c) PROVE [Next]_vars
  <2>1. CASE Gate(c)
    <3>1. Remaining(page[c].snap.lim) \/ UNCHANGED limiter
      BY <2>1 DEF Gate
    <3>2. page[c].snap.lim \in DOMAIN buckets
      BY <2>1, PageAt DEF Gate
    <3> QED BY <3>1, <3>2 DEF Next, limiter, vars
  <2>2. CASE Enter(c)
    <3>1. AllowBegin(c, page[c].snap.lim) /\ page[c].snap.lim \in DOMAIN buckets
      BY <2>2, PageAt DEF Enter
    <3> QED BY <1>0, <3>1 DEF Next
  <2>3. CASE Leave(c)
    BY <1>0, <2>3 DEF Leave, Next
  <2>4. CASE Arrive(c) \/ Check(c) \/ Stamp(c) \/ SignPuzzle(c) \/ Render(c) \/ Solve(c)
    BY <2>4 DEF Arrive, Check, Stamp, SignPuzzle, Render, Solve, limiter, vars
  <2> QED BY <1>1, <2>1, <2>2, <2>3, <2>4 DEF Browse
<1>2. ASSUME NEW c \in Browsers, Alter(c) PROVE [Next]_vars
  BY <1>2 DEF Alter, limiter, vars
<1>3. ASSUME NEW c \in Callers, EnterOther(c) \/ Leave(c) PROVE [Next]_vars
  BY <1>3 DEF EnterOther, Leave, Next
<1>4. ASSUME NEW k \in Admins,
             Build(k) \/ StoreDifficulty(k) \/ StoreTTL(k) \/ FlipLoad(k) \/ Install(k)
      PROVE  [Next]_vars
  BY <1>4 DEF Build, StoreDifficulty, StoreTTL, FlipLoad, Install, Next, limiter, vars
<1>5. CASE Clock \/ Observe
  BY <1>5 DEF Clock, Observe, Next
<1> QED BY <1>1, <1>2, <1>3, <1>4, <1>5 DEF ChallengeNext

\* The limiters keep their invariant behind the gate.
LEMMA LimiterInvStep == CeilingInv /\ GateInv /\ [ChallengeNext]_all => CeilingInv'
<1> SUFFICES ASSUME CeilingInv, GateInv, [ChallengeNext]_all PROVE CeilingInv'
  OBVIOUS
<1>1. CASE [Next]_vars
  BY <1>1, CeilingStep
<1>2. CASE Restart
  <2>1. /\ buckets' = <<FullBucket>> /\ used' = << 0 >> /\ from' = now /\ now' = now
        /\ call' = [c \in Callers |-> Idle] /\ now \in Nat
    BY <1>2, LimiterTypes DEF Restart
  <2>2. FullBucket \in Bucket /\ FullBucket.tokens <= Burst /\ FullBucket.last <= now
    BY <2>1, BucketAssumption DEF FullBucket, Bucket
  <2>3. /\ buckets' \in Seq(Bucket) /\ used' \in Seq(Nat) /\ Len(used') = Len(buckets')
        /\ \A l \in DOMAIN buckets' : buckets'[l] = FullBucket /\ used'[l] = 0
    BY <2>1, <2>2
  <2> QED BY <2>1, <2>2, <2>3 DEF CeilingInv, TypeOK, RemainingIsFraction, Paid, Balanced
<1>3. CASE UNCHANGED all
  <2>1. UNCHANGED vars
    BY <1>3 DEF all, limiter, vars
  <2> QED BY <2>1, CeilingStep
<1> QED BY <1>1, <1>2, <1>3, LimiterStep

\* Every step keeps the inductive invariant.
LEMMA GateStep == CeilingInv /\ GateInv /\ [ChallengeNext]_all => GateInv'
<1> SUFFICES ASSUME CeilingInv, GateInv, [ChallengeNext]_all PROVE GateInv'
  OBVIOUS
<1>0. /\ now \in Nat /\ difficulty \in Nat /\ ttl \in Nat /\ secret \in Nat
      /\ past \subseteq [diff : Nat, until : Nat]
      /\ snap \in Snapshots /\ ctl \in [Admins -> Controls \cup {Idle}]
      /\ page \in [Browsers -> Pages] /\ cookie \in [Browsers -> Cookies \cup {Idle}]
      /\ Manned
  BY LimiterTypes DEF GateInv, GateTypes
<1>a. \A cfg \in Configs : cfg.mode \in Modes /\ cfg.diff \in Nat /\ cfg.ttl \in Nat
  BY ChallengeAssumption DEF Modes
<1>m. ASSUME NEW c \in Browsers, NEW p \in Pages, page' = [page EXCEPT ![c] = p],
             p.at \in {"come", "allow", "gate", "stamp"} => p.snap.lim \in DOMAIN buckets,
             p.at \notin {"sign", "render", "solve"}, cookie' = cookie,
             UNCHANGED <<now, manager, control>>, DOMAIN buckets' = DOMAIN buckets
      PROVE  GateInv'
  <2>1. cookie' = [cookie EXCEPT ![c] = cookie[c]]
    BY <1>0, <1>m
  <2>2. Fine(p, cookie[c]) /\ cookie[c] \in Cookies \cup {Idle}
    BY <1>m, PageAt DEF Fine
  <2> QED BY <1>m, <2>1, <2>2, GateMoves
\* The handler and the page's script.
<1>1. ASSUME NEW c \in Browsers, Arrive(c) PROVE GateInv'
  <2> DEFINE p == [at |-> "come", snap |-> snap]
  <2>1. p \in Pages /\ p.at = "come" /\ p.snap.lim \in DOMAIN buckets
    BY <1>0 DEF Pages, Manned
  <2>2. /\ page' = [page EXCEPT ![c] = p] /\ cookie' = cookie
        /\ UNCHANGED <<now, manager, control>> /\ DOMAIN buckets' = DOMAIN buckets
    BY <1>1 DEF Arrive, limiter
  <2> HIDE DEF p
  <2> QED BY <1>m, <2>1, <2>2
<1>r. ASSUME NEW c \in Browsers, NEW at \in {"allow", "gate", "stamp"},
             page' = [page EXCEPT ![c].at = at], page[c].at \in {"come", "gate"},
             cookie' = cookie, UNCHANGED <<now, manager, control>>,
             DOMAIN buckets' = DOMAIN buckets
      PROVE  GateInv'
  <2>1. /\ page[c] \in [at : {"come", "allow", "gate", "stamp"}, snap : Snapshots]
        /\ page[c].snap.lim \in DOMAIN buckets
    BY <1>r, PageAt
  <2> DEFINE p == [page[c] EXCEPT !.at = at]
  <2>2. p \in [at : {"come", "allow", "gate", "stamp"}, snap : Snapshots]
        /\ p.at = at /\ p.snap = page[c].snap
    BY <2>1
  <2>3. p \in Pages /\ p.at \notin {"sign", "render", "solve"} /\ p.snap.lim \in DOMAIN buckets
    BY <2>1, <2>2 DEF Pages
  <2>4. page' = [page EXCEPT ![c] = p]
    BY <1>0, <1>r
  <2> HIDE DEF p
  <2> QED BY <1>m, <1>r, <2>3, <2>4
<1>2. ASSUME NEW c \in Browsers, Check(c) PROVE GateInv'
  <2>1. PICK ck \in {Sent(c), cookie[c]} :
            page' = [page EXCEPT ![c].at = IF HasClearance(ck) THEN "allow" ELSE "gate"]
    BY <1>2 DEF Check
  <2>2. page[c].at = "come" /\ cookie' = cookie /\ UNCHANGED <<now, manager, control>>
        /\ DOMAIN buckets' = DOMAIN buckets
    BY <1>2 DEF Check, limiter
  <2> QED BY <1>r, <2>1, <2>2
<1>3. ASSUME NEW c \in Browsers, Gate(c) PROVE GateInv'
  <2>1. PICK kind \in {"forced", "html", "other"} :
            page' = [page EXCEPT ![c].at =
                        IF Wanted(kind, page[c].snap.mode, buckets'[page[c].snap.lim].tokens)
                        THEN "stamp" ELSE "allow"]
    BY <1>3 DEF Gate
  <2>2. page[c].at = "gate" /\ cookie' = cookie /\ UNCHANGED <<now, manager, control>>
        /\ DOMAIN buckets' = DOMAIN buckets
    BY <1>3 DEF Gate, Remaining, limiter
  <2> QED BY <1>r, <2>1, <2>2
<1>4. ASSUME NEW c \in Browsers, Stamp(c) PROVE GateInv'
  <2> DEFINE p == [at |-> "sign", ts |-> Whole(now), born |-> now]
  <2>1. /\ page' = [page EXCEPT ![c] = p] /\ cookie' = cookie
        /\ UNCHANGED <<now, manager, control>> /\ DOMAIN buckets' = DOMAIN buckets
    BY <1>4 DEF Stamp, limiter
  <2>2. Whole(now) \in Nat /\ Dated(Whole(now), now)
    BY <1>0, WholeDated
  <2>3. p \in Pages /\ Fine(p, cookie[c])
    BY <1>0, <2>2, PageAt DEF Pages, Fine
  <2>4. cookie' = [cookie EXCEPT ![c] = cookie[c]] /\ cookie[c] \in Cookies \cup {Idle}
    BY <1>0, <2>1
  <2> HIDE DEF p
  <2> QED BY <2>1, <2>3, <2>4, GateMoves
<1>5. ASSUME NEW c \in Browsers, SignPuzzle(c) PROVE GateInv'
  <2> DEFINE sig == [key |-> secret, ts |-> page[c].ts, diff |-> difficulty]
             p == [at |-> "render", ts |-> page[c].ts, diff |-> difficulty, sig |-> sig,
                   born |-> page[c].born]
  <2>1. /\ page' = [page EXCEPT ![c] = p] /\ cookie' = cookie
        /\ UNCHANGED <<now, manager, control>> /\ DOMAIN buckets' = DOMAIN buckets
    BY <1>5 DEF SignPuzzle, Sign, limiter
  <2>2. page[c] \in [at : {"sign"}, ts : Nat, born : Nat] /\ Fine(page[c], cookie[c])
    BY <1>5, PageAt DEF SignPuzzle
  <2>3. Dated(page[c].ts, page[c].born) /\ page[c].ts <= now
    BY <1>0, <2>2 DEF Fine, Dated
  <2>4. p \in Pages /\ Honest(p) /\ Backed(p.sig)
    BY <1>0, <2>2, <2>3 DEF Pages, Signature, Honest, Backed
  <2>5. Fine(p, cookie[c])
    BY <2>2, <2>4 DEF Fine
  <2>6. cookie' = [cookie EXCEPT ![c] = cookie[c]] /\ cookie[c] \in Cookies \cup {Idle}
    BY <1>0, <2>1
  <2> HIDE DEF p, sig
  <2> QED BY <2>1, <2>4, <2>5, <2>6, GateMoves
<1>6. ASSUME NEW c \in Browsers, Render(c) PROVE GateInv'
  <2> DEFINE p == [at |-> "solve", ts |-> page[c].ts, diff |-> page[c].diff,
                   sig |-> page[c].sig, born |-> page[c].born, age |-> Whole(ttl)]
  <2>1. /\ page' = [page EXCEPT ![c] = p] /\ cookie' = cookie
        /\ UNCHANGED <<now, manager, control>> /\ DOMAIN buckets' = DOMAIN buckets
    BY <1>0, <1>6 DEF Render, MaxAge, limiter
  <2>2. /\ page[c] \in [at : {"render"}, ts : Nat, diff : Nat, sig : Signature, born : Nat]
        /\ Fine(page[c], cookie[c])
    BY <1>6, PageAt DEF Render
  <2>3. p \in Pages
    BY <1>0, <2>2, WholeDated DEF Pages
  <2>4. Fine(p, cookie[c])
    BY <1>6, <2>2 DEF Fine, Honest, Render
  <2>5. cookie' = [cookie EXCEPT ![c] = cookie[c]] /\ cookie[c] \in Cookies \cup {Idle}
    BY <1>0, <2>1
  <2> HIDE DEF p
  <2> QED BY <2>1, <2>3, <2>4, <2>5, GateMoves
<1>7. ASSUME NEW c \in Browsers, Solve(c) PROVE GateInv'
  <2> DEFINE ck == [ts |-> page[c].ts, diff |-> page[c].diff, sig |-> page[c].sig,
                    work |-> page[c].diff, until |-> now + page[c].age,
                    born |-> page[c].born, altered |-> FALSE]
  <2>1. /\ page' = [page EXCEPT ![c] = NoPage] /\ cookie' = [cookie EXCEPT ![c] = ck]
        /\ UNCHANGED <<now, manager, control>> /\ DOMAIN buckets' = DOMAIN buckets
    BY <1>7 DEF Solve, limiter
  <2>2. /\ page[c] \in [at : {"solve"}, ts : Nat, diff : Nat, sig : Signature,
                        born : Nat, age : Nat]
        /\ Honest(page[c]) /\ Backed(page[c].sig)
    BY <1>7, PageAt DEF Solve, Fine
  <2>3. ck \in Cookies
    BY <1>0, <2>2 DEF Cookies
  <2>4. NoPage \in Pages /\ Fine(NoPage, ck)
    BY <2>2 DEF Pages, NoPage, Fine, Honest
  <2> HIDE DEF ck
  <2> QED BY <2>1, <2>3, <2>4, GateMoves
<1>8. ASSUME NEW c \in Browsers, Enter(c) PROVE GateInv'
  <2>1. NoPage \in Pages /\ NoPage.at = "idle"
    BY DEF Pages, NoPage
  <2>2. /\ page' = [page EXCEPT ![c] = NoPage] /\ cookie' = cookie
        /\ UNCHANGED <<now, manager, control>> /\ DOMAIN buckets' = DOMAIN buckets
    BY <1>8 DEF Enter, AllowBegin
  <2> QED BY <1>m, <2>1, <2>2
<1>9. ASSUME NEW c \in Browsers, Alter(c) PROVE GateInv'
  <2>1. PICK ts \in {Whole(t) : t \in 0..now}, diff \in {cfg.diff : cfg \in Configs},
             work \in {cfg.diff : cfg \in Configs} \cup {0} :
            cookie' = [cookie EXCEPT ![c].ts = ts, ![c].diff = diff, ![c].work = work,
                                     ![c].altered = TRUE]
    BY <1>9 DEF Alter
  <2>2. ts \in Nat /\ diff \in Nat /\ work \in Nat
    BY <1>0, <1>a, WholeDated
  <2> DEFINE ck == [cookie[c] EXCEPT !.ts = ts, !.diff = diff, !.work = work, !.altered = TRUE]
  <2>3. cookie[c] \in Cookies /\ page[c] \in Pages /\ Fine(page[c], cookie[c])
        /\ cookie[c] # Idle
    BY <1>9, PageAt DEF Alter
  <2>4. ck \in Cookies /\ ck.sig = cookie[c].sig /\ ck.altered
    BY <2>2, <2>3 DEF Cookies
  <2>5. Fine(page[c], ck)
    BY <2>3, <2>4 DEF Fine
  <2>6. cookie' = [cookie EXCEPT ![c] = ck]
    BY <1>0, <2>1
  <2>7. /\ page' = [page EXCEPT ![c] = page[c]]
        /\ UNCHANGED <<now, manager, control>> /\ DOMAIN buckets' = DOMAIN buckets
    BY <1>0, <1>9 DEF Alter, limiter
  <2> HIDE DEF ck
  <2> QED BY <2>3, <2>4, <2>5, <2>6, <2>7, GateMoves
\* The limiters, the clock and the admins.
<1>k. ASSUME [Next]_vars, page' = page, cookie' = cookie, past \subseteq past',
             difficulty' = difficulty \/ [diff |-> difficulty, until |-> now] \in past',
             GateTypes', Manned'
      PROVE  GateInv'
  <2>1. Onward
    BY <1>k, LimiterMoves DEF Onward, Remembers
  <2> QED BY <1>k, <2>1, GateKept
<1>10. ASSUME NEW c \in Callers, EnterOther(c) \/ Leave(c) PROVE GateInv'
  <2>1. [Next]_vars
    BY <1>10 DEF EnterOther, Leave, Next
  <2>2. page' = page /\ cookie' = cookie /\ UNCHANGED <<manager, control>>
        /\ DOMAIN buckets' = DOMAIN buckets
    BY <1>10 DEF EnterOther, Leave, AllowBegin, AllowCommit
  <2>3. GateTypes' /\ Manned'
    BY <1>0, <2>2 DEF GateInv, GateTypes, Manned, manager, control
  <2> QED BY <1>k, <2>1, <2>2, <2>3 DEF manager
<1>11. ASSUME NEW k \in Admins, Build(k) PROVE GateInv'
  <2>1. [Next]_vars
    BY <1>11 DEF Build, Next
  <2>2. DOMAIN buckets \subseteq DOMAIN buckets' /\ Len(buckets') \in DOMAIN buckets'
    <3>1. /\ buckets' = Append(buckets, FullBucket) /\ buckets \in Seq(Bucket)
          /\ FullBucket \in Bucket
      BY <1>11, BucketAssumption, LimiterTypes
      DEF Build, NewGlobal, CeilingInv, TypeOK, FullBucket, Bucket
    <3>2. Len(buckets') = Len(buckets) + 1 /\ DOMAIN buckets' = 1..Len(buckets')
      BY <3>1
    <3> QED BY <3>2, LimiterTypes
  <2>3. PICK cfg \in Configs :
            ctl' = [ctl EXCEPT ![k] = [at |-> "params", diff |-> cfg.diff, ttl |-> cfg.ttl,
                                       snap |-> [lim |-> Len(buckets'), mode |-> cfg.mode]]]
    BY <1>11 DEF Build
  <2> DEFINE e == [at |-> "params", diff |-> cfg.diff, ttl |-> cfg.ttl,
                   snap |-> [lim |-> Len(buckets'), mode |-> cfg.mode]]
  <2>4. Len(buckets') \in Nat
    <3>1. CeilingInv'
      BY <2>1, CeilingStep
    <3> QED BY <3>1 DEF CeilingInv, TypeOK
  <2>5. e \in Controls /\ e.snap.lim \in DOMAIN buckets'
    BY <1>a, <2>2, <2>4 DEF Controls, Snapshots
  <2>6. page' = page /\ cookie' = cookie /\ UNCHANGED <<manager, snap>>
    BY <1>11 DEF Build
  <2>7. ctl' = [ctl EXCEPT ![k] = e]
    BY <2>3
  <2> HIDE DEF e
  <2>8. GateTypes' /\ Manned'
    BY <1>0, <2>2, <2>5, <2>6, <2>7 DEF GateTypes, Manned, manager
  <2> QED BY <1>k, <2>1, <2>6, <2>8 DEF manager
<1>12. ASSUME NEW k \in Admins, StoreDifficulty(k) PROVE GateInv'
  <2>1. /\ [Next]_vars /\ DOMAIN buckets' = DOMAIN buckets
        /\ page' = page /\ cookie' = cookie /\ UNCHANGED <<ttl, secret, snap>>
        /\ past' = past \cup {[diff |-> difficulty, until |-> now]}
        /\ ctl' = [ctl EXCEPT ![k].at = "lifetime"] /\ difficulty' = ctl[k].diff
    BY <1>12 DEF StoreDifficulty, limiter, vars
  <2>2. ctl[k] \in [at : {"params", "lifetime", "swap"}, diff : Nat, ttl : Nat, snap : Snapshots]
        /\ ctl[k] # Idle
    BY <1>0, <1>12 DEF StoreDifficulty, Controls
  <2>3. [diff |-> difficulty, until |-> now] \in [diff : Nat, until : Nat]
    BY <1>0
  <2> DEFINE e == [ctl[k] EXCEPT !.at = "lifetime"]
  <2>4. e \in Controls /\ e.snap = ctl[k].snap /\ ctl' = [ctl EXCEPT ![k] = e]
    BY <1>0, <2>1, <2>2 DEF Controls
  <2> HIDE DEF e
  <2>5. GateTypes' /\ Manned'
    BY <1>0, <2>1, <2>2, <2>3, <2>4 DEF GateTypes, Manned
  <2> QED BY <1>k, <2>1, <2>5
<1>13. ASSUME NEW k \in Admins, StoreTTL(k) PROVE GateInv'
  <2>1. /\ [Next]_vars /\ DOMAIN buckets' = DOMAIN buckets
        /\ page' = page /\ cookie' = cookie /\ UNCHANGED <<difficulty, past, secret, snap>>
        /\ ctl' = [ctl EXCEPT ![k].at = "swap"] /\ ttl' = ctl[k].ttl
    BY <1>13 DEF StoreTTL, limiter, vars
  <2>2. ctl[k] \in [at : {"params", "lifetime", "swap"}, diff : Nat, ttl : Nat, snap : Snapshots]
        /\ ctl[k] # Idle
    BY <1>0, <1>13 DEF StoreTTL, Controls
  <2> DEFINE e == [ctl[k] EXCEPT !.at = "swap"]
  <2>3. e \in Controls /\ e.snap = ctl[k].snap /\ ctl' = [ctl EXCEPT ![k] = e]
    BY <1>0, <2>1, <2>2 DEF Controls
  <2> HIDE DEF e
  <2>4. GateTypes' /\ Manned'
    BY <1>0, <2>1, <2>2, <2>3 DEF GateTypes, Manned
  <2> QED BY <1>k, <2>1, <2>4
<1>14. ASSUME NEW k \in Admins, FlipLoad(k) PROVE GateInv'
  <2>1. /\ [Next]_vars /\ DOMAIN buckets' = DOMAIN buckets
        /\ page' = page /\ cookie' = cookie /\ UNCHANGED <<manager, snap>>
    BY <1>14 DEF FlipLoad, limiter, vars
  <2>2. PICK m \in {"adaptive", "always"} :
            ctl' = [ctl EXCEPT ![k] = [at |-> "store", snap |-> [snap EXCEPT !.mode = m]]]
    BY <1>14 DEF FlipLoad
  <2> DEFINE e == [at |-> "store", snap |-> [snap EXCEPT !.mode = m]]
  <2>3. e \in Controls /\ e.snap.lim = snap.lim /\ ctl' = [ctl EXCEPT ![k] = e]
    BY <1>0, <2>2 DEF Controls, Snapshots, Modes
  <2> HIDE DEF e
  <2>4. GateTypes' /\ Manned'
    BY <1>0, <2>1, <2>3 DEF GateTypes, Manned, manager
  <2> QED BY <1>k, <2>1, <2>4 DEF manager
<1>15. ASSUME NEW k \in Admins, Install(k) PROVE GateInv'
  <2>1. /\ [Next]_vars /\ DOMAIN buckets' = DOMAIN buckets
        /\ page' = page /\ cookie' = cookie /\ UNCHANGED manager
        /\ snap' = ctl[k].snap /\ ctl' = [ctl EXCEPT ![k] = Idle]
    BY <1>15 DEF Install, limiter, vars
  <2>2. ctl[k] \in Controls /\ ctl[k] # Idle
    BY <1>0, <1>15 DEF Install
  <2>3. ctl[k].snap \in Snapshots /\ ctl[k].snap.lim \in DOMAIN buckets
    BY <1>0, <2>2 DEF Controls, Manned
  <2>4. GateTypes' /\ Manned'
    BY <1>0, <2>1, <2>3 DEF GateTypes, Manned, manager
  <2> QED BY <1>k, <2>1, <2>4 DEF manager
<1>16. CASE Clock \/ Observe
  <2>1. /\ [Next]_vars /\ DOMAIN buckets' = DOMAIN buckets
        /\ page' = page /\ cookie' = cookie /\ UNCHANGED <<manager, control>>
    BY <1>16 DEF Clock, Observe, Tick, OpenWindow, Next
  <2>2. GateTypes' /\ Manned'
    BY <1>0, <2>1 DEF GateTypes, Manned, manager, control
  <2> QED BY <1>k, <2>1, <2>2 DEF manager
\* A new process: only the pages being solved and the cookies survive.
<1>17. CASE Restart
  <2>1. PICK cfg \in Configs : /\ difficulty' = cfg.diff /\ ttl' = cfg.ttl
                               /\ snap' = [lim |-> 1, mode |-> cfg.mode]
    BY <1>17 DEF Restart
  <2>2. /\ past' = past \cup {[diff |-> difficulty, until |-> now]}
        /\ ctl' = [k \in Admins |-> Idle] /\ buckets' = <<FullBucket>>
        /\ page' = [c \in Browsers |-> IF page[c].at = "solve" THEN page[c] ELSE NoPage]
        /\ secret' \in Nat /\ now' = now /\ cookie' = cookie
    BY <1>0, <1>17 DEF Restart
  <2>3. [diff |-> difficulty, until |-> now] \in [diff : Nat, until : Nat]
    BY <1>0
  <2>4. Remembers /\ past' \subseteq [diff : Nat, until : Nat]
    BY <1>0, <2>2, <2>3 DEF Remembers
  <2>5. GateTypes' /\ Manned'
    BY <1>0, <1>a, <2>1, <2>2, <2>4 DEF GateTypes, Manned, Snapshots, Pages
  <2>6. \A sig \in Signature : Backed(sig) => Backed(sig)'
    BY <1>0, <2>4, BackedKept
  <2>7. ASSUME NEW c \in Browsers PROVE Fine(page[c], cookie[c])'
    <3>1. /\ page'[c] = page[c] /\ page[c].at = "solve"
          \/ page'[c] = NoPage
      BY <2>2
    <3>2. page[c] \in Pages /\ cookie[c] \in Cookies \cup {Idle} /\ Fine(page[c], cookie[c])
      BY PageAt
    <3>3. page[c].at = "solve" => page[c].sig \in Signature /\ Honest(page[c]) /\ Backed(page[c].sig)
      BY <3>2, PageAt DEF Fine
    <3>4. PICK p \in Pages, ck \in Cookies \cup {Idle} :
              /\ p = page'[c] /\ ck = cookie[c]
              /\ p.at \in {"idle", "solve"}
              /\ p.at = "solve" => p.sig \in Signature /\ Honest(p) /\ Backed(p.sig)
              /\ ck # Idle => /\ ck.sig \in Signature /\ Backed(ck.sig)
                              /\ ck.altered \/ (Honest(ck) /\ ck.work = ck.diff)
      <4>1. NoPage \in Pages /\ NoPage.at = "idle"
        BY DEF Pages, NoPage
      <4>2. cookie[c] # Idle => /\ cookie[c].sig \in Signature /\ Backed(cookie[c].sig)
                                /\ \/ cookie[c].altered
                                   \/ Honest(cookie[c]) /\ cookie[c].work = cookie[c].diff
        BY <3>2 DEF Cookies, Fine
      <4> QED BY <3>1, <3>2, <3>3, <4>1, <4>2
    <3>5. /\ p.at = "solve" => Backed(p.sig)'
          /\ ck # Idle => Backed(ck.sig)'
      BY <2>6, <3>4
    <3> QED BY <2>2, <3>4, <3>5 DEF Fine, Honest, Dated, Backed
  <2> QED BY <2>5, <2>7 DEF GateInv
<1>18. CASE UNCHANGED all
  <2>1. /\ [Next]_vars /\ DOMAIN buckets' = DOMAIN buckets
        /\ page' = page /\ cookie' = cookie /\ UNCHANGED <<manager, control>>
    BY <1>18 DEF all, limiter, vars, manager, control
  <2>2. GateTypes' /\ Manned'
    BY <1>0, <2>1 DEF GateTypes, Manned, manager, control
  <2> QED BY <1>k, <2>1, <2>2 DEF manager
<1>19. Browsers \subseteq Callers
  BY ChallengeAssumption
<1> QED BY <1>1, <1>2, <1>3, <1>4, <1>5, <1>6, <1>7, <1>8, <1>9, <1>10, <1>11, <1>12, <1>13,
           <1>14, <1>15, <1>16, <1>17, <1>18, <1>19
        DEF ChallengeNext, Browse

ClearanceInv == CeilingInv /\ GateInv

LEMMA ClearanceInvariance == ChallengeSpec => []ClearanceInv
<1>1. ChallengeInit => ClearanceInv
  <2> SUFFICES ASSUME ChallengeInit PROVE ClearanceInv
    OBVIOUS
  <2>1. CeilingInv
    BY CeilingBegins DEF ChallengeInit, Init
  <2>2. NoPage \in Pages /\ NoPage.at = "idle"
    BY DEF Pages, NoPage
  <2>3. DOMAIN buckets = 1..1
    BY DEF ChallengeInit, Init
  <2>4. \A c \in Browsers : Fine(page[c], cookie[c])
    BY <2>2 DEF ChallengeInit, Fine
  <2>5. GateTypes /\ Manned
    BY <2>2, <2>3, ChallengeAssumption
    DEF ChallengeInit, GateTypes, Manned, Snapshots, Modes
  <2> QED BY <2>1, <2>4, <2>5 DEF ClearanceInv, GateInv
<1>2. ClearanceInv /\ [ChallengeNext]_all => ClearanceInv'
  BY LimiterInvStep, GateStep DEF ClearanceInv
<1> QED BY <1>1, <1>2, PTL DEF ChallengeSpec

\* The ceiling of each limiter holds behind the gate too: neither Remaining,
\* read by every request the adaptive mode looks at, nor a reload or a mode
\* flip under way, nor requests that still hold a limiter which a reload has
\* replaced, lets it admit more.
THEOREM CeilingBehindGate == ChallengeSpec => []CeilingHolds
<1>1. ClearanceInv => CeilingHolds
  BY CeilingFollows DEF ClearanceInv
<1> QED BY <1>1, ClearanceInvariance, PTL

----------------------------------------------------------------------------
(* What a clearance is worth. *)

\* Only a check of the request takes a browser at the gate to either side.
LEMMA OnlyChecks ==
    ASSUME GateInv, ChallengeNext, NEW c \in Browsers,
           page[c].at = "come", page'[c].at \in {"allow", "gate"}
    PROVE  Check(c)
<1>0. page \in [Browsers -> Pages]
  BY DEF GateInv, GateTypes
<1>1. ASSUME NEW d \in Browsers, d # c, Browse(d) PROVE page'[c] = page[c]
  BY <1>0, <1>1
  DEF Browse, Arrive, Check, Gate, Stamp, SignPuzzle, Render, Solve, Enter, Leave
<1>2. ASSUME Browse(c) PROVE Check(c)
  BY <1>0, <1>2
  DEF Browse, Arrive, Check, Gate, Stamp, SignPuzzle, Render, Solve, Enter, Leave
<1>3. ASSUME Restart PROVE FALSE
  BY <1>3 DEF Restart, NoPage
<1>4. ASSUME NEW d \in Callers, EnterOther(d) \/ Leave(d) PROVE page' = page
  BY <1>4 DEF EnterOther, Leave
<1>5. ASSUME NEW k \in Admins,
             Build(k) \/ StoreDifficulty(k) \/ StoreTTL(k) \/ FlipLoad(k) \/ Install(k)
      PROVE  page' = page
  BY <1>5 DEF Build, StoreDifficulty, StoreTTL, FlipLoad, Install
<1>6. ASSUME \/ \E d \in Browsers : Alter(d)
             \/ Clock \/ Observe
      PROVE  page' = page
  BY <1>6 DEF Alter, Clock, Observe
<1> QED BY <1>1, <1>2, <1>3, <1>4, <1>5, <1>6 DEF ChallengeNext

\* Whoever gets by on a clearance, whatever cookie it sends under a signature
\* of this server, has done the work of a difficulty that is in force or was
\* within the last lifetime; a raised difficulty takes hold within one.
THEOREM HardnessTakesHold == ChallengeSpec => HardnessCatchesUp
<1> DEFINE A == \A c \in Browsers : page[c].at = "come" /\ page'[c].at = "allow" =>
                    \E d \in 0..cookie[c].work : InForceLately(d)
<1>1. ASSUME ClearanceInv, ChallengeNext PROVE A
  <2> SUFFICES ASSUME NEW c \in Browsers, page[c].at = "come", page'[c].at = "allow"
               PROVE  \E d \in 0..cookie[c].work : InForceLately(d)
    OBVIOUS
  <2>0. GateInv /\ now \in Nat /\ ttl \in Nat /\ past \subseteq [diff : Nat, until : Nat]
    BY <1>1, LimiterTypes DEF ClearanceInv, GateInv, GateTypes
  <2>1. Check(c)
    BY <1>1, <2>0, OnlyChecks
  <2>2. PICK s \in {Sent(c), cookie[c]} :
            page' = [page EXCEPT ![c].at = IF HasClearance(s) THEN "allow" ELSE "gate"]
    BY <2>1 DEF Check
  <2>3. HasClearance(s)
    BY <2>0, <2>2 DEF GateInv, GateTypes
  <2> DEFINE ck == cookie[c]
  <2>4. s = ck /\ ck # Idle
    BY <2>2, <2>3 DEF Sent, HasClearance
  <2>5. ck \in Cookies /\ Backed(ck.sig)
    BY <2>0, <2>4, PageAt DEF Fine
  <2>6. ck.sig = Sign(ck) /\ now - ck.ts <= ttl /\ ck.work >= ck.diff
    BY <2>3, <2>4 DEF HasClearance, Verify
  <2>7. ck.sig.ts = ck.ts /\ ck.sig.diff = ck.diff
    BY <2>6 DEF Sign
  <2>8. ck.ts \in Nat /\ ck.diff \in Nat /\ ck.work \in Nat
    BY <2>5 DEF Cookies
  <2> HIDE DEF ck
  <2>9. ck.diff \in 0..ck.work
    BY <2>6, <2>8
  <2>10. InForceLately(ck.diff)
    <3>1. CASE ck.diff = difficulty
      BY <3>1 DEF InForceLately
    <3>2. CASE \E r \in past : r.diff = ck.diff /\ r.until >= ck.ts
      <4>1. PICK r \in past : r.diff = ck.diff /\ r.until >= ck.ts
        BY <3>2
      <4>2. r.until \in Nat
        BY <2>0
      <4>3. now - r.until <= ttl
        BY <2>0, <2>6, <2>8, <4>1, <4>2
      <4> QED BY <4>1, <4>3 DEF InForceLately
    <3> QED BY <2>5, <2>7, <3>1, <3>2 DEF Backed
  <2> QED BY <2>9, <2>10 DEF ck
<1>2. ClearanceInv /\ [ChallengeNext]_all => [A]_all
  BY <1>1
<1> QED BY <1>2, ClearanceInvariance, PTL DEF ChallengeSpec, HardnessCatchesUp

\* A clearance this process sold is honoured for its lifetime, less a second.
THEOREM ClearanceIsGood == ChallengeSpec => ClearanceHonoured
<1> DEFINE A == \A c \in Browsers : page[c].at = "come" /\ page'[c].at = "gate" =>
                    \/ Sent(c) = Idle
                    \/ Sent(c).altered
                    \/ Sent(c).sig.key # secret
                    \/ now - Sent(c).born + Second - 1 > ttl
<1>1. ASSUME ClearanceInv, ChallengeNext PROVE A
  <2> SUFFICES ASSUME NEW c \in Browsers, page[c].at = "come", page'[c].at = "gate",
                      Sent(c) # Idle, ~Sent(c).altered, Sent(c).sig.key = secret
               PROVE  now - Sent(c).born + Second - 1 > ttl
    OBVIOUS
  <2>0. GateInv /\ now \in Nat /\ ttl \in Nat /\ Second \in Nat
    BY <1>1, LimiterTypes, ChallengeAssumption DEF ClearanceInv, GateInv, GateTypes
  <2>1. Check(c)
    BY <1>1, <2>0, OnlyChecks
  <2>2. PICK s \in {Sent(c), cookie[c]} :
            page' = [page EXCEPT ![c].at = IF HasClearance(s) THEN "allow" ELSE "gate"]
    BY <2>1 DEF Check
  <2>3. ~HasClearance(s)
    BY <2>0, <2>2 DEF GateInv, GateTypes
  <2>4. cookie[c] # Idle /\ Sent(c) = cookie[c] /\ s = cookie[c]
    BY <2>2 DEF Sent
  <2> DEFINE ck == cookie[c]
  <2>5. ck \in Cookies /\ Honest(ck) /\ ck.work = ck.diff
    BY <2>0, <2>4, PageAt DEF Fine
  <2>6. ck.sig = Sign(ck)
    BY <2>4, <2>5 DEF Cookies, Signature, Honest, Sign
  <2>7. ~(now - ck.ts <= ttl)
    BY <2>3, <2>4, <2>5, <2>6 DEF HasClearance, Verify, Cookies
  <2> QED BY <2>0, <2>4, <2>5, <2>7 DEF Cookies, Honest, Dated
<1>2. ClearanceInv /\ [ChallengeNext]_all => [A]_all
  BY <1>1
<1> QED BY <1>2, ClearanceInvariance, PTL DEF ChallengeSpec, ClearanceHonoured

============================================================================
