------------------------ MODULE PerIPLimiterProofs -------------------------
(* The per-client limit and the bounds of the bucket table, for every rate, *)
(* burst, cost, cap, and set of clients and callers.                        *)
EXTENDS PerIPLimiter, TokenBucketProofs, FiniteSetTheorems

\* A stored bucket is within the burst, not ahead of the clock, and never
\* full: Allow has just spent from it, or it held less than a request's worth.
Sound(b, n) ==
    /\ b.tokens <= Burst
    /\ b.last <= n
    /\ b.tokens + Cost <= Burst \/ b.tokens < Cost

\* The inductive invariant.  The watched client's books are balanced as long
\* as it has a bucket; it loses one it has been admitted through only to an
\* eviction, which closes the window, and never to the collector.
RateInv ==
    /\ TypeOK
    /\ from <= now
    /\ \A c \in Callers : call[c] # NoCall => call[c].t <= now
    /\ \A k \in DOMAIN buckets : Sound(buckets[k], now)
    /\ used # 0 => /\ Watched \in DOMAIN buckets
                   /\ Cost <= Burst
                   /\ Balanced(buckets[Watched], from, used)

\* What AllowCommit works with: the bucket it finds or makes.
LEMMA BucketForSound ==
    ASSUME RateInv, NEW key \in Keys, NEW t \in Nat, t <= now
    PROVE  LET b == BucketFor(buckets, key, t)
           IN  b \in Bucket /\ b.tokens <= Burst /\ b.last <= now
<1>1. CASE key \in DOMAIN buckets
  BY <1>1 DEF BucketFor, RateInv, Sound, TypeOK, IsBuckets
<1>2. CASE key \notin DOMAIN buckets
  BY <1>2, BucketAssumption DEF BucketFor, Bucket
<1> QED BY <1>1, <1>2

\* What AllowCommit stores is sound.
LEMMA SpentSound ==
    ASSUME NEW now_ \in Nat, NEW b \in Bucket, b.tokens <= Burst, b.last <= now_,
           NEW t \in Nat, t <= now_
    PROVE  LET s == Spend(Refill(b, t))
           IN  /\ s \in Bucket /\ s.tokens <= Burst /\ s.last <= now_
               /\ s.tokens + Cost <= Burst \/ s.tokens < Cost
               /\ Admits(Refill(b, t)) => Cost <= Burst
<1> DEFINE f == Refill(b, t)
<1>1. /\ f \in Bucket /\ f.tokens <= Burst
      /\ f.last = IF t > b.last THEN t ELSE b.last
  BY RefillCredit
<1>2. b.last \in Nat /\ Burst \in Nat /\ Cost \in Nat
  BY BucketAssumption DEF Bucket
<1>3. f.last <= now_ /\ f.tokens \in Nat
  BY <1>1, <1>2 DEF Bucket
<1> HIDE DEF f
<1>4. /\ Spend(f) \in Bucket
      /\ Spend(f).last = f.last
      /\ Admits(f) => Spend(f).tokens = f.tokens - Cost
      /\ ~Admits(f) => Spend(f) = f /\ f.tokens < Cost
  BY <1>1, SpendCost
<1>5. Admits(f) => f.tokens >= Cost
  BY DEF Admits
<1>6. /\ Spend(f).tokens <= Burst /\ Spend(f).last <= now_
      /\ Spend(f).tokens + Cost <= Burst \/ Spend(f).tokens < Cost
      /\ Admits(f) => Cost <= Burst
  <2>1. CASE Admits(f)
    BY <2>1, <1>1, <1>2, <1>3, <1>4, <1>5
  <2>2. CASE ~Admits(f)
    BY <2>2, <1>1, <1>2, <1>3, <1>4
  <2> QED BY <2>1, <2>2
<1> QED BY <1>4, <1>6 DEF f

\* The table after AllowCommit: the victim, if any, is gone, the key's bucket
\* is stored, every other one is as it was.
LEMMA AllowTable ==
    ASSUME IsBuckets(buckets), NEW key \in Keys, NEW gone, NEW s \in Bucket,
           buckets' = Put(Without(buckets, gone), key, s)
    PROVE  /\ IsBuckets(buckets')
           /\ DOMAIN buckets' = (DOMAIN buckets \ gone) \cup {key}
           /\ buckets'[key] = s
           /\ \A k \in DOMAIN buckets' : k # key => k \in DOMAIN buckets
                                                    /\ buckets'[k] = buckets[k]
BY DEF IsBuckets, Put, Without

\* Allow keeps the inductive invariant.
LEMMA AllowStep ==
    ASSUME RateInv, NEW c \in Callers, AllowCommit(c)
    PROVE  RateInv'
<1> DEFINE key == call[c].key
           t == call[c].t
           b == BucketFor(buckets, key, t)
           f == Refill(b, t)
           s == Spend(f)
<1>1. key \in Keys /\ t \in Nat /\ t <= now
  BY DEF RateInv, TypeOK, AllowCommit, Call
<1>t. /\ now \in Nat /\ from \in Nat /\ used \in Nat /\ from <= now
      /\ IsBuckets(buckets)
  BY DEF RateInv, TypeOK
<1>2. b \in Bucket /\ b.tokens <= Burst /\ b.last <= now
  BY <1>1, BucketForSound
<1>3. PICK gone \in Evictions(buckets, key) :
          /\ buckets' = Put(Without(buckets, gone), key, s)
          /\ heard' = Put(Without(heard, gone), key,
                          IF key \in DOMAIN heard /\ heard[key] > t THEN heard[key] ELSE t)
          /\ used' = IF Watched \in gone THEN 0
                     ELSE IF key = Watched /\ Admits(f) /\ t >= from
                          THEN used + 1 ELSE used
  BY DEF AllowCommit
<1>4. key \in DOMAIN buckets => gone = {}
  BY <1>3 DEF Evictions
<1>5. /\ now' = now /\ from' = from /\ gc' = gc /\ stopped' = stopped
      /\ call' = [call EXCEPT ![c] = NoCall]
  BY DEF AllowCommit
<1>h. DOMAIN heard' = (DOMAIN heard \ gone) \cup {key} /\ heard' \in [DOMAIN heard' -> Nat]
  <2>1. PICK h \in Nat : heard' = Put(Without(heard, gone), key, h)
    BY <1>3, <1>1 DEF RateInv, TypeOK
  <2>2. heard \in [DOMAIN heard -> Nat]
    BY DEF RateInv, TypeOK
  <2> QED BY <2>1, <2>2 DEF Put, Without
<1>b. key \in DOMAIN buckets => b = buckets[key]
  BY DEF BucketFor
<1> HIDE DEF b, key, t
<1>6. /\ s \in Bucket /\ s.tokens <= Burst /\ s.last <= now
      /\ s.tokens + Cost <= Burst \/ s.tokens < Cost
      /\ Admits(f) => Cost <= Burst
  BY <1>1, <1>2, <1>t, SpentSound
<1> HIDE DEF s, f
<1>7. /\ IsBuckets(buckets')
      /\ DOMAIN buckets' = (DOMAIN buckets \ gone) \cup {key}
      /\ buckets'[key] = s
      /\ \A k \in DOMAIN buckets' : k # key => k \in DOMAIN buckets
                                               /\ buckets'[k] = buckets[k]
  BY <1>1, <1>3, <1>6, <1>t, AllowTable
<1>8. used' \in Nat
  BY <1>3, <1>t
<1>9. TypeOK'
  BY <1>5, <1>7, <1>8, <1>h DEF RateInv, TypeOK
<1>10. \A k \in DOMAIN buckets' : Sound(buckets'[k], now')
  <2> TAKE k \in DOMAIN buckets'
  <2>1. CASE k = key
    BY <2>1, <1>5, <1>6, <1>7 DEF Sound
  <2>2. CASE k # key
    BY <2>2, <1>5, <1>7 DEF RateInv, Sound
  <2> QED BY <2>1, <2>2
<1>11. \A d \in Callers : call'[d] # NoCall => call'[d].t <= now'
  BY <1>5 DEF RateInv, TypeOK
<1>12. ASSUME used' # 0
       PROVE  /\ Watched \in DOMAIN buckets'
              /\ Cost <= Burst
              /\ Balanced(buckets'[Watched], from', used')
  <2>1. Watched \notin gone
    BY <1>3, <1>12
  <2>2. CASE key = Watched
    <3>1. used' = IF Admits(f) /\ t >= from THEN used + 1 ELSE used
      BY <1>3, <2>1, <2>2
    <3>2. Balanced(b, from, used)
      <4>1. CASE used = 0
        BY <4>1 DEF Balanced
      <4>2. CASE used # 0
        BY <4>2, <2>2, <1>b DEF RateInv
      <4> QED BY <4>1, <4>2
    <3>3. Balanced(s, from, used')
      BY <3>1, <3>2, <1>1, <1>2, <1>t, BooksAfterAllow DEF s, f
    <3>4. Cost <= Burst
      <4>1. CASE used = 0
        BY <4>1, <3>1, <1>6, <1>12
      <4>2. CASE used # 0
        BY <4>2 DEF RateInv
      <4> QED BY <4>1, <4>2
    <3> QED BY <3>3, <3>4, <2>2, <1>5, <1>7
  <2>3. CASE key # Watched
    <3>1. used' = used
      BY <1>3, <2>1, <2>3
    <3>2. Watched \in DOMAIN buckets /\ Cost <= Burst
          /\ Balanced(buckets[Watched], from, used)
      BY <3>1, <1>12 DEF RateInv
    <3>3. Watched \in DOMAIN buckets' /\ buckets'[Watched] = buckets[Watched]
      BY <3>2, <2>1, <2>3, <1>7
    <3> QED BY <3>1, <3>2, <3>3, <1>5
  <2> QED BY <2>2, <2>3
<1> QED BY <1>5, <1>9, <1>10, <1>11, <1>12, <1>t DEF RateInv

\* Every step keeps the inductive invariant.
LEMMA RateStep == RateInv /\ [Next]_vars => RateInv'
<1> SUFFICES ASSUME RateInv, [Next]_vars PROVE RateInv'
  OBVIOUS
<1>t. /\ now \in Nat /\ from \in Nat /\ used \in Nat /\ from <= now
      /\ IsBuckets(buckets)
      /\ call \in [Callers -> Call \cup {NoCall}]
      /\ \A c \in Callers : call[c] # NoCall => call[c].t \in Nat /\ call[c].t <= now
  BY DEF RateInv, TypeOK, Call
<1>1. ASSUME NEW c \in Callers, AllowBegin(c) PROVE RateInv'
  <2>1. PICK key \in Keys : call' = [call EXCEPT ![c] = [key |-> key, t |-> now]]
    BY <1>1 DEF AllowBegin
  <2>2. [key |-> key, t |-> now] \in Call
    BY <1>t DEF Call
  <2>3. /\ call' \in [Callers -> Call \cup {NoCall}]
        /\ \A d \in Callers : call'[d] # NoCall => call'[d].t <= now
    BY <1>t, <2>1, <2>2
  <2>4. UNCHANGED <<now, buckets, gc, stopped, from, used, heard>>
    BY <1>1 DEF AllowBegin
  <2> QED BY <2>3, <2>4 DEF RateInv, TypeOK, Sound
<1>2. ASSUME NEW c \in Callers, AllowCommit(c) PROVE RateInv'
  BY <1>2, AllowStep
<1>3. CASE GcBegin
  <2>1. gc' \in [cutoff : Int]
    BY <1>3, <1>t, CapAssumption DEF GcBegin
  <2> QED BY <1>3, <2>1 DEF GcBegin, RateInv, TypeOK, Sound
<1>4. CASE GcCommit
  <2> DEFINE gone == Collectable(buckets, gc.cutoff)
  <2>1. /\ buckets' = Without(buckets, gone) /\ heard' = Without(heard, gone)
        /\ gc' = NoCall
        /\ UNCHANGED <<now, call, stopped, from, used>>
    BY <1>4 DEF GcCommit
  <2>2. \A k \in gone : k \in DOMAIN buckets /\ buckets[k].tokens >= Burst
    BY DEF Collectable
  <2> HIDE DEF gone
  <2>3. /\ IsBuckets(buckets')
        /\ DOMAIN buckets' = DOMAIN buckets \ gone
        /\ \A k \in DOMAIN buckets' : buckets'[k] = buckets[k]
    BY <2>1, <1>t DEF Without, IsBuckets
  <2>4. \A k \in DOMAIN buckets' : Sound(buckets'[k], now')
    BY <2>1, <2>3 DEF RateInv, Sound
  <2>5. used # 0 => Watched \notin gone
    <3> SUFFICES ASSUME used # 0, Watched \in gone PROVE FALSE
      OBVIOUS
    <3>1. buckets[Watched].tokens >= Burst /\ buckets[Watched].tokens \in Nat
      BY <2>2, <1>t DEF IsBuckets, Bucket
    <3>2. Cost <= Burst /\ Sound(buckets[Watched], now)
      BY <2>2 DEF RateInv
    <3> QED BY <3>1, <3>2, BucketAssumption DEF Sound
  <2>6. DOMAIN heard' = DOMAIN buckets' /\ heard' \in [DOMAIN heard' -> Nat]
    BY <2>1, <2>3 DEF RateInv, TypeOK, Without
  <2> QED BY <2>1, <2>3, <2>4, <2>5, <2>6 DEF RateInv, TypeOK
<1>5. CASE Close
  BY <1>5 DEF Close, RateInv, TypeOK, Sound
<1>6. CASE Tick
  <2>1. now' = now + 1 /\ UNCHANGED <<buckets, call, gc, stopped, from, used, heard>>
    BY <1>6 DEF Tick
  <2>2. \A k \in DOMAIN buckets : buckets[k].last \in Nat
    BY <1>t DEF IsBuckets, Bucket
  <2>3. \A k \in DOMAIN buckets' : Sound(buckets'[k], now')
    BY <2>1, <2>2, <1>t DEF RateInv, Sound
  <2> QED BY <2>1, <2>3, <1>t DEF RateInv, TypeOK
<1>7. CASE OpenWindow
  BY <1>7, <1>t DEF OpenWindow, RateInv, TypeOK, Sound
<1>8. CASE UNCHANGED vars
  BY <1>8 DEF vars, RateInv, TypeOK, Sound
<1> QED BY <1>1, <1>2, <1>3, <1>4, <1>5, <1>6, <1>7, <1>8 DEF Next

\* The inductive invariant bounds what the watched client is admitted.
LEMMA RateFollows == RateInv => RateBound
<1> SUFFICES ASSUME RateInv PROVE RateBound
  OBVIOUS
<1>t. now \in Nat /\ from \in Nat /\ used \in Nat /\ from <= now /\ IsBuckets(buckets)
  BY DEF RateInv, TypeOK
<1>1. CASE used = 0
  <2>1. used * Cost = 0 /\ Rate * (now - from) \in Nat /\ Burst \in Nat
    BY <1>1, <1>t, BucketAssumption
  <2> QED BY <2>1 DEF RateBound
<1>2. CASE used # 0
  <2>1. /\ Watched \in DOMAIN buckets
        /\ Balanced(buckets[Watched], from, used)
        /\ Sound(buckets[Watched], now)
    BY <1>2 DEF RateInv
  <2>2. buckets[Watched] \in Bucket /\ buckets[Watched].last <= now
    BY <2>1, <1>t DEF IsBuckets, Sound
  <2> QED BY <2>1, <2>2, <1>t, BooksBound DEF RateBound
<1> QED BY <1>1, <1>2

\* A table that was within the cap stays within it.
LEMMA CapStep == TypeOK /\ KeysBounded /\ [Next]_vars => KeysBounded'
<1> SUFFICES ASSUME TypeOK, KeysBounded, [Next]_vars, MaxKeys > 0
             PROVE  Cardinality(DOMAIN buckets') <= MaxKeys
  BY DEF KeysBounded
<1>t. IsBuckets(buckets)
  BY DEF TypeOK
<1>f. /\ IsFiniteSet(DOMAIN buckets) /\ Cardinality(DOMAIN buckets) \in Nat
      /\ MaxKeys \in Nat /\ Cardinality(DOMAIN buckets) <= MaxKeys
  BY <1>t, KeysAssumption, CapAssumption, FS_Subset, FS_CardinalityType
  DEF IsBuckets, KeysBounded
<1>s. ASSUME DOMAIN buckets' \subseteq DOMAIN buckets
      PROVE  Cardinality(DOMAIN buckets') <= MaxKeys
  <2>1. /\ Cardinality(DOMAIN buckets') <= Cardinality(DOMAIN buckets)
        /\ Cardinality(DOMAIN buckets') \in Nat
    BY <1>s, <1>f, FS_Subset, FS_CardinalityType
  <2> QED BY <2>1, <1>f
<1>1. ASSUME NEW c \in Callers, AllowCommit(c)
      PROVE  Cardinality(DOMAIN buckets') <= MaxKeys
  <2> DEFINE key == call[c].key
  <2>1. PICK gone \in Evictions(buckets, key) :
            \E s : buckets' = Put(Without(buckets, gone), key, s)
    BY <1>1 DEF AllowCommit
  <2> HIDE DEF key
  <2>2. DOMAIN buckets' = (DOMAIN buckets \ gone) \cup {key}
    BY <2>1 DEF Put, Without
  <2>3. CASE key \in DOMAIN buckets
    BY <2>2, <2>3, <1>s
  <2>4. CASE key \notin DOMAIN buckets /\ ~IsFull(buckets)
    <3>1. gone = {}
      BY <2>1, <2>4 DEF Evictions
    <3>2. Cardinality(DOMAIN buckets') = Cardinality(DOMAIN buckets) + 1
      BY <3>1, <2>2, <2>4, <1>f, FS_AddElement
    <3>3. Cardinality(DOMAIN buckets) < MaxKeys
      BY <2>4, <1>f DEF IsFull
    <3> QED BY <3>2, <3>3, <1>f
  <2>5. CASE key \notin DOMAIN buckets /\ IsFull(buckets)
    <3>1. PICK v \in DOMAIN buckets : gone = {v}
      BY <2>1, <2>5 DEF Evictions, Victims
    <3>2. /\ IsFiniteSet(DOMAIN buckets \ {v})
          /\ Cardinality(DOMAIN buckets \ {v}) = Cardinality(DOMAIN buckets) - 1
      BY <3>1, <1>f, FS_RemoveElement
    <3>3. Cardinality(DOMAIN buckets') = Cardinality(DOMAIN buckets \ {v}) + 1
      BY <3>1, <3>2, <2>2, <2>5, FS_AddElement
    <3> QED BY <3>2, <3>3, <1>f
  <2> QED BY <2>3, <2>4, <2>5
<1>2. CASE GcCommit
  BY <1>2, <1>s DEF GcCommit, Without
<1>3. ASSUME \/ \E c \in Callers : AllowBegin(c)
             \/ GcBegin \/ Close \/ Tick \/ OpenWindow \/ UNCHANGED vars
      PROVE  DOMAIN buckets' \subseteq DOMAIN buckets
  BY <1>3 DEF AllowBegin, GcBegin, Close, Tick, OpenWindow, vars
<1> QED BY <1>s, <1>1, <1>2, <1>3 DEF Next

\* For any rate, burst, cap and number of clients and callers: no window
\* admits a client more than burst + rps * length times while it keeps its
\* bucket, and the table never outgrows maxKeys.
THEOREM RateLimited == Spec => [](TypeOK /\ RateBound /\ KeysBounded)
<1>1. Init => RateInv
  <2> SUFFICES ASSUME Init PROVE RateInv
    OBVIOUS
  <2>1. DOMAIN buckets = {} /\ IsBuckets(buckets)
    BY DEF Init, IsBuckets
  <2>2. call \in [Callers -> Call \cup {NoCall}] /\ \A c \in Callers : call[c] = NoCall
    BY DEF Init
  <2>3. /\ now = 1 /\ from = 1 /\ used = 0 /\ gc = NoCall /\ stopped \in BOOLEAN
        /\ DOMAIN heard = {} /\ heard \in [DOMAIN heard -> Nat]
    BY DEF Init
  <2>4. TypeOK
    BY <2>1, <2>2, <2>3 DEF TypeOK
  <2> QED BY <2>1, <2>2, <2>3, <2>4 DEF RateInv
<1>2. Init => KeysBounded
  BY CapAssumption, FS_EmptySet DEF Init, KeysBounded
<1>3. RateInv => TypeOK
  BY DEF RateInv
<1> QED BY <1>1, <1>2, <1>3, RateStep, RateFollows, CapStep, PTL DEF Spec

\* A bucket's last is the latest reading its key was heard with, whatever the
\* order in which the readings came and whether or not they were admitted.
LastIsHeard == \A k \in DOMAIN buckets : buckets[k].last = heard[k]

\* Every step keeps the two in agreement.
LEMMA LastIsHeardStep == TypeOK /\ LastIsHeard /\ [Next]_vars => LastIsHeard'
<1> SUFFICES ASSUME TypeOK, LastIsHeard, [Next]_vars PROVE LastIsHeard'
  OBVIOUS
<1>t. /\ IsBuckets(buckets) /\ DOMAIN heard = DOMAIN buckets
      /\ heard \in [DOMAIN heard -> Nat]
  BY DEF TypeOK
<1>1. ASSUME NEW c \in Callers, AllowCommit(c) PROVE LastIsHeard'
  <2> DEFINE key == call[c].key
             t == call[c].t
             b == BucketFor(buckets, key, t)
             f == Refill(b, t)
             h == IF key \in DOMAIN heard /\ heard[key] > t THEN heard[key] ELSE t
  <2>1. key \in Keys /\ t \in Nat
    BY <1>1 DEF TypeOK, AllowCommit, Call
  <2>2. PICK gone \in Evictions(buckets, key) :
            /\ buckets' = Put(Without(buckets, gone), key, Spend(f))
            /\ heard' = Put(Without(heard, gone), key, h)
    BY <1>1 DEF AllowCommit
  <2>3. b \in Bucket /\ b.last = IF key \in DOMAIN heard THEN heard[key] ELSE t
    <3>1. CASE key \in DOMAIN buckets
      BY <3>1, <1>t DEF BucketFor, IsBuckets, LastIsHeard
    <3>2. CASE key \notin DOMAIN buckets
      BY <3>2, <1>t, <2>1, BucketAssumption DEF BucketFor, Bucket
    <3> QED BY <3>1, <3>2
  <2> HIDE DEF b, key, t
  <2>4. f \in Bucket /\ f.last = IF t > b.last THEN t ELSE b.last
    <3> DEFINE credit == (t - b.last) * Rate
    <3>1. b.tokens \in Nat /\ b.last \in Nat /\ Burst \in Nat /\ Rate \in Nat
      BY <2>3, BucketAssumption DEF Bucket
    <3>2. t > b.last => credit \in Nat
      BY <2>1, <3>1
    <3> HIDE DEF credit
    <3>3. f = IF t > b.last
              THEN [tokens |-> IF b.tokens + credit > Burst THEN Burst ELSE b.tokens + credit,
                    last |-> t]
              ELSE b
      BY DEF Refill, credit
    <3> HIDE DEF f
    <3> QED BY <2>1, <2>3, <3>1, <3>2, <3>3 DEF Bucket
  <2>5. Spend(f).last = f.last
    BY <2>4, SpendCost
  <2>6. Spend(f).last = h
    BY <2>1, <2>3, <2>4, <2>5, <1>t
  <2> HIDE DEF f, h
  <2> QED BY <2>2, <2>6, <1>t DEF LastIsHeard, Put, Without
<1>2. CASE GcCommit
  BY <1>2, <1>t DEF GcCommit, LastIsHeard, Without
<1>3. ASSUME \/ \E c \in Callers : AllowBegin(c)
             \/ GcBegin \/ Close \/ Tick \/ OpenWindow \/ UNCHANGED vars
      PROVE  LastIsHeard'
  BY <1>3 DEF AllowBegin, GcBegin, Close, Tick, OpenWindow, vars, LastIsHeard
<1> QED BY <1>1, <1>2, <1>3 DEF Next

\* For any number of clients and callers, and however late readings are
\* applied: whoever is evicted to make room had been silent for at least as
\* long as everybody who stays.
THEOREM FloodSparesActive == Spec => ActiveKept
<1> DEFINE A == DOMAIN buckets' \ DOMAIN buckets # {} =>
         \A v \in DOMAIN buckets \ DOMAIN buckets' :
            \A j \in DOMAIN buckets \cap DOMAIN buckets' : heard[v] <= heard[j]
<1>1. ASSUME LastIsHeard, NEW c \in Callers, AllowCommit(c) PROVE A
  <2> DEFINE key == call[c].key
  <2>1. PICK gone \in Evictions(buckets, key) :
            \E s : buckets' = Put(Without(buckets, gone), key, s)
    BY <1>1 DEF AllowCommit
  <2> HIDE DEF key
  <2>2. DOMAIN buckets' = (DOMAIN buckets \ gone) \cup {key}
    BY <2>1 DEF Put, Without
  <2>3. gone = {} \/ \E v \in Victims(buckets) : gone = {v}
    BY <2>1 DEF Evictions
  <2> QED BY <1>1, <2>2, <2>3 DEF Victims, LastIsHeard
<1>2. ASSUME GcCommit PROVE A
  BY <1>2 DEF GcCommit, Without
<1>3. ASSUME \/ \E c \in Callers : AllowBegin(c)
             \/ GcBegin \/ Close \/ Tick \/ OpenWindow \/ UNCHANGED vars
      PROVE  A
  BY <1>3 DEF AllowBegin, GcBegin, Close, Tick, OpenWindow, vars
<1>4. LastIsHeard /\ [Next]_vars => [A]_vars
  BY <1>1, <1>2, <1>3 DEF Next
<1>5. Init => LastIsHeard
  BY DEF Init, LastIsHeard
<1> QED BY <1>4, <1>5, LastIsHeardStep, RateLimited, PTL DEF Spec, ActiveKept

============================================================================
