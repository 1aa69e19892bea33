------------------------- MODULE TokenBucketProofs -------------------------
(* What refill and the spending of a token do to a bucket, for every rate, *)
(* burst and cost.                                                         *)
EXTENDS TokenBucket, TLAPS

\* Distribution, for the provers: time credited in two parts.
LEMMA CreditSplits ==
    ASSUME NEW from \in Int, NEW mid \in Int, NEW t \in Int
    PROVE  Rate * (t - from) = Rate * (mid - from) + (t - mid) * Rate
BY BucketAssumption

\* More time, more credit.
LEMMA CreditGrows ==
    ASSUME NEW x \in Nat, NEW y \in Nat, x <= y
    PROVE  Rate * x \in Nat /\ Rate * y \in Nat /\ Rate * x <= Rate * y
<1>1. PICK d \in Nat : y = x + d
  <2>1. y - x \in Nat /\ y = x + (y - x)
    OBVIOUS
  <2> QED BY <2>1
<1>2. Rate * y = Rate * x + Rate * d
  BY <1>1, BucketAssumption
<1>3. Rate * x \in Nat /\ Rate * y \in Nat /\ Rate * d \in Nat
  BY <1>1, BucketAssumption
<1> QED BY <1>2, <1>3

\* refill never moves last back, never credits more than the time since last
\* is worth and never fills past the burst.
LEMMA RefillCredit ==
    ASSUME NEW b \in Bucket, NEW t \in Nat, b.tokens <= Burst
    PROVE  /\ Refill(b, t) \in Bucket
           /\ Refill(b, t).tokens <= Burst
           /\ Refill(b, t).tokens >= b.tokens
           /\ Refill(b, t).last = IF t > b.last THEN t ELSE b.last
           /\ t > b.last => Refill(b, t).tokens <= b.tokens + (t - b.last) * Rate
           /\ ~(t > b.last) => Refill(b, t) = b
<1> DEFINE credit == (t - b.last) * Rate
<1>1. b.tokens \in Nat /\ b.last \in Nat /\ Burst \in Nat /\ Rate \in Nat
  BY BucketAssumption DEF Bucket
<1>2. CASE t > b.last
  <2>1. credit \in Nat
    BY <1>1, <1>2
  <2>2. Refill(b, t) = [tokens |-> IF b.tokens + credit > Burst THEN Burst
                                   ELSE b.tokens + credit,
                        last |-> t]
    BY <1>2 DEF Refill
  <2> HIDE DEF credit
  <2>3. /\ Refill(b, t) \in Bucket
        /\ Refill(b, t).tokens <= Burst
        /\ Refill(b, t).tokens >= b.tokens
        /\ Refill(b, t).last = t
        /\ Refill(b, t).tokens <= b.tokens + credit
    BY <1>1, <2>1, <2>2 DEF Bucket
  <2> QED BY <1>2, <2>3 DEF credit
<1>3. CASE ~(t > b.last)
  BY <1>1, <1>3 DEF Refill
<1> QED BY <1>2, <1>3

\* Allow takes exactly one request's worth, or nothing.
LEMMA SpendCost ==
    ASSUME NEW b \in Bucket
    PROVE  /\ Spend(b) \in Bucket
           /\ Spend(b).last = b.last
           /\ Admits(b) => Spend(b).tokens = b.tokens - Cost
           /\ ~Admits(b) => Spend(b) = b /\ b.tokens < Cost
           /\ Spend(b).tokens <= b.tokens
BY BucketAssumption DEF Spend, Admits, Bucket

----------------------------------------------------------------------------
(* Admissions counted in a window that starts at from. *)

\* What has been admitted in the window was paid for out of the burst and of
\* the time the bucket has credited so far.  last is the key to it: time is
\* credited once, because last never moves back.
Balanced(b, from, used) ==
    \/ used = 0
    \/ b.last >= from /\ used * Cost + b.tokens <= Burst + Rate * (b.last - from)

\* A refill keeps the books balanced.
LEMMA BooksAfterRefill ==
    ASSUME NEW b \in Bucket, b.tokens <= Burst, NEW t \in Nat,
           NEW from \in Nat, NEW used \in Nat, Balanced(b, from, used)
    PROVE  Balanced(Refill(b, t), from, used)
<1> DEFINE f == Refill(b, t)
<1>1. b.tokens \in Nat /\ b.last \in Nat /\ Burst \in Nat /\ Cost \in Nat /\ Rate \in Nat
  BY BucketAssumption DEF Bucket
<1>2. /\ f \in Bucket
      /\ f.last = IF t > b.last THEN t ELSE b.last
      /\ t > b.last => f.tokens <= b.tokens + (t - b.last) * Rate
      /\ ~(t > b.last) => f = b
  BY RefillCredit
<1>3. f.tokens \in Nat /\ f.last \in Nat
  BY <1>2 DEF Bucket
<1> HIDE DEF f
<1>4. CASE ~(t > b.last)
  BY <1>2, <1>4 DEF f
<1>5. CASE used = 0
  BY <1>5 DEF Balanced
<1>6. CASE used # 0 /\ t > b.last
  <2> DEFINE spent == used * Cost
             old == Rate * (b.last - from)
             new == Rate * (t - from)
             credit == (t - b.last) * Rate
  <2>1. b.last >= from /\ spent + b.tokens <= Burst + old
    BY <1>6 DEF Balanced
  <2>2. new = old + credit
    BY <1>1, CreditSplits
  <2>3. spent \in Nat /\ old \in Int /\ credit \in Int /\ new \in Int
    BY <1>1
  <2>4. f.last = t /\ f.tokens <= b.tokens + credit /\ f.last >= from
    BY <1>1, <1>2, <1>6, <2>1
  <2> HIDE DEF spent, old, new, credit
  <2>5. spent + f.tokens <= Burst + new
    BY <2>1, <2>2, <2>3, <2>4, <1>1, <1>3
  <2> QED BY <2>4, <2>5 DEF Balanced, spent, new, f
<1> QED BY <1>4, <1>5, <1>6

\* An Allow, counted when its clock reading lies in the window, keeps the
\* books balanced.
LEMMA BooksAfterAllow ==
    ASSUME NEW b \in Bucket, b.tokens <= Burst, NEW t \in Nat,
           NEW from \in Nat, NEW used \in Nat, Balanced(b, from, used),
           NEW used2, used2 = IF Admits(Refill(b, t)) /\ t >= from THEN used + 1 ELSE used
    PROVE  Balanced(Spend(Refill(b, t)), from, used2)
<1> DEFINE f == Refill(b, t)
           s == Spend(f)
<1>1. Burst \in Nat /\ Cost \in Nat /\ Rate \in Nat /\ b.last \in Nat
  BY BucketAssumption DEF Bucket
<1>2. f \in Bucket /\ f.tokens <= Burst /\ f.last >= t
  <2>1. /\ f \in Bucket /\ f.tokens <= Burst
        /\ f.last = IF t > b.last THEN t ELSE b.last
    BY RefillCredit
  <2> QED BY <1>1, <2>1
<1>3. Balanced(f, from, used)
  BY BooksAfterRefill
<1>4. used2 = IF Admits(f) /\ t >= from THEN used + 1 ELSE used
  OBVIOUS
<1> HIDE DEF f
<1>5. /\ s \in Bucket
      /\ s.last = f.last
      /\ Admits(f) => s.tokens = f.tokens - Cost
      /\ s.tokens <= f.tokens
  BY <1>2, SpendCost
<1> HIDE DEF s
<1>6. /\ f.tokens \in Nat /\ f.last \in Nat /\ s.tokens \in Nat
  BY <1>2, <1>5 DEF Bucket
<1> DEFINE credit == Rate * (f.last - from)
<1>7. credit \in Int
  BY <1>1, <1>6
<1>8. CASE ~(Admits(f) /\ t >= from)
  <2>1. used2 = used
    BY <1>4, <1>8
  <2>2. CASE used = 0
    BY <2>1, <2>2 DEF Balanced
  <2>3. CASE used # 0
    <3> DEFINE spent == used * Cost
    <3>1. f.last >= from /\ spent + f.tokens <= Burst + credit /\ spent \in Nat
      BY <1>1, <1>3, <2>3 DEF Balanced
    <3> HIDE DEF spent, credit
    <3>2. spent + s.tokens <= Burst + credit
      BY <3>1, <1>1, <1>5, <1>6, <1>7
    <3> QED BY <2>1, <3>1, <3>2, <1>5 DEF Balanced, spent, credit, s, f
  <2> QED BY <2>2, <2>3
<1>9. CASE Admits(f) /\ t >= from
  <2> DEFINE spent == used * Cost
             spent2 == used2 * Cost
  <2>1. used2 = used + 1 /\ f.last >= from /\ s.tokens = f.tokens - Cost
    BY <1>2, <1>4, <1>5, <1>6, <1>9
  <2>2. spent2 = spent + Cost /\ spent \in Nat
    BY <1>1, <2>1
  <2>3. spent + f.tokens <= Burst + credit
    <3>1. CASE used = 0
      <4>1. spent = 0 /\ credit \in Nat
        BY <3>1, <2>1, <1>1, <1>6
      <4> HIDE DEF spent, credit
      <4> QED BY <4>1, <1>1, <1>2, <1>6
    <3>2. CASE used # 0
      BY <3>2, <1>3 DEF Balanced
    <3> QED BY <3>1, <3>2
  <2> HIDE DEF spent, spent2, credit
  <2>4. spent2 + s.tokens <= Burst + credit
    BY <2>1, <2>2, <2>3, <1>1, <1>6, <1>7
  <2> QED BY <2>1, <2>4, <1>5 DEF Balanced, spent2, credit, s, f
<1> QED BY <1>8, <1>9

\* Balanced books bound what a window admits.
LEMMA BooksBound ==
    ASSUME NEW b \in Bucket, NEW now \in Nat, NEW from \in Nat, NEW used \in Nat,
           from <= now, b.last <= now, Balanced(b, from, used)
    PROVE  used * Cost <= Burst + Rate * (now - from)
<1>t. /\ b.tokens \in Nat /\ b.last \in Nat
      /\ Burst \in Nat /\ Rate \in Nat /\ Cost \in Nat
  BY BucketAssumption DEF Bucket
<1>1. CASE used = 0
  <2>1. used * Cost = 0 /\ Rate * (now - from) \in Nat
    BY <1>1, <1>t
  <2> QED BY <2>1, <1>t
<1>2. CASE used # 0
  <2>1. b.last >= from /\ used * Cost + b.tokens <= Burst + Rate * (b.last - from)
    BY <1>2 DEF Balanced
  <2>2. /\ Rate * (b.last - from) \in Nat /\ Rate * (now - from) \in Nat
        /\ Rate * (b.last - from) <= Rate * (now - from)
    BY <2>1, <1>t, CreditGrows
  <2>3. used * Cost \in Nat
    BY <1>t
  <2> QED BY <2>1, <2>2, <2>3, <1>t
<1> QED BY <1>1, <1>2

============================================================================
