---------------------------- MODULE PerIPLimiter ---------------------------
(***************************************************************************)
(* internal/ratelimit, PerIP: one token bucket per client key, a cap on    *)
(* the number of keys with LRU eviction, and a garbage collector.          *)
(*                                                                         *)
(* Allow and gc read the clock before they take the mutex, so each is a    *)
(* Begin and a Commit step, and readings are applied out of order.         *)
(***************************************************************************)
EXTENDS TokenBucket, FiniteSets

CONSTANTS
    Keys,       \* client addresses
    Callers,    \* goroutines that call Allow
    MaxKeys,    \* maxKeys; 0 means no cap
    Idle,       \* gc's idle time
    NoCall,     \* a caller that is not inside Allow
    Watched,    \* the key whose admissions are counted
    Horizon,    \* bound: no request arrives at or after this time
    MaxTime     \* bound: the clock stops here

ASSUME KeysAssumption == IsFiniteSet(Keys) /\ Watched \in Keys
ASSUME CapAssumption == MaxKeys \in Nat /\ Idle \in Nat
ASSUME TimeAssumption == Horizon \in Nat /\ MaxTime \in Nat

VARIABLES
    now,       \* the clock
    buckets,   \* PerIP.buckets: key -> bucket, a partial function
    call,      \* call[c]: the key and the clock reading c is inside Allow with
    gc,        \* the collector's cutoff, or NoCall when it sleeps
    stopped,   \* PerIP.stop is closed
    from,      \* history: start of the window in which admissions are counted
    used,      \* history: Watched requests read in the window and admitted
    heard      \* history: key -> latest reading of the requests, admitted or
               \* refused, that came since the key got its bucket

vars == <<now, buckets, call, gc, stopped, from, used, heard>>

Call == [key : Keys, t : Nat]
IsBuckets(f) == DOMAIN f \subseteq Keys /\ f \in [DOMAIN f -> Bucket]

Without(f, S) == [k \in DOMAIN f \ S |-> f[k]]
Put(f, key, b) == [k \in DOMAIN f \cup {key} |-> IF k = key THEN b ELSE f[k]]

\* evictLocked: a least recently used bucket; the map order breaks ties.
Victims(f) == {k \in DOMAIN f : \A j \in DOMAIN f : f[k].last <= f[j].last}

IsFull(f) == MaxKeys > 0 /\ Cardinality(DOMAIN f) >= MaxKeys

\* The keys Allow may drop before it adds a bucket for key.
Evictions(f, key) ==
    IF key \notin DOMAIN f /\ IsFull(f) THEN {{v} : v \in Victims(f)} ELSE {{}}

\* The bucket Allow works on: the key's own, or a new full one.
BucketFor(f, key, t) ==
    IF key \in DOMAIN f THEN f[key] ELSE [tokens |-> Burst, last |-> t]

----------------------------------------------------------------------------
Init ==
    /\ now = 1
    /\ buckets = [k \in {} |-> [tokens |-> 0, last |-> 0]]
    /\ call = [c \in Callers |-> NoCall]
    /\ gc = NoCall
    /\ stopped = FALSE
    /\ from = 1
    /\ used = 0
    /\ heard = [k \in {} |-> 0]

AllowBegin(c) ==
    /\ call[c] = NoCall
    /\ now < Horizon
    /\ \E key \in Keys : call' = [call EXCEPT ![c] = [key |-> key, t |-> now]]
    /\ UNCHANGED <<now, buckets, gc, stopped, from, used, heard>>

AllowCommit(c) ==
    /\ call[c] # NoCall
    /\ LET key == call[c].key
           t   == call[c].t
           b   == Refill(BucketFor(buckets, key, t), t)
           h   == IF key \in DOMAIN heard /\ heard[key] > t THEN heard[key] ELSE t
       IN  \E gone \in Evictions(buckets, key) :
             /\ buckets' = Put(Without(buckets, gone), key, Spend(b))
             /\ heard' = Put(Without(heard, gone), key, h)
             /\ used' = IF Watched \in gone THEN 0
                        ELSE IF key = Watched /\ Admits(b) /\ t >= from
                             THEN used + 1 ELSE used
    /\ call' = [call EXCEPT ![c] = NoCall]
    /\ UNCHANGED <<now, gc, stopped, from>>

GcBegin ==
    /\ ~stopped
    /\ gc = NoCall
    /\ gc' = [cutoff |-> now - Idle]
    /\ UNCHANGED <<now, buckets, call, stopped, from, used, heard>>

\* MUTANT: idle is enough.
CollectableIdle(f, cutoff) == {k \in DOMAIN f : f[k].last < cutoff}

\* Buckets that are idle and full as they stand: gc does not refill them.
Collectable(f, cutoff) == {k \in DOMAIN f : f[k].last < cutoff /\ f[k].tokens >= Burst}

GcCommit ==
    /\ gc # NoCall
    /\ buckets' = Without(buckets, Collectable(buckets, gc.cutoff))
    /\ heard' = Without(heard, Collectable(buckets, gc.cutoff))
    /\ gc' = NoCall
    /\ UNCHANGED <<now, call, stopped, from, used>>

\* Close stops the collector only: requests that still hold a retired policy
\* go on calling Allow.
Close ==
    /\ ~stopped
    /\ stopped' = TRUE
    /\ UNCHANGED <<now, buckets, call, gc, from, used, heard>>

Tick ==
    /\ now < MaxTime
    /\ now' = now + 1
    /\ UNCHANGED <<buckets, call, gc, stopped, from, used, heard>>

\* The observer starts to count in a new window.
OpenWindow ==
    /\ from' = now
    /\ used' = 0
    /\ UNCHANGED <<now, buckets, call, gc, stopped, heard>>

Next ==
    \/ \E c \in Callers : AllowBegin(c) \/ AllowCommit(c)
    \/ GcBegin \/ GcCommit \/ Close \/ Tick \/ OpenWindow

Spec == Init /\ [][Next]_vars

\* The clock runs and the collector's ticker keeps firing until Close.
FairSpec ==
    /\ Spec
    /\ WF_vars(Tick) /\ WF_vars(GcBegin) /\ WF_vars(GcCommit)
    /\ \A c \in Callers : WF_vars(AllowCommit(c))

----------------------------------------------------------------------------
(* Properties. *)

\* Every variable has its type.
TypeOK ==
    /\ now \in Nat
    /\ IsBuckets(buckets)
    /\ call \in [Callers -> Call \cup {NoCall}]
    /\ gc = NoCall \/ gc \in [cutoff : Int]
    /\ stopped \in BOOLEAN
    /\ from \in Nat
    /\ used \in Nat
    /\ DOMAIN heard = DOMAIN buckets /\ heard \in [DOMAIN heard -> Nat]

\* The limit PerIP exists for: in any window of time a client is admitted at
\* most burst + rps * length times, although clock readings are applied out of
\* order and the collector drops buckets - unless its bucket was evicted to
\* make room, which starts a new count.
RateBound == used * Cost <= Burst + Rate * (now - from)

\* A flood of distinct clients never makes Allow keep more than maxKeys buckets.
KeysBounded == MaxKeys > 0 => Cardinality(DOMAIN buckets) <= MaxKeys

\* A flood of new clients does not buy a client that goes on asking a fresh
\* burst: whoever loses a bucket to make room was last heard of no later than
\* anybody who keeps one - refused requests count, and so do requests that got
\* the mutex after later ones.
ActiveKept ==
    [][DOMAIN buckets' \ DOMAIN buckets # {} =>
         \A v \in DOMAIN buckets \ DOMAIN buckets' :
            \A j \in DOMAIN buckets \cap DOMAIN buckets' : heard[v] <= heard[j]]_vars

\* Package comment: "Per-IP buckets are garbage-collected when idle".  Once
\* no request arrives any more, the collector of a limiter in use empties the
\* table.
IdleReclaimed == <>[](DOMAIN buckets = {} \/ stopped)

============================================================================
