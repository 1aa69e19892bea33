--------------------------- MODULE GlobalLimiter ---------------------------
(***************************************************************************)
(* internal/ratelimit, Global: one token bucket for all traffic.  Allow    *)
(* reads the clock before it takes the mutex; Remaining, which decides     *)
(* whether the adaptive challenge engages, reads it inside, and refills    *)
(* the bucket as well.                                                     *)
(*                                                                         *)
(* Every reload makes a new Global, full, and requests under way go on     *)
(* with the one they captured.  The module therefore has all the limiters  *)
(* of one process, numbered in the order in which they were made, with     *)
(* the same rate and burst.                                                *)
(***************************************************************************)
EXTENDS TokenBucket, Sequences

CONSTANTS
    Callers,    \* goroutines that call Allow
    Idle,       \* a caller that is not inside Allow
    Horizon,    \* bound: no request arrives at or after this time
    MaxTime     \* bound: the clock stops here

ASSUME TimeAssumption == Horizon \in Nat /\ MaxTime \in Nat

VARIABLES
    now,      \* the clock
    buckets,  \* buckets[l]: Global.b of the l-th limiter made
    call,     \* call[c]: the limiter c is inside and its clock reading, or Idle
    from,     \* history: start of the window in which admissions are counted
    used      \* history: used[l]: requests read in the window that l admitted

vars == <<now, buckets, call, from, used>>

Call == [lim : Nat, t : Nat]
FullBucket == [tokens |-> Burst, last |-> now]

Init ==
    /\ now = 1
    /\ buckets = <<FullBucket>>
    /\ call = [c \in Callers |-> Idle]
    /\ from = 1
    /\ used = <<0>>

\* NewGlobal: a full bucket.
NewGlobal ==
    /\ buckets' = Append(buckets, FullBucket)
    /\ used' = Append(used, 0)
    /\ UNCHANGED <<now, call, from>>

AllowBegin(c, l) ==
    /\ call[c] = Idle
    /\ now < Horizon
    /\ call' = [call EXCEPT ![c] = [lim |-> l, t |-> now]]
    /\ UNCHANGED <<now, buckets, from, used>>

AllowCommit(c) ==
    /\ call[c] # Idle
    /\ LET l == call[c].lim
           t == call[c].t
           filled == Refill(buckets[l], t)
       IN  /\ buckets' = [buckets EXCEPT ![l] = Spend(filled)]
           /\ used' = IF Admits(filled) /\ t >= from THEN [used EXCEPT ![l] = @ + 1] ELSE used
    /\ call' = [call EXCEPT ![c] = Idle]
    /\ UNCHANGED <<now, from>>

Remaining(l) ==
    /\ buckets' = [buckets EXCEPT ![l] = Refill(@, now)]
    /\ UNCHANGED <<now, call, from, used>>

Tick ==
    /\ now < MaxTime
    /\ now' = now + 1
    /\ UNCHANGED <<buckets, call, from, used>>

\* The observer starts to count in a new window.
OpenWindow ==
    /\ from' = now
    /\ used' = [l \in DOMAIN used |-> 0]
    /\ UNCHANGED <<now, buckets, call>>

Next ==
    \/ \E c \in Callers : AllowCommit(c) \/ \E l \in DOMAIN buckets : AllowBegin(c, l)
    \/ \E l \in DOMAIN buckets : Remaining(l)
    \/ NewGlobal \/ Tick \/ OpenWindow

Spec == Init /\ [][Next]_vars

----------------------------------------------------------------------------
(* Properties. *)

\* Every variable has its type.
TypeOK ==
    /\ now \in Nat
    /\ buckets \in Seq(Bucket)
    /\ call \in [Callers -> Call \cup {Idle}]
    /\ \A c \in Callers : call[c] # Idle => call[c].lim \in DOMAIN buckets
    /\ from \in Nat
    /\ used \in Seq(Nat) /\ Len(used) = Len(buckets)

\* The ceiling of one Global: over any window of time, all clients together
\* are admitted by it at most burst + rps * length times, whatever order their
\* clock readings reach the bucket in, however often Remaining refills it and
\* however many of them still hold it after a reload has replaced it.
CeilingHolds ==
    \A l \in DOMAIN buckets : used[l] * Cost <= Burst + Rate * (now - from)

\* Remaining is a fraction of the capacity: the adaptive challenge never sees
\* more than 1, so it cannot be held off by a burst saved up while idle.
RemainingIsFraction ==
    \A l \in DOMAIN buckets : buckets[l].tokens <= Burst /\ buckets[l].last <= now

============================================================================
