---------------------------- MODULE TokenBucket ----------------------------
(***************************************************************************)
(* internal/ratelimit: the arithmetic of one token bucket, shared by the   *)
(* per-IP limiters and the global one.                                     *)
(*                                                                         *)
(* Tokens are float64 in the code.  Here they are counted in units such    *)
(* that a request costs Cost of them, a tick of the clock brings Rate of   *)
(* them and the bucket holds Burst of them: rps = Rate / Cost per tick, so *)
(* rates below and above one request per tick are both covered.            *)
(***************************************************************************)
EXTENDS Integers

CONSTANTS
    Rate,    \* rps, in units per tick
    Burst,   \* burst (the Global's cap), in units
    Cost     \* what one request consumes: the code's 1 token

ASSUME BucketAssumption == Rate \in Nat /\ Burst \in Nat /\ Cost \in Nat \ {0}

Bucket == [tokens : Nat, last : Nat]

\* MUTANT: last follows the clock reading even when it is an old one.
RefillRewinding(b, t) ==
    LET full == b.tokens + (IF t > b.last THEN (t - b.last) * Rate ELSE 0)
    IN  [tokens |-> IF full > Burst THEN Burst ELSE full, last |-> t]

\* refill: nothing for a reading of the clock that is not later than last.
Refill(b, t) ==
    IF t > b.last
    THEN LET full == b.tokens + (t - b.last) * Rate
         IN  [tokens |-> IF full > Burst THEN Burst ELSE full, last |-> t]
    ELSE b

\* The answer of Allow on a refilled bucket, and what it leaves in it.
Admits(b) == b.tokens >= Cost
Spend(b) == IF Admits(b) THEN [b EXCEPT !.tokens = @ - Cost] ELSE b

============================================================================
