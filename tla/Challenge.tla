----------------------------- MODULE Challenge -----------------------------
(***************************************************************************)
(* internal/challenge and the challenge gate of Guard.Wrap, on top of the  *)
(* global limiter whose fullness decides when the adaptive mode challenges *)
(* and which a request meets behind the gate.                              *)
(*                                                                         *)
(* The callers are browsers: they fetch a page, solve the puzzle they are  *)
(* served, set the clearance cookie and reload; a client may also send     *)
(* other values under the signature it was given.  A signature is the      *)
(* tuple it covers, with the secret; the page's loop ends with a nonce     *)
(* good for the difficulty it was given.                                   *)
(*                                                                         *)
(* Guard.Reload builds a snapshot with a new, full limiter and the mode of *)
(* the config, stores difficulty and lifetime one after the other and then *)
(* swaps the snapshot in; Serve and verify load difficulty and lifetime    *)
(* one at a time.  Rate and burst are the same in all configs here.        *)
(* Dry-run is in Guard, the other parts of a reload in HotReload.          *)
(***************************************************************************)
EXTENDS GlobalLimiter

CONSTANTS
    Browsers,       \* the callers without a clearance; the others pass the gate
    Admins,         \* goroutines that reload the config or flip the mode
    Configs,        \* [mode, diff, ttl]: the challenge sections a config may carry
    Pressure,       \* pressure_threshold * burst, in units of tokens
    NonBrowser,     \* challenge_non_browser
    FixedSecret,    \* challenge.secret is set
    Second,         \* ticks in a second, the grain of ts and max-age
    MaxChanges      \* bound: reloads, mode flips, restarts and altered cookies

ASSUME ChallengeAssumption ==
    /\ Browsers \subseteq Callers
    /\ Configs \subseteq [mode : {"off", "adaptive", "always"}, diff : Nat, ttl : Nat]
    /\ Configs # {}
    /\ Pressure \in Nat /\ Second \in Nat \ {0}
    /\ NonBrowser \in BOOLEAN /\ FixedSecret \in BOOLEAN
    /\ MaxChanges \in Nat

VARIABLES
    difficulty,   \* Manager.difficulty
    ttl,          \* Manager.clearanceTTL
    secret,       \* Manager.secret, as a number
    snap,         \* Guard.snap: its limiter's number and its challenge mode
    ctl,          \* ctl[k]: how far k's reload or mode flip is, or Idle
    past,         \* history: difficulties that were in force, and until when
    page,         \* page[c]: how far c's request or puzzle is
    cookie,       \* cookie[c]: c's clearance cookie, or Idle
    changes       \* used-up part of the bound

manager == <<difficulty, ttl, secret, past>>
control == <<snap, ctl>>
limiter == <<now, buckets, call, from, used>>
all == <<limiter, manager, control, page, cookie, changes>>

NoPage == [at |-> "idle"]
\* strconv.FormatInt(Unix()) and int(Seconds()): whole seconds.
Whole(t) == (t \div Second) * Second

----------------------------------------------------------------------------
ChallengeInit ==
    /\ Init
    /\ \E cfg \in Configs :
          /\ difficulty = cfg.diff
          /\ ttl = cfg.ttl
          /\ snap = [lim |-> 1, mode |-> cfg.mode]
    /\ secret = 0
    /\ ctl = [k \in Admins |-> Idle]
    /\ past = {}
    /\ page = [c \in Browsers |-> NoPage]
    /\ cookie = [c \in Browsers |-> Idle]
    /\ changes = 0

\* What a browser sends: a cookie past its max-age is gone.
Sent(c) == IF cookie[c] # Idle /\ now < cookie[c].until THEN cookie[c] ELSE Idle

\* MUTANT: the difficulty is not under the signature.
SignLoose(token) == [key |-> secret, ts |-> token.ts, diff |-> 0]

Sign(token) == [key |-> secret, ts |-> token.ts, diff |-> token.diff]

\* MUTANT: a clearance has to meet the difficulty of the day.
VerifyAnew(ck) ==
    ck.sig = Sign(ck) /\ now - ck.ts <= ttl /\ ck.work >= difficulty

\* Manager.verify: signature, age, proof of work.
Verify(ck) ==
    ck.sig = Sign(ck) /\ now - ck.ts <= ttl /\ ck.work >= ck.diff

HasClearance(ck) == ck # Idle /\ Verify(ck)

\* A request captures the snapshot ...
Arrive(c) ==
    /\ page[c].at = "idle" /\ call[c] = Idle
    /\ page' = [page EXCEPT ![c] = [at |-> "come", snap |-> snap]]
    /\ UNCHANGED <<limiter, manager, control, cookie, changes>>

\* ... and comes to the gate with it.  A client that is not a browser may send
\* its cookie past the max-age.
Check(c) ==
    /\ page[c].at = "come"
    /\ \E ck \in {Sent(c), cookie[c]} :
          page' = [page EXCEPT ![c].at = IF HasClearance(ck) THEN "allow" ELSE "gate"]
    /\ UNCHANGED <<limiter, manager, control, cookie, changes>>

\* Without a clearance: forced by a rule, or by the mode, for page requests
\* (and others, if configured).  Only the adaptive mode asks the limiter.
Wanted(kind, m, left) ==
    \/ kind = "forced"
    \/ /\ m = "always" \/ (m = "adaptive" /\ left < Pressure)
       /\ kind = "html" \/ NonBrowser

Gate(c) ==
    /\ page[c].at = "gate"
    /\ LET s == page[c].snap
       IN  /\ IF s.mode = "adaptive" THEN Remaining(s.lim) ELSE UNCHANGED limiter
           /\ \E kind \in {"forced", "html", "other"} :
                 page' = [page EXCEPT ![c].at =
                             IF Wanted(kind, s.mode, buckets'[s.lim].tokens)
                             THEN "stamp" ELSE "allow"]
    /\ UNCHANGED <<manager, control, cookie, changes>>

\* Serve: first the time, ...
Stamp(c) ==
    /\ page[c].at = "stamp"
    /\ page' = [page EXCEPT ![c] = [at |-> "sign", ts |-> Whole(now), born |-> now]]
    /\ UNCHANGED <<limiter, manager, control, cookie, changes>>

\* ... then the difficulty, ...
SignPuzzle(c) ==
    /\ page[c].at = "sign"
    /\ LET token == [ts |-> page[c].ts, diff |-> difficulty]
       IN  page' = [page EXCEPT ![c] = [at |-> "render", ts |-> token.ts, diff |-> token.diff,
                                        sig |-> Sign(token), born |-> page[c].born]]
    /\ UNCHANGED <<limiter, manager, control, cookie, changes>>

\* MUTANT: minutes for seconds.
MaxAgeCoarse(t) == t \div (60 * Second)

MaxAge(t) == Whole(t)

\* ... then, while the page is written, the lifetime.
Render(c) ==
    /\ page[c].at = "render"
    /\ page' = [page EXCEPT ![c] = [at |-> "solve", ts |-> @.ts, diff |-> @.diff,
                                    sig |-> @.sig, born |-> @.born, age |-> MaxAge(ttl)]]
    /\ UNCHANGED <<limiter, manager, control, cookie, changes>>

\* The page's script finds a nonce, sets the cookie and reloads.
Solve(c) ==
    /\ page[c].at = "solve"
    /\ cookie' = [cookie EXCEPT ![c] =
          [ts |-> page[c].ts, diff |-> page[c].diff, sig |-> page[c].sig,
           work |-> page[c].diff, until |-> now + page[c].age,
           born |-> page[c].born, altered |-> FALSE]]
    /\ page' = [page EXCEPT ![c] = NoPage]
    /\ UNCHANGED <<limiter, manager, control, changes>>

\* The client keeps the signature and sends what it likes with it: another
\* date, another difficulty, less work.
Alter(c) ==
    /\ cookie[c] # Idle /\ changes < MaxChanges
    /\ changes' = changes + 1
    /\ \E ts \in {Whole(t) : t \in 0..now}, diff \in {cfg.diff : cfg \in Configs},
          work \in {cfg.diff : cfg \in Configs} \cup {0} :
          cookie' = [cookie EXCEPT ![c].ts = ts, ![c].diff = diff, ![c].work = work,
                                   ![c].altered = TRUE]
    /\ UNCHANGED <<limiter, manager, control, page>>

\* The request goes on to the global ceiling of its snapshot.
Enter(c) ==
    /\ page[c].at = "allow"
    /\ AllowBegin(c, page[c].snap.lim)
    /\ page' = [page EXCEPT ![c] = NoPage]
    /\ UNCHANGED <<manager, control, cookie, changes>>

\* The limiters of snapshots that are built and have not been swapped in.
Unseen == {ctl[k].snap.lim : k \in {j \in Admins : ctl[j] # Idle /\ ctl[j].at # "store"}}

\* A request the gate has nothing against: not a page, or cleared long ago.
\* It may have captured any snapshot this process has had.
EnterOther(c) ==
    /\ \E l \in DOMAIN buckets \ Unseen : AllowBegin(c, l)
    /\ UNCHANGED <<manager, control, page, cookie, changes>>

Leave(c) ==
    /\ AllowCommit(c)
    /\ UNCHANGED <<manager, control, page, cookie, changes>>

\* Reload: policy.Build makes a snapshot with a limiter of its own, ...
Build(k) ==
    /\ ctl[k] = Idle /\ changes < MaxChanges
    /\ changes' = changes + 1
    /\ NewGlobal
    /\ \E cfg \in Configs :
          ctl' = [ctl EXCEPT ![k] = [at |-> "params", diff |-> cfg.diff, ttl |-> cfg.ttl,
                                     snap |-> [lim |-> Len(buckets'), mode |-> cfg.mode]]]
    /\ UNCHANGED <<manager, snap, page, cookie>>

\* ... SetParams stores the difficulty, ...
StoreDifficulty(k) ==
    /\ ctl[k] # Idle /\ ctl[k].at = "params"
    /\ difficulty' = ctl[k].diff
    /\ past' = past \cup {[diff |-> difficulty, until |-> now]}
    /\ ctl' = [ctl EXCEPT ![k].at = "lifetime"]
    /\ UNCHANGED <<limiter, ttl, secret, snap, page, cookie, changes>>

\* ... then the lifetime, ...
StoreTTL(k) ==
    /\ ctl[k] # Idle /\ ctl[k].at = "lifetime"
    /\ ttl' = ctl[k].ttl
    /\ ctl' = [ctl EXCEPT ![k].at = "swap"]
    /\ UNCHANGED <<limiter, difficulty, secret, past, snap, page, cookie, changes>>

\* SetChallengeMode copies the snapshot in force, limiter and all, ...
FlipLoad(k) ==
    /\ ctl[k] = Idle /\ changes < MaxChanges
    /\ changes' = changes + 1
    /\ \E m \in {"adaptive", "always"} :
          ctl' = [ctl EXCEPT ![k] = [at |-> "store", snap |-> [snap EXCEPT !.mode = m]]]
    /\ UNCHANGED <<limiter, manager, snap, page, cookie>>

\* ... and both end by putting their snapshot in force.
Install(k) ==
    /\ ctl[k] # Idle /\ ctl[k].at \in {"swap", "store"}
    /\ snap' = ctl[k].snap
    /\ ctl' = [ctl EXCEPT ![k] = Idle]
    /\ UNCHANGED <<limiter, manager, page, cookie, changes>>

\* A new process, with a config read anew: without a configured secret it
\* makes up another one.  The pages and cookies the browsers hold stay;
\* requests in flight are cut off.
Restart ==
    /\ changes < MaxChanges
    /\ changes' = changes + 1
    /\ secret' = IF FixedSecret THEN secret ELSE secret + 1
    /\ \E cfg \in Configs :
          /\ difficulty' = cfg.diff
          /\ ttl' = cfg.ttl
          /\ snap' = [lim |-> 1, mode |-> cfg.mode]
    /\ past' = past \cup {[diff |-> difficulty, until |-> now]}
    /\ ctl' = [k \in Admins |-> Idle]
    /\ buckets' = <<FullBucket>>
    /\ call' = [c \in Callers |-> Idle]
    /\ from' = now /\ used' = <<0>>
    /\ page' = [c \in Browsers |-> IF page[c].at = "solve" THEN page[c] ELSE NoPage]
    /\ UNCHANGED <<now, cookie>>

Clock ==
    /\ Tick
    /\ UNCHANGED <<manager, control, page, cookie, changes>>

Observe ==
    /\ OpenWindow
    /\ UNCHANGED <<manager, control, page, cookie, changes>>

Browse(c) ==
    \/ Arrive(c) \/ Check(c) \/ Gate(c) \/ Stamp(c) \/ SignPuzzle(c) \/ Render(c) \/ Solve(c)
    \/ Enter(c) \/ Leave(c)

ChallengeNext ==
    \/ \E c \in Browsers : Browse(c) \/ Alter(c)
    \/ \E c \in Callers \ Browsers : EnterOther(c) \/ Leave(c)
    \/ \E k \in Admins : Build(k) \/ StoreDifficulty(k) \/ StoreTTL(k)
    \/ \E k \in Admins : FlipLoad(k) \/ Install(k)
    \/ Restart \/ Clock \/ Observe

ChallengeSpec == ChallengeInit /\ [][ChallengeNext]_all

\* Handlers and page scripts keep running; nobody has to reload the config.
ChallengeFairSpec == ChallengeSpec /\ \A c \in Browsers : WF_all(Browse(c))

----------------------------------------------------------------------------
(* Properties. *)

\* Difficulty d is in force, or was within the last lifetime.
InForceLately(d) ==
    d = difficulty \/ \E r \in past : r.diff = d /\ now - r.until <= ttl

\* Package comment: "client can't pick an easier difficulty".  A request that
\* gets by on a clearance has done the work of a difficulty that is in force
\* or was within the last ttl: whatever the client sends under the signature
\* it has, wherever between the loads of Serve and the stores of SetParams its
\* puzzle was made, and across restarts.  A raised difficulty so takes hold
\* within one lifetime.
HardnessCatchesUp ==
    [][\A c \in Browsers : page[c].at = "come" /\ page'[c].at = "allow" =>
         \E d \in 0..cookie[c].work : InForceLately(d)]_all

\* A clearance is good for its lifetime less the second lost in ts: a browser
\* that paid this process less than that ago, and sends the cookie the page
\* set, is not asked again, whatever difficulty and mode are now.
ClearanceHonoured ==
    [][\A c \in Browsers : page[c].at = "come" /\ page'[c].at = "gate" =>
         \/ Sent(c) = Idle
         \/ Sent(c).altered
         \/ Sent(c).sig.key # secret
         \/ now - Sent(c).born + Second - 1 > ttl]_all

\* Challenge, solve, reload comes to an end: a browser that has been served a
\* puzzle passes the gate in the end.
SolverGetsThrough ==
    \A c \in Browsers : page[c].at = "solve" ~> page[c].at = "allow"

(* What the documentation says and the code does not keep. *)

\* What Global.Allow has admitted in the window, over all limiters.
AllUsed ==
    LET sum[l \in 0..Len(used)] == IF l = 0 THEN 0 ELSE sum[l - 1] + used[l]
    IN  sum[Len(used)]

\* README: "aggregate ceiling".  All clients together are admitted at most
\* burst + rps * length times in any window.  A reload hands out a full bucket
\* of its own, and requests under way go on drawing on the old one.
AggregateCeiling == AllUsed * Cost <= Burst + Rate * (now - from)

============================================================================
