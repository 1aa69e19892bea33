---------------------------- MODULE GuardProofs ----------------------------
(* Machine-checked facts about Guard, for every value of its constants: any *)
(* number of requests in flight, addresses, policies and reloads.           *)
EXTENDS Guard, FiniteSetTheorems, TLAPS

----------------------------------------------------------------------------
(* Requests and how a handler moves them. *)

Modes == [dry : BOOLEAN, tarpit : BOOLEAN, body : BOOLEAN]
Outs == {"none"} \cup Served \cup Refused
Request == [at : Places, out : Outs, ip : IPs, snap : Modes, cap : Caps, slot : BOOLEAN]

\* A request that has come in.
LEMMA InFlight ==
    ASSUME TypeOK, NEW q \in Reqs, req[q].at # "new"
    PROVE  req[q] \in Request
BY DEF TypeOK, NotArrived, Request, Modes, Outs

\* A handler step of q: where it goes, its outcome, cap and slot.  Its
\* address and its snapshot stay.
Moves(q, at, out, c, s) ==
    req' = [req EXCEPT ![q] = [at |-> at, out |-> out, ip |-> req[q].ip,
                               snap |-> req[q].snap, cap |-> c, slot |-> s]]

\* Where a request is after an update of its place, or of place and outcome.
LEMMA PlaceUpdate ==
    ASSUME NEW x \in Request, NEW at
    PROVE  [x EXCEPT !.at = at] = [at |-> at, out |-> x.out, ip |-> x.ip,
                                   snap |-> x.snap, cap |-> x.cap, slot |-> x.slot]
BY DEF Request

LEMMA OutcomeUpdate ==
    ASSUME NEW x \in Request, NEW out
    PROVE  [x EXCEPT !.out = out] = [at |-> x.at, out |-> out, ip |-> x.ip,
                                     snap |-> x.snap, cap |-> x.cap, slot |-> x.slot]
BY DEF Request

LEMMA EndUpdate ==
    ASSUME NEW x \in Request, NEW at \in Places, NEW out
    PROVE  [x EXCEPT !.at = at, !.out = out] =
               [at |-> at, out |-> out, ip |-> x.ip, snap |-> x.snap, cap |-> x.cap,
                slot |-> x.slot]
<1> DEFINE y == [x EXCEPT !.at = at]
<1>1. [x EXCEPT !.at = at, !.out = out] = [y EXCEPT !.out = out]
  OBVIOUS
<1>2. y = [at |-> at, out |-> x.out, ip |-> x.ip, snap |-> x.snap, cap |-> x.cap,
           slot |-> x.slot]
  BY PlaceUpdate
<1>3. y \in Request
  BY DEF Request
<1> HIDE DEF y
<1>4. [y EXCEPT !.out = out] = [at |-> y.at, out |-> out, ip |-> y.ip, snap |-> y.snap,
                                cap |-> y.cap, slot |-> y.slot]
  BY <1>3, OutcomeUpdate
<1> QED BY <1>1, <1>2, <1>4

LEMMA ReqType == TypeOK => req \in [Reqs -> {NotArrived} \cup Request]
BY DEF TypeOK, Request, Modes, Outs

\* A step that only changes the place of q.
LEMMA PlaceMoves ==
    ASSUME TypeOK, NEW q \in Reqs, req[q] \in Request, NEW at,
           req' = [req EXCEPT ![q].at = at]
    PROVE  Moves(q, at, req[q].out, req[q].cap, req[q].slot)
<1>1. req' = [req EXCEPT ![q] = [req[q] EXCEPT !.at = at]]
  BY ReqType
<1> QED BY <1>1, PlaceUpdate DEF Moves

\* A step that ends the way of q through the pipeline, or part of it.
LEMMA EndMoves ==
    ASSUME TypeOK, NEW q \in Reqs, req[q] \in Request, NEW at \in Places, NEW out,
           End(q, at, out)
    PROVE  Moves(q, at, out, req[q].cap, req[q].slot)
<1>1. req' = [req EXCEPT ![q] = [req[q] EXCEPT !.at = at, !.out = out]]
  BY ReqType DEF End
<1>2. [req[q] EXCEPT !.at = at, !.out = out] =
          [at |-> at, out |-> out, ip |-> req[q].ip, snap |-> req[q].snap,
           cap |-> req[q].cap, slot |-> req[q].slot]
  BY EndUpdate
<1> QED BY <1>1, <1>2, Zenon DEF Moves

\* connlimit: a step that notes the cap, or takes or gives back the slot.
LEMMA CapMoves ==
    ASSUME TypeOK, NEW q \in Reqs, req[q] \in Request, NEW at \in Places, NEW c,
           req' = [req EXCEPT ![q].at = at, ![q].cap = c]
    PROVE  Moves(q, at, req[q].out, c, req[q].slot)
<1> DEFINE y == [req[q] EXCEPT !.at = at]
<1>1. req' = [req EXCEPT ![q] = [y EXCEPT !.cap = c]]
  BY ReqType
<1>2. y = [at |-> at, out |-> req[q].out, ip |-> req[q].ip, snap |-> req[q].snap,
           cap |-> req[q].cap, slot |-> req[q].slot]
  BY PlaceUpdate
<1>3. y \in Request
  BY DEF Request
<1> HIDE DEF y
<1>4. [y EXCEPT !.cap = c] = [at |-> y.at, out |-> y.out, ip |-> y.ip, snap |-> y.snap,
                              cap |-> c, slot |-> y.slot]
  BY <1>3 DEF Request
<1> QED BY <1>1, <1>2, <1>4 DEF Moves

LEMMA SlotMoves ==
    ASSUME TypeOK, NEW q \in Reqs, req[q] \in Request, NEW at \in Places, NEW s,
           req' = [req EXCEPT ![q].at = at, ![q].slot = s]
    PROVE  Moves(q, at, req[q].out, req[q].cap, s)
<1> DEFINE y == [req[q] EXCEPT !.at = at]
<1>1. req' = [req EXCEPT ![q] = [y EXCEPT !.slot = s]]
  BY ReqType
<1>2. y = [at |-> at, out |-> req[q].out, ip |-> req[q].ip, snap |-> req[q].snap,
           cap |-> req[q].cap, slot |-> req[q].slot]
  BY PlaceUpdate
<1>3. y \in Request
  BY DEF Request
<1> HIDE DEF y
<1>4. [y EXCEPT !.slot = s] = [at |-> y.at, out |-> y.out, ip |-> y.ip, snap |-> y.snap,
                               cap |-> y.cap, slot |-> s]
  BY <1>3 DEF Request
<1> QED BY <1>1, <1>2, <1>4 DEF Moves

\* A denial: let through in dry-run, enforced otherwise.
LEMMA DenyMoves ==
    ASSUME TypeOK, NEW q \in Reqs, req[q] \in Request,
           NEW next, NEW at \in Places, NEW out, NEW always, NEW enforced,
           Deny(q, next, at, out, always, enforced)
    PROVE  \/ /\ req[q].snap.dry
              /\ Moves(q, next, req[q].out, req[q].cap, req[q].slot)
              /\ Bump(always \cup {"would"})
           \/ /\ ~req[q].snap.dry
              /\ Moves(q, at, out, req[q].cap, req[q].slot)
              /\ Bump(always \cup enforced)
BY PlaceMoves, EndMoves DEF Deny

\* A check that does not match.
LEMMA PassMoves ==
    ASSUME TypeOK, NEW q \in Reqs, req[q] \in Request, NEW next, Pass(q, next)
    PROVE  Moves(q, next, req[q].out, req[q].cap, req[q].slot) /\ count' = count
BY PlaceMoves DEF Pass

\* A move to a known place leaves well typed requests.
LEMMA MovesType ==
    ASSUME TypeOK, NEW q \in Reqs, req[q] \in Request,
           NEW at \in Places, NEW out \in Outs, NEW c \in Caps, NEW s \in BOOLEAN,
           Moves(q, at, out, c, s)
    PROVE  req' \in [Reqs -> {NotArrived} \cup Request]
BY ReqType DEF Moves, Request

\* Counters stay numbers.
LEMMA BumpType ==
    ASSUME TypeOK, NEW S, Bump(S)
    PROVE  count' \in [Counters -> Nat]
BY DEF TypeOK, Bump

----------------------------------------------------------------------------
(* What a request has earned where it is. *)

MidWay == {"deny", "fp", "rule", "banned", "ua", "challenge", "global", "perip",
           "issue", "cap", "acquire", "serve", "block", "tarpit"}
PastBanCheck == {"ua", "challenge", "global", "perip", "cap", "acquire", "serve"}
Checks == {"deny", "fp", "rule", "banned", "ua", "challenge", "global", "perip", "acquire"}
Undecided == Places \ ({"serving", "issue", "block", "tarpit"} \cup Over)

\* c is no higher than the highest cap so far.
UnderRoof(c) == roof = 0 \/ (c > 0 /\ c <= roof)

\* A request x that has come in, with s the facts that held while it was under
\* way: past the license gate a license was seen, past the allowlist an
\* address off the list, past the ban check an address free of bans; upstream
\* sees the served only, and the body cap cuts off nobody else.
Sound(x, s) ==
    /\ x.at \in Undecided => x.out = "none"
    /\ x.at = "issue" => x.out = "ratelimited"
    /\ x.at \in {"serving", "cut"} => x.out \in Served
    /\ x.at = "cut" => x.snap.body
    /\ LicenseEnforced /\ x.at # "license"
          => "licensed" \in s \/ (x.at = "done" /\ x.out = "unlicensed")
    /\ x.at \in MidWay \/ x.out \in Refused \ {"unlicensed"} => "unlisted" \in s
    /\ x.at \in PastBanCheck \/ x.out = "allowed" => x.snap.dry \/ "free" \in s
    /\ x.snap.dry => x.out \in {"none", "unlicensed"} \cup Served
    /\ x.slot => x.at \in {"serve", "serving"}
    /\ x.at = "acquire" => UnderRoof(x.cap)

\* What holds now is among what was seen.
Current ==
    \A q \in Reqs : UnderWay(q) => Facts(req[q].ip, banned, allow, licensed) \subseteq seen[q]

AllSound == \A q \in Reqs : req[q].at # "new" => Sound(req[q], seen[q])

\* The inductive invariant.
GuardInv == TypeOK /\ Current /\ AllSound /\ UnderRoof(cap) /\ SlotsMatch

\* A handler step of q leads to a sound request.
Advance(q) ==
    /\ \E x \in Request : /\ req' = [req EXCEPT ![q] = x]
                          /\ x.ip = req[q].ip
                          /\ x.snap = req[q].snap
                          /\ Sound(x, seen[q])
    /\ count' \in [Counters -> Nat]

LEMMA Advances ==
    ASSUME TypeOK, NEW q \in Reqs, req[q] \in Request, count' \in [Counters -> Nat],
           NEW at \in Places, NEW out \in Outs, NEW c \in Caps, NEW s \in BOOLEAN,
           Moves(q, at, out, c, s),
           Sound([at |-> at, out |-> out, ip |-> req[q].ip, snap |-> req[q].snap,
                  cap |-> c, slot |-> s], seen[q])
    PROVE  Advance(q)
<1> DEFINE x == [at |-> at, out |-> out, ip |-> req[q].ip, snap |-> req[q].snap,
                 cap |-> c, slot |-> s]
<1>1. x \in Request /\ x.ip = req[q].ip /\ x.snap = req[q].snap
  BY DEF Request
<1>2. req' = [req EXCEPT ![q] = x]
  BY DEF Moves
<1>3. Sound(x, seen[q])
  OBVIOUS
<1> HIDE DEF x
<1> QED BY <1>1, <1>2, <1>3 DEF Advance

\* Where a request stands: what the steps below start from.
LEMMA Standing ==
    ASSUME GuardInv, NEW q \in Reqs, req[q].at # "new"
    PROVE  /\ req[q] \in Request
           /\ req[q].at \in Places /\ req[q].out \in Outs /\ req[q].ip \in IPs
           /\ req[q].snap.dry \in BOOLEAN /\ req[q].snap.tarpit \in BOOLEAN
           /\ req[q].cap \in Caps /\ req[q].slot \in BOOLEAN
           /\ Sound(req[q], seen[q])
           /\ count \in [Counters -> Nat]
           /\ cap \in Caps
<1>1. req[q] \in Request
  BY InFlight DEF GuardInv
<1> QED BY <1>1 DEF GuardInv, AllSound, TypeOK, Request, Modes

\* A check of the pipeline: on to the next one, or a denial.
LEMMA CheckAdvances ==
    ASSUME GuardInv, NEW q \in Reqs, req[q].at # "new",
           NEW next \in Undecided, NEW at \in {"block", "done", "issue"},
           NEW out \in Refused \ {"unlicensed"}, NEW always, NEW enforced,
           req[q].at \in Checks,
           at = "issue" => out = "ratelimited",
           next # "license", next # "acquire",
           \/ Pass(q, next) /\ (next \in PastBanCheck => req[q].snap.dry \/ "free" \in seen[q])
           \/ Deny(q, next, at, out, always, enforced)
    PROVE  Advance(q)
<1>0. /\ req[q] \in Request /\ req[q].cap \in Caps /\ req[q].slot \in BOOLEAN
      /\ req[q].out \in Outs /\ req[q].snap.dry \in BOOLEAN
      /\ Sound(req[q], seen[q]) /\ TypeOK /\ count \in [Counters -> Nat]
  BY Standing DEF GuardInv
<1>1. /\ next \in Places /\ at \in Places /\ out \in Outs
      /\ req[q].out = "none" /\ ~req[q].slot
      /\ "unlisted" \in seen[q]
      /\ LicenseEnforced => "licensed" \in seen[q]
  <2>1. next \in Places /\ at \in Places /\ out \in Outs
    BY DEF Undecided, Places, Over, Outs
  <2>2. req[q].at \in MidWay \cap Undecided /\ req[q].at \notin {"license", "serve", "serving", "done"}
    BY DEF Checks, MidWay, Undecided, Places, Over
  <2>3. req[q].out = "none"
    BY <1>0, <2>2 DEF Sound
  <2>4. "unlisted" \in seen[q]
    BY <1>0, <2>2 DEF Sound
  <2>5. LicenseEnforced => "licensed" \in seen[q]
    BY <1>0, <2>2 DEF Sound
  <2>6. ~req[q].slot
    BY <1>0, <2>2 DEF Sound
  <2> QED BY <2>1, <2>2, <2>3, <2>4, <2>5, <2>6
<1>2. ASSUME Moves(q, next, req[q].out, req[q].cap, req[q].slot),
             count' \in [Counters -> Nat],
             next \in PastBanCheck => req[q].snap.dry \/ "free" \in seen[q]
      PROVE  Advance(q)
  <2>1. Sound([at |-> next, out |-> req[q].out, ip |-> req[q].ip, snap |-> req[q].snap,
               cap |-> req[q].cap, slot |-> req[q].slot], seen[q])
    BY <1>0, <1>1, <1>2 DEF Sound, MidWay, Undecided, PastBanCheck, Places, Over, Refused
  <2> QED BY <1>0, <1>1, <1>2, <2>1, Advances
<1>3. ASSUME Moves(q, at, out, req[q].cap, req[q].slot), ~req[q].snap.dry,
             count' \in [Counters -> Nat]
      PROVE  Advance(q)
  <2>1. Sound([at |-> at, out |-> out, ip |-> req[q].ip, snap |-> req[q].snap,
               cap |-> req[q].cap, slot |-> req[q].slot], seen[q])
    BY <1>0, <1>1, <1>3 DEF Sound, MidWay, Undecided, PastBanCheck, Places, Over, Refused
  <2> QED BY <1>0, <1>1, <1>3, <2>1, Advances
<1>4. CASE Pass(q, next) /\ (next \in PastBanCheck => req[q].snap.dry \/ "free" \in seen[q])
  BY <1>0, <1>2, <1>4, PassMoves
<1>5. CASE Deny(q, next, at, out, always, enforced)
  <2>1. count' \in [Counters -> Nat]
    BY <1>0, <1>5, BumpType DEF Deny
  <2>2. \/ req[q].snap.dry /\ Moves(q, next, req[q].out, req[q].cap, req[q].slot)
        \/ ~req[q].snap.dry /\ Moves(q, at, out, req[q].cap, req[q].slot)
    BY <1>0, <1>1, <1>5, DenyMoves
  <2> QED BY <2>1, <2>2, <1>2, <1>3
<1> QED BY <1>4, <1>5

\* Every handler step leads a request from a sound place to a sound place.
LEMMA HandleAdvances ==
    ASSUME GuardInv, NEW q \in Reqs, Handle(q)
    PROVE  Advance(q)
<1>n. req[q].at # "new"
  BY DEF Handle, LicenseGate, Allowlist, Denylist, Fingerprint, Rule, BanCheck,
         BadUserAgent, ChallengeGate, GlobalLimit, PerIPLimit, IssueBan, ReadCap,
         Acquire, Serve, Respond, Block, LeaveTarpit
<1>0. /\ req[q] \in Request /\ req[q].cap \in Caps /\ req[q].slot \in BOOLEAN
      /\ req[q].out \in Outs /\ req[q].snap.dry \in BOOLEAN
      /\ Sound(req[q], seen[q]) /\ TypeOK /\ count \in [Counters -> Nat]
  BY <1>n, Standing DEF GuardInv
<1>f. Facts(req[q].ip, banned, allow, licensed) \subseteq seen[q] \/ req[q].at \in Over
  BY <1>n DEF GuardInv, Current, UnderWay, Over
<1>m. ASSUME NEW at \in Places, NEW out \in Outs, Moves(q, at, out, req[q].cap, req[q].slot),
             count' \in [Counters -> Nat],
             Sound([at |-> at, out |-> out, ip |-> req[q].ip, snap |-> req[q].snap,
                    cap |-> req[q].cap, slot |-> req[q].slot], seen[q])
      PROVE  Advance(q)
  BY <1>0, <1>m, Advances
<1>e. ASSUME NEW at \in Places, NEW out \in Outs, End(q, at, out),
             count' \in [Counters -> Nat],
             Sound([at |-> at, out |-> out, ip |-> req[q].ip, snap |-> req[q].snap,
                    cap |-> req[q].cap, slot |-> req[q].slot], seen[q])
      PROVE  Advance(q)
  BY <1>0, <1>e, <1>m, EndMoves
<1> USE DEF Places, Over, Outs, Served, Refused, Over
<1>1. CASE LicenseGate(q)
  <2>1. CASE LicenseEnforced /\ ~licensed
    BY <1>0, <1>1, <1>e, <2>1 DEF LicenseGate, Sound, MidWay, PastBanCheck, Undecided
  <2>2. CASE ~(LicenseEnforced /\ ~licensed)
    <3>1. LicenseEnforced => "licensed" \in seen[q]
      BY <1>1, <1>f, <2>2 DEF LicenseGate, Facts
    <3> QED BY <1>0, <1>1, <1>e, <2>2, <3>1
            DEF LicenseGate, Sound, MidWay, PastBanCheck, Undecided
  <2> QED BY <2>1, <2>2
<1>2. CASE Allowlist(q)
  <2>1. CASE IsAllowed(req[q].ip)
    BY <1>0, <1>2, <1>e, <2>1 DEF Allowlist, Sound, MidWay, PastBanCheck, Undecided
  <2>2. CASE ~IsAllowed(req[q].ip)
    <3>1. "unlisted" \in seen[q]
      BY <1>2, <1>f, <2>2 DEF Allowlist, Facts, IsAllowed
    <3> QED BY <1>0, <1>2, <1>e, <2>2, <3>1
            DEF Allowlist, Sound, MidWay, PastBanCheck, Undecided
  <2> QED BY <2>1, <2>2
<1>c. ASSUME req[q].at \in {"ua", "challenge", "global", "perip"}
      PROVE  req[q].snap.dry \/ "free" \in seen[q]
  BY <1>0, <1>c DEF Sound, PastBanCheck
<1>d. \A next \in {"fp", "rule", "banned"} : next \notin PastBanCheck
  BY DEF PastBanCheck
<1>u. /\ {"fp", "rule", "banned", "ua", "challenge", "global", "perip", "cap", "serve"}
            \subseteq Undecided
      /\ {"deny", "fp", "rule", "banned", "ua", "challenge", "global", "perip", "acquire"}
            \subseteq Checks
  BY DEF Undecided, Checks
<1>3. CASE Denylist(q)
  <2>1. Pass(q, "fp") \/ Deny(q, "fp", "block", "denylist", {}, {})
    BY <1>3 DEF Denylist
  <2>2. req[q].at = "deny"
    BY <1>3 DEF Denylist
  <2> QED BY <1>n, <1>d, <1>u, <2>1, <2>2, CheckAdvances
<1>4. CASE Fingerprint(q)
  <2>1. Pass(q, "rule") \/ Deny(q, "rule", "block", "fingerprint", {}, {"fp"})
    BY <1>4 DEF Fingerprint
  <2>2. req[q].at = "fp"
    BY <1>4 DEF Fingerprint
  <2> QED BY <1>n, <1>d, <1>u, <2>1, <2>2, CheckAdvances
<1>5. CASE Rule(q)
  <2>1. req[q].at = "rule"
    BY <1>5 DEF Rule
  <2>2. \/ Pass(q, "banned")
        \/ End(q, "serving", "ruleallow") /\ count' = count
        \/ Deny(q, "banned", "block", "rule", {}, {})
    BY <1>5 DEF Rule
  <2>3. CASE End(q, "serving", "ruleallow") /\ count' = count
    BY <1>0, <1>e, <2>1, <2>3 DEF Sound, MidWay, PastBanCheck, Undecided
  <2> QED BY <1>n, <1>d, <1>u, <2>1, <2>2, <2>3, CheckAdvances
<1>6. CASE BanCheck(q)
  <2>1. req[q].at = "banned"
    BY <1>6 DEF BanCheck
  <2>2. \/ Pass(q, "ua") /\ "free" \in seen[q]
        \/ Deny(q, "ua", "block", "banned", {}, {"banned"})
    BY <1>6, <1>f, <2>1 DEF BanCheck, IsBanned, IsAllowed, Facts
  <2> QED BY <1>n, <1>u, <2>1, <2>2, CheckAdvances
<1>7. CASE BadUserAgent(q)
  <2>1. Pass(q, "challenge") \/ Deny(q, "challenge", "block", "badua", {}, {})
    BY <1>7 DEF BadUserAgent
  <2>2. req[q].at = "ua"
    BY <1>7 DEF BadUserAgent
  <2> QED BY <1>n, <1>c, <1>u, <2>1, <2>2, CheckAdvances
<1>8. CASE ChallengeGate(q)
  <2>1. Pass(q, "global") \/ Deny(q, "global", "done", "challenged", {"challenged"}, {})
    BY <1>8 DEF ChallengeGate
  <2>2. req[q].at = "challenge"
    BY <1>8 DEF ChallengeGate
  <2> QED BY <1>n, <1>c, <1>u, <2>1, <2>2, CheckAdvances
<1>9. CASE GlobalLimit(q)
  <2>1. Pass(q, "perip") \/ Deny(q, "perip", "done", "busy", {"global"}, {})
    BY <1>9 DEF GlobalLimit
  <2>2. req[q].at = "global"
    BY <1>9 DEF GlobalLimit
  <2> QED BY <1>n, <1>c, <1>u, <2>1, <2>2, CheckAdvances
<1>10. CASE PerIPLimit(q)
  <2>1. Pass(q, "cap") \/ Deny(q, "cap", "issue", "ratelimited", {"perip"}, {})
    BY <1>10 DEF PerIPLimit
  <2>2. req[q].at = "perip"
    BY <1>10 DEF PerIPLimit
  <2> QED BY <1>n, <1>c, <1>u, <2>1, <2>2, CheckAdvances
<1>11. CASE IssueBan(q)
  <2>1. count' \in [Counters -> Nat]
    BY <1>0, <1>11, BumpType DEF IssueBan
  <2>2. req[q].at = "issue" /\ End(q, "done", "ratelimited")
    BY <1>11 DEF IssueBan
  <2> QED BY <1>0, <1>e, <2>1, <2>2 DEF Sound, MidWay, PastBanCheck, Undecided
<1>12. CASE ReadCap(q)
  <2>1. /\ req[q].at = "cap" /\ count' = count
        /\ req' = [req EXCEPT ![q].at = "acquire", ![q].cap = cap]
    BY <1>12 DEF ReadCap
  <2>2. Moves(q, "acquire", req[q].out, cap, req[q].slot)
    BY <1>0, <2>1, CapMoves
  <2>3. UnderRoof(cap) /\ cap \in Caps
    BY <1>n, Standing DEF GuardInv
  <2>4. Sound([at |-> "acquire", out |-> req[q].out, ip |-> req[q].ip,
               snap |-> req[q].snap, cap |-> cap, slot |-> req[q].slot], seen[q])
    BY <1>0, <2>1, <2>3 DEF Sound, MidWay, PastBanCheck, Undecided
  <2> QED BY <1>0, <2>1, <2>2, <2>3, <2>4, Advances
<1>13. CASE Acquire(q)
  <2>1. req[q].at = "acquire"
    BY <1>13 DEF Acquire
  <2>2. CASE Reserve(q)
    <3>1. Moves(q, "serve", req[q].out, req[q].cap, TRUE) /\ count' = count
      BY <1>0, <2>2, SlotMoves DEF Reserve
    <3>2. Sound([at |-> "serve", out |-> req[q].out, ip |-> req[q].ip,
                 snap |-> req[q].snap, cap |-> req[q].cap, slot |-> TRUE], seen[q])
      BY <1>0, <2>1 DEF Sound, MidWay, PastBanCheck, Undecided
    <3> QED BY <1>0, <3>1, <3>2, Advances
  <2>3. CASE Deny(q, "serve", "done", "conncap", {"conn"}, {})
    BY <1>n, <1>u, <2>1, <2>3, CheckAdvances
  <2> QED BY <1>13, <2>2, <2>3 DEF Acquire
<1>14. CASE Serve(q)
  <2>1. count' \in [Counters -> Nat]
    BY <1>0, <1>14, BumpType DEF Serve
  <2>2. req[q].at = "serve" /\ End(q, "serving", "allowed")
    BY <1>14 DEF Serve
  <2> QED BY <1>0, <1>e, <2>1, <2>2 DEF Sound, MidWay, PastBanCheck, Undecided
<1>15. CASE Respond(q)
  <2>1. PICK end \in Over :
            /\ req[q].at = "serving" /\ count' = count /\ (end = "cut" => req[q].snap.body)
            /\ req' = [req EXCEPT ![q].at = end, ![q].slot = FALSE]
    BY <1>15 DEF Respond
  <2>2. Moves(q, end, req[q].out, req[q].cap, FALSE)
    BY <1>0, <2>1, SlotMoves
  <2>3. Sound([at |-> end, out |-> req[q].out, ip |-> req[q].ip,
               snap |-> req[q].snap, cap |-> req[q].cap, slot |-> FALSE], seen[q])
    BY <1>0, <2>1 DEF Sound, MidWay, PastBanCheck, Undecided
  <2> QED BY <1>0, <2>1, <2>2, <2>3, Advances
<1>16. CASE Block(q)
  <2>1. count' \in [Counters -> Nat]
    BY <1>0, <1>16, BumpType DEF Block
  <2>2. PICK at \in {"tarpit", "done"} : req' = [req EXCEPT ![q].at = at]
    BY <1>16 DEF Block
  <2>3. Moves(q, at, req[q].out, req[q].cap, req[q].slot)
    BY <1>0, <2>2, PlaceMoves
  <2>4. req[q].at = "block"
    BY <1>16 DEF Block
  <2>5. Sound([at |-> at, out |-> req[q].out, ip |-> req[q].ip, snap |-> req[q].snap,
               cap |-> req[q].cap, slot |-> req[q].slot], seen[q])
    BY <1>0, <2>2, <2>4 DEF Sound, MidWay, PastBanCheck, Undecided
  <2> QED BY <1>0, <1>m, <2>1, <2>2, <2>3, <2>5
<1>17. CASE LeaveTarpit(q)
  <2>1. req[q].at = "tarpit" /\ count' = count /\ req' = [req EXCEPT ![q].at = "done"]
    BY <1>17 DEF LeaveTarpit
  <2>2. Moves(q, "done", req[q].out, req[q].cap, req[q].slot)
    BY <1>0, <2>1, PlaceMoves
  <2>3. Sound([at |-> "done", out |-> req[q].out, ip |-> req[q].ip, snap |-> req[q].snap,
               cap |-> req[q].cap, slot |-> req[q].slot], seen[q])
    BY <1>0, <2>1 DEF Sound, MidWay, PastBanCheck, Undecided
  <2> QED BY <1>0, <1>m, <2>1, <2>2, <2>3
<1> QED BY <1>1, <1>2, <1>3, <1>4, <1>5, <1>6, <1>7, <1>8, <1>9, <1>10, <1>11, <1>12,
           <1>13, <1>14, <1>15, <1>16, <1>17 DEF Handle
----------------------------------------------------------------------------
(* The books of the connection limiter and of the tarpit. *)

Holds(x) == x.at \in {"serve", "serving"} /\ x.slot

\* Requests are finitely many, so the sets that are counted are finite.
LEMMA Counts ==
    /\ \A ip : IsFiniteSet(Holding(ip)) /\ Cardinality(Holding(ip)) \in Nat
    /\ IsFiniteSet(Guests) /\ Cardinality(Guests) \in Nat
<1>1. \A ip : Holding(ip) \subseteq Reqs
  BY DEF Holding
<1>2. Guests \subseteq Reqs
  BY DEF Guests
<1> QED BY <1>1, <1>2, FiniteAssumption, FS_Subset, FS_CardinalityType

\* A step of q that neither takes nor gives back anything.
LEMMA BooksUntouched ==
    ASSUME TypeOK, SlotsMatch, NEW q \in Reqs, NEW x \in Request,
           req' = [req EXCEPT ![q] = x], x.ip = req[q].ip, req[q] \in Request,
           Holds(x) <=> Holds(req[q]), x.at = "tarpit" <=> req[q].at = "tarpit",
           active' = active, tarpit' = tarpit, roof' = roof
    PROVE  SlotsMatch'
<1>1. \A r \in Reqs : req'[r] = IF r = q THEN x ELSE req[r]
  BY ReqType
<1>2. \A ip : Holding(ip)' = Holding(ip)
  BY <1>1 DEF Holding, Holds
<1>3. Guests' = Guests
  BY <1>1 DEF Guests
<1> QED BY <1>2, <1>3 DEF SlotsMatch

\* A request takes a slot under the cap it has read.
LEMMA SlotTaken ==
    ASSUME TypeOK, SlotsMatch, NEW q \in Reqs, NEW x \in Request,
           req' = [req EXCEPT ![q] = x], x.ip = req[q].ip, req[q] \in Request,
           Holds(x), ~Holds(req[q]), x.at # "tarpit", req[q].at # "tarpit",
           active' = [active EXCEPT ![x.ip] = @ + 1], tarpit' = tarpit, roof' = roof,
           UnderRoof(req[q].cap), ~AtCap(q)
    PROVE  SlotsMatch'
<1>0. x.ip \in IPs /\ active \in [IPs -> Nat] /\ req[q].cap \in Nat /\ roof \in Nat
  BY PolicyAssumption DEF TypeOK, Request, Caps
<1>1. \A r \in Reqs : req'[r] = IF r = q THEN x ELSE req[r]
  BY ReqType
<1>2. \A ip : ip # x.ip => Holding(ip)' = Holding(ip)
  BY <1>1 DEF Holding, Holds
<1>3. Holding(x.ip)' = Holding(x.ip) \cup {q} /\ q \notin Holding(x.ip)
  BY <1>1 DEF Holding, Holds
<1>4. Cardinality(Holding(x.ip)') = Cardinality(Holding(x.ip)) + 1
  BY <1>3, Counts, FS_AddElement
<1>5. Guests' = Guests
  BY <1>1 DEF Guests
<1>6. \A ip \in IPs : active'[ip] = Cardinality(Holding(ip)')
  BY <1>0, <1>2, <1>4 DEF SlotsMatch
<1>7. roof > 0 => active[x.ip] + 1 <= roof
  BY <1>0 DEF AtCap, UnderRoof
<1>8. roof' > 0 => \A ip \in IPs : active'[ip] <= roof'
  BY <1>0, <1>7 DEF SlotsMatch
<1> QED BY <1>5, <1>6, <1>8 DEF SlotsMatch

\* A request that has been answered gives back the slot it holds, if any.
LEMMA SlotGivenBack ==
    ASSUME TypeOK, SlotsMatch, NEW q \in Reqs, NEW x \in Request,
           req' = [req EXCEPT ![q] = x], x.ip = req[q].ip, req[q] \in Request,
           ~Holds(x), Holds(req[q]) <=> req[q].slot, x.at # "tarpit", req[q].at # "tarpit",
           active' = Release(q), tarpit' = tarpit, roof' = roof
    PROVE  SlotsMatch'
<1>p. PICK p \in IPs : p = req[q].ip
  BY DEF Request
<1>0. active \in [IPs -> Nat] /\ roof \in Nat
  BY PolicyAssumption DEF TypeOK, Request, Caps
<1>1. \A r \in Reqs : req'[r] = IF r = q THEN x ELSE req[r]
  BY ReqType
<1>2. CASE ~req[q].slot
  <2>1. active' = active
    BY <1>2 DEF Release
  <2> QED BY <1>2, <2>1, BooksUntouched DEF Holds
<1>3. CASE req[q].slot
  <2>0. IsFiniteSet(Holding(p)) /\ Cardinality(Holding(p)) \in Nat
    BY Counts
  <2>1. \A ip : ip # p => Holding(ip)' = Holding(ip)
    BY <1>1, <1>p DEF Holding, Holds
  <2>2. Holding(p)' = Holding(p) \ {q} /\ q \in Holding(p)
    BY <1>1, <1>3, <1>p DEF Holding, Holds
  <2>3. Cardinality(Holding(p)') = Cardinality(Holding(p)) - 1
    BY <2>0, <2>2, FS_RemoveElement
  <2>4. Cardinality(Holding(p)') \in Nat
    BY <2>0, <2>2, FS_RemoveElement, FS_CardinalityType
  <2>5. active[p] = Cardinality(Holding(p)) /\ active[p] >= 1
    BY <1>0, <2>0, <2>3, <2>4 DEF SlotsMatch
  <2>6. active' = [active EXCEPT ![p] = IF @ <= 1 THEN 0 ELSE @ - 1]
    BY <1>3, <1>p DEF Release
  <2>7. active' = [active EXCEPT ![p] = @ - 1]
    <3>1. (IF active[p] <= 1 THEN 0 ELSE active[p] - 1) = active[p] - 1
      BY <1>0, <2>5
    <3> QED BY <2>6, <3>1
  <2>8. \A ip \in IPs : active'[ip] = Cardinality(Holding(ip)')
    <3> SUFFICES ASSUME NEW ip \in IPs PROVE active'[ip] = Cardinality(Holding(ip)')
      OBVIOUS
    <3>1. CASE ip = p
      BY <1>0, <2>3, <2>5, <2>7, <3>1
    <3>2. CASE ip # p
      BY <1>0, <2>1, <2>7, <3>2 DEF SlotsMatch
    <3> QED BY <3>1, <3>2
  <2>9. roof' > 0 => \A ip \in IPs : active'[ip] <= roof'
    BY <1>0, <2>7 DEF SlotsMatch
  <2>10. Guests' = Guests
    BY <1>1 DEF Guests
  <2> QED BY <2>8, <2>9, <2>10 DEF SlotsMatch
<1> QED BY <1>2, <1>3

\* The tarpit channel: one in, one out.
LEMMA TarpitEntered ==
    ASSUME TypeOK, SlotsMatch, NEW q \in Reqs, NEW x \in Request,
           req' = [req EXCEPT ![q] = x], x.ip = req[q].ip, req[q] \in Request,
           Holds(x) <=> Holds(req[q]), x.at = "tarpit", req[q].at # "tarpit",
           active' = active, tarpit' = tarpit + 1, roof' = roof
    PROVE  SlotsMatch'
<1>1. \A r \in Reqs : req'[r] = IF r = q THEN x ELSE req[r]
  BY ReqType
<1>2. \A ip : Holding(ip)' = Holding(ip)
  BY <1>1 DEF Holding, Holds
<1>3. Guests' = Guests \cup {q} /\ q \notin Guests
  BY <1>1 DEF Guests
<1>4. Cardinality(Guests') = Cardinality(Guests) + 1
  BY <1>3, Counts, FS_AddElement
<1> QED BY <1>2, <1>4 DEF SlotsMatch

LEMMA TarpitLeft ==
    ASSUME TypeOK, SlotsMatch, NEW q \in Reqs, NEW x \in Request,
           req' = [req EXCEPT ![q] = x], x.ip = req[q].ip, req[q] \in Request,
           Holds(x) <=> Holds(req[q]), x.at # "tarpit", req[q].at = "tarpit",
           active' = active, tarpit' = tarpit - 1, roof' = roof
    PROVE  SlotsMatch' /\ tarpit' \in 0..TarpitMax
<1>1. \A r \in Reqs : req'[r] = IF r = q THEN x ELSE req[r]
  BY ReqType
<1>2. \A ip : Holding(ip)' = Holding(ip)
  BY <1>1 DEF Holding, Holds
<1>3. Guests' = Guests \ {q} /\ q \in Guests
  BY <1>1 DEF Guests
<1>4. /\ Cardinality(Guests') = Cardinality(Guests) - 1
      /\ Cardinality(Guests') \in Nat
  BY <1>3, Counts, FS_RemoveElement, FS_CardinalityType
<1>5. SlotsMatch'
  BY <1>2, <1>4 DEF SlotsMatch
<1>6. tarpit' >= 0
  BY <1>4 DEF SlotsMatch
<1> QED BY <1>5, <1>6, BoundAssumption DEF TypeOK

\* A check touches neither slot nor tarpit.
Keeps(q) == req'[q].slot = req[q].slot /\ req'[q].at # "tarpit"

LEMMA ChecksKeep ==
    ASSUME TypeOK, NEW q \in Reqs, req[q] \in Request,
           NEW next \in Places \ {"tarpit"}, NEW at \in Places \ {"tarpit"}, NEW out,
           NEW always, NEW enforced,
           \/ Pass(q, next)
           \/ End(q, at, out)
           \/ Deny(q, next, at, out, always, enforced)
    PROVE  Keeps(q)
<1>1. ASSUME NEW a \in Places \ {"tarpit"}, NEW o, Moves(q, a, o, req[q].cap, req[q].slot)
      PROVE  Keeps(q)
  BY <1>1, ReqType DEF Moves, Keeps
<1>2. CASE Pass(q, next)
  BY <1>1, <1>2, PassMoves
<1>3. CASE End(q, at, out)
  BY <1>1, <1>3, EndMoves
<1>4. CASE Deny(q, next, at, out, always, enforced)
  BY <1>1, <1>4, DenyMoves
<1> QED BY <1>2, <1>3, <1>4

\* Every handler step keeps the books.
LEMMA HandleBooks ==
    ASSUME GuardInv, NEW q \in Reqs, Handle(q)
    PROVE  SlotsMatch' /\ active' \in [IPs -> Nat] /\ tarpit' \in 0..TarpitMax
<1>n. req[q].at # "new"
  BY DEF Handle, LicenseGate, Allowlist, Denylist, Fingerprint, Rule, BanCheck,
         BadUserAgent, ChallengeGate, GlobalLimit, PerIPLimit, IssueBan, ReadCap,
         Acquire, Serve, Respond, Block, LeaveTarpit
<1>0. /\ req[q] \in Request /\ Sound(req[q], seen[q]) /\ TypeOK /\ SlotsMatch
      /\ active \in [IPs -> Nat] /\ tarpit \in 0..TarpitMax /\ TarpitMax \in Nat
  BY <1>n, Standing, BoundAssumption DEF GuardInv, TypeOK
<1>1. PICK x \in Request : /\ req' = [req EXCEPT ![q] = x]
                           /\ x.ip = req[q].ip
                           /\ Sound(x, seen[q])
  BY HandleAdvances DEF Advance
<1>2. req'[q] = x
  BY <1>0, <1>1, ReqType
<1>3. (Holds(x) <=> x.slot) /\ (Holds(req[q]) <=> req[q].slot)
  BY <1>0, <1>1 DEF Sound, Holds, Request
<1>4. roof' = roof
  BY DEF Handle, LicenseGate, Allowlist, Denylist, Fingerprint, Rule, BanCheck,
         BadUserAgent, ChallengeGate, GlobalLimit, PerIPLimit, IssueBan, ReadCap,
         Acquire, Serve, Respond, Block, LeaveTarpit, shared
<1>5. ASSUME Keeps(q), req[q].at # "tarpit", active' = active, tarpit' = tarpit
      PROVE  SlotsMatch'
  BY <1>0, <1>1, <1>2, <1>3, <1>4, <1>5, BooksUntouched DEF Keeps
<1>6. CASE LicenseGate(q) \/ Allowlist(q) \/ IssueBan(q) \/ Serve(q)
  <2>1. PICK at, out : at \in {"done", "allow", "serving", "deny"} /\ End(q, at, out)
    BY <1>6 DEF LicenseGate, Allowlist, IssueBan, Serve
  <2>2. /\ req[q].at # "tarpit" /\ active' = active /\ tarpit' = tarpit
    BY <1>6 DEF LicenseGate, Allowlist, IssueBan, Serve
  <2>3. at \in Places \ {"tarpit"}
    BY <2>1 DEF Places, Over
  <2>4. Keeps(q)
    BY <1>0, <2>1, <2>3, ChecksKeep
  <2> QED BY <1>0, <1>5, <2>2, <2>4
<1>7. CASE Denylist(q) \/ Fingerprint(q) \/ BanCheck(q) \/ BadUserAgent(q)
              \/ ChallengeGate(q) \/ GlobalLimit(q) \/ PerIPLimit(q)
  <2>1. PICK next, at, out, always, enforced :
           /\ next \in {"fp", "rule", "ua", "challenge", "global", "perip", "cap"}
           /\ at \in {"block", "done", "issue"}
           /\ Pass(q, next) \/ Deny(q, next, at, out, always, enforced)
    BY <1>7 DEF Denylist, Fingerprint, BanCheck, BadUserAgent, ChallengeGate, GlobalLimit,
                PerIPLimit
  <2>2. /\ req[q].at # "tarpit" /\ active' = active /\ tarpit' = tarpit
    BY <1>7 DEF Denylist, Fingerprint, BanCheck, BadUserAgent, ChallengeGate, GlobalLimit,
                PerIPLimit
  <2>3. next \in Places \ {"tarpit"} /\ at \in Places \ {"tarpit"}
    BY <2>1 DEF Places, Over
  <2>4. Keeps(q)
    BY <1>0, <2>1, <2>3, ChecksKeep
  <2> QED BY <1>0, <1>5, <2>2, <2>4
<1>8. CASE Rule(q)
  <2>1. \/ Pass(q, "banned")
        \/ End(q, "serving", "ruleallow")
        \/ Deny(q, "banned", "block", "rule", {}, {})
    BY <1>8 DEF Rule
  <2>2. /\ req[q].at # "tarpit" /\ active' = active /\ tarpit' = tarpit
    BY <1>8 DEF Rule
  <2>3. {"banned", "serving", "block"} \subseteq Places \ {"tarpit"}
    BY DEF Places, Over
  <2>4. Keeps(q)
    BY <1>0, <2>1, <2>3, ChecksKeep
  <2> QED BY <1>0, <1>5, <2>2, <2>4
<1>9. CASE ReadCap(q)
  <2>1. /\ req[q].at = "cap" /\ active' = active /\ tarpit' = tarpit
        /\ req' = [req EXCEPT ![q].at = "acquire", ![q].cap = cap]
    BY <1>9 DEF ReadCap
  <2>2. Keeps(q)
    BY <1>0, <2>1, ReqType DEF Keeps, Request
  <2> QED BY <1>0, <1>5, <2>1, <2>2
<1>10. CASE Acquire(q)
  <2>1. req[q].at = "acquire" /\ tarpit' = tarpit /\ UnderRoof(req[q].cap)
    BY <1>0, <1>10 DEF Acquire, Sound
  <2>2. CASE ~AtCap(q) /\ Reserve(q)
    <3>1. Moves(q, "serve", req[q].out, req[q].cap, TRUE)
      BY <1>0, <2>2, SlotMoves DEF Reserve, Places, Over
    <3>2. x.at = "serve" /\ x.slot
      BY <1>0, <1>2, <3>1, ReqType DEF Moves
    <3>3. ~Holds(req[q]) /\ Holds(x)
      BY <1>3, <2>1, <3>2 DEF Holds
    <3>4. active' = [active EXCEPT ![x.ip] = @ + 1]
      BY <1>1, <2>2 DEF Reserve
    <3>5. SlotsMatch'
      BY <1>0, <1>1, <1>4, <2>1, <2>2, <3>2, <3>3, <3>4, SlotTaken
    <3>6. active' \in [IPs -> Nat]
      BY <1>0, <3>4 DEF Request
    <3> QED BY <1>0, <2>1, <3>5, <3>6
  <2>3. CASE Deny(q, "serve", "done", "conncap", {"conn"}, {}) /\ active' = active
    <3>1. {"serve", "done"} \subseteq Places \ {"tarpit"}
      BY DEF Places, Over
    <3>2. Keeps(q)
      BY <1>0, <2>3, <3>1, ChecksKeep
    <3> QED BY <1>0, <1>5, <2>1, <2>3, <3>2
  <2> QED BY <1>10, <2>2, <2>3 DEF Acquire
<1>11. CASE Respond(q)
  <2>1. PICK end \in Over :
            /\ req[q].at = "serving" /\ active' = Release(q) /\ tarpit' = tarpit
            /\ req' = [req EXCEPT ![q].at = end, ![q].slot = FALSE]
    BY <1>11 DEF Respond, Over
  <2>2. Moves(q, end, req[q].out, req[q].cap, FALSE)
    BY <1>0, <2>1, SlotMoves DEF Places, Over
  <2>3. x.at \in Over
    BY <1>0, <1>2, <2>1, <2>2, ReqType DEF Moves
  <2>4. ~Holds(x) /\ x.at # "tarpit"
    BY <2>3 DEF Holds, Over
  <2>5. SlotsMatch'
    BY <1>0, <1>1, <1>3, <1>4, <2>1, <2>3, <2>4, SlotGivenBack
  <2>6. active' \in [IPs -> Nat]
    <3>1. req[q].ip \in IPs
      BY <1>0 DEF Request
    <3>2. active[req[q].ip] > 1 => active[req[q].ip] - 1 \in Nat
      BY <1>0, <3>1
    <3>3. active' = active \/ active' = [active EXCEPT ![req[q].ip] = IF @ <= 1 THEN 0 ELSE @ - 1]
      BY <2>1 DEF Release
    <3>4. (IF active[req[q].ip] <= 1 THEN 0 ELSE active[req[q].ip] - 1) \in Nat
      BY <1>0, <3>1, <3>2
    <3> QED BY <1>0, <3>1, <3>3, <3>4
  <2> QED BY <1>0, <2>1, <2>5, <2>6
<1>12. CASE Block(q)
  <2>0. req[q].at = "block" /\ active' = active
    BY <1>12 DEF Block
  <2>1. CASE /\ tarpit < TarpitMax /\ tarpit' = tarpit + 1
             /\ req' = [req EXCEPT ![q].at = "tarpit"]
    <3>1. Moves(q, "tarpit", req[q].out, req[q].cap, req[q].slot)
      BY <1>0, <2>1, PlaceMoves
    <3>2. x.at = "tarpit" /\ x.slot = req[q].slot
      BY <1>0, <1>2, <3>1, ReqType DEF Moves
    <3>3. SlotsMatch'
      BY <1>0, <1>1, <1>3, <1>4, <2>0, <2>1, <3>2, TarpitEntered
    <3> QED BY <1>0, <2>0, <2>1, <3>3
  <2>2. CASE req' = [req EXCEPT ![q].at = "done"] /\ tarpit' = tarpit
    <3>1. Moves(q, "done", req[q].out, req[q].cap, req[q].slot)
      BY <1>0, <2>2, PlaceMoves
    <3>2. Keeps(q)
      BY <1>0, <3>1, ReqType DEF Moves, Keeps
    <3> QED BY <1>0, <1>5, <2>0, <2>2, <3>2
  <2> QED BY <1>12, <2>1, <2>2 DEF Block
<1>13. CASE LeaveTarpit(q)
  <2>1. /\ req[q].at = "tarpit" /\ active' = active /\ tarpit' = tarpit - 1
        /\ req' = [req EXCEPT ![q].at = "done"]
    BY <1>13 DEF LeaveTarpit
  <2>2. Moves(q, "done", req[q].out, req[q].cap, req[q].slot)
    BY <1>0, <2>1, PlaceMoves
  <2>3. x.at = "done" /\ x.slot = req[q].slot
    BY <1>0, <1>2, <2>2, ReqType DEF Moves
  <2> QED BY <1>0, <1>1, <1>3, <1>4, <2>1, <2>3, TarpitLeft
<1> QED BY <1>6, <1>7, <1>8, <1>9, <1>10, <1>11, <1>12, <1>13 DEF Handle

----------------------------------------------------------------------------
(* The invariant. *)

\* Look records what holds after the step, for every request under way.
LEMMA Looking ==
    ASSUME TypeOK, NEW b, NEW a, NEW l, Look(b, a, l)
    PROVE  /\ \A q \in Reqs : seen[q] \subseteq seen'[q]
           /\ \A q \in Reqs : UnderWay(q) => Facts(req[q].ip, b, a, l) \subseteq seen'[q]
           /\ seen' \in [Reqs -> SUBSET {"free", "unlisted", "licensed"}]
BY DEF TypeOK, Look, Facts

\* The ban table only ever holds addresses.
LEMMA BlockType ==
    ASSUME TypeOK, NEW ip \in IPs, Bans!Block(ip)
    PROVE  banned' \in SUBSET IPs
BY DEF TypeOK, Bans!Block, Bans!Others

\* A step that leaves the requests alone and records what it changed.
LEMMA Around ==
    ASSUME GuardInv, req' = req, Look(banned', allow', licensed'), cap' = cap, roof' = roof,
           active' = active, tarpit' = tarpit
    PROVE  Current' /\ AllSound' /\ UnderRoof(cap)' /\ SlotsMatch'
           /\ seen' \in [Reqs -> SUBSET {"free", "unlisted", "licensed"}]
<1>1. /\ \A q \in Reqs : seen[q] \subseteq seen'[q]
      /\ \A q \in Reqs : UnderWay(q) => Facts(req[q].ip, banned', allow', licensed')
                                            \subseteq seen'[q]
      /\ seen' \in [Reqs -> SUBSET {"free", "unlisted", "licensed"}]
  BY Looking DEF GuardInv
<1>2. Current'
  BY <1>1 DEF Current, UnderWay, Facts
<1>3. AllSound'
  <2> SUFFICES ASSUME NEW q \in Reqs, req[q].at # "new" PROVE Sound(req[q], seen[q])'
    BY DEF AllSound
  <2>1. req[q] \in Request /\ Sound(req[q], seen[q])
    BY Standing
  <2> QED BY <1>1, <2>1 DEF Sound, UnderRoof
<1>4. SlotsMatch' /\ UnderRoof(cap)'
  BY DEF GuardInv, SlotsMatch, Holding, Guests, UnderRoof
<1> QED BY <1>1, <1>2, <1>3, <1>4

\* A handler step keeps the invariant.
LEMMA HandleStep ==
    ASSUME GuardInv, NEW q \in Reqs, Handle(q)
    PROVE  GuardInv'
<1>u. /\ UNCHANGED <<snap, allow, licensed, cap, reload, reloads, roof>>
      /\ \/ UNCHANGED <<banned, seen>>
         \/ IssueBan(q)
  BY DEF Handle, LicenseGate, Allowlist, Denylist, Fingerprint, Rule, BanCheck,
         BadUserAgent, ChallengeGate, GlobalLimit, PerIPLimit, IssueBan, ReadCap,
         Acquire, Serve, Respond, Block, LeaveTarpit, shared
<1>n. req[q].at \notin {"new", "done", "cut"}
  BY DEF Handle, LicenseGate, Allowlist, Denylist, Fingerprint, Rule, BanCheck,
         BadUserAgent, ChallengeGate, GlobalLimit, PerIPLimit, IssueBan, ReadCap,
         Acquire, Serve, Respond, Block, LeaveTarpit
<1>0. TypeOK /\ req[q] \in Request /\ seen \in [Reqs -> SUBSET {"free", "unlisted", "licensed"}]
  BY <1>n, Standing DEF GuardInv, TypeOK
<1>1. PICK x \in Request : /\ req' = [req EXCEPT ![q] = x]
                           /\ x.ip = req[q].ip
                           /\ Sound(x, seen[q])
  BY HandleAdvances DEF Advance
<1>2. \A r \in Reqs : req'[r] = IF r = q THEN x ELSE req[r]
  BY <1>0, <1>1, ReqType
<1>3. \A r \in Reqs : seen[r] \subseteq seen'[r]
  BY <1>0, <1>u, Looking DEF IssueBan
<1>4. TypeOK'
  <2>1. req' \in [Reqs -> {NotArrived} \cup Request]
    BY <1>0, <1>1, ReqType
  <2>2. count' \in [Counters -> Nat]
    BY HandleAdvances DEF Advance
  <2>3. active' \in [IPs -> Nat] /\ tarpit' \in 0..TarpitMax
    BY HandleBooks
  <2>4. seen' \in [Reqs -> SUBSET {"free", "unlisted", "licensed"}]
    BY <1>0, <1>u, Looking DEF IssueBan
  <2>5. banned' \in SUBSET IPs
    <3>1. req[q].ip \in IPs
      BY <1>0 DEF Request
    <3> QED BY <1>0, <1>u, <3>1, BlockType DEF IssueBan, TypeOK
  <2> QED BY <1>0, <1>u, <2>1, <2>2, <2>3, <2>4, <2>5 DEF TypeOK, Request, Modes, Outs
<1>5. Current'
  <2> SUFFICES ASSUME NEW r \in Reqs, UnderWay(r)'
               PROVE  Facts(req'[r].ip, banned', allow', licensed') \subseteq seen'[r]
    BY DEF Current
  <2>1. UnderWay(r) /\ req'[r].ip = req[r].ip
    BY <1>1, <1>2, <1>n DEF UnderWay, Over
  <2>2. CASE UNCHANGED <<banned, seen>>
    BY <1>u, <2>1, <2>2 DEF GuardInv, Current
  <2>3. CASE IssueBan(q)
    BY <1>0, <1>u, <2>1, <2>3, Looking DEF IssueBan
  <2> QED BY <1>u, <2>2, <2>3
<1>6. AllSound'
  <2> SUFFICES ASSUME NEW r \in Reqs, req'[r].at # "new" PROVE Sound(req[r], seen[r])'
    BY DEF AllSound
  <2>1. CASE r = q
    <3>1. req'[r] = x
      BY <1>2, <2>1
    <3> QED BY <1>u, <1>1, <1>3, <2>1, <3>1 DEF Sound, UnderRoof
  <2>2. CASE r # q
    <3>1. req'[r] = req[r] /\ Sound(req[r], seen[r])
      BY <1>2, <2>2, Standing
    <3> QED BY <1>u, <1>3, <3>1 DEF Sound, UnderRoof
  <2> QED BY <2>1, <2>2
<1>7. UnderRoof(cap)'
  BY <1>u DEF GuardInv, UnderRoof
<1> QED BY <1>4, <1>5, <1>6, <1>7, HandleBooks DEF GuardInv

\* The arrival of a request keeps the invariant.
LEMMA ArriveStep ==
    ASSUME GuardInv, NEW q \in Reqs, Arrive(q)
    PROVE  GuardInv'
<1>1. PICK ip \in IPs :
          /\ req' = [req EXCEPT ![q] = [at |-> "license", out |-> "none", ip |-> ip,
                                        snap |-> snap, cap |-> 0, slot |-> FALSE]]
          /\ seen' = [seen EXCEPT ![q] = Facts(ip, banned, allow, licensed)]
  BY DEF Arrive
<1>u. /\ UNCHANGED <<snap, allow, licensed, cap, reload, reloads, roof, banned, active, tarpit>>
      /\ req[q] = NotArrived /\ Bump({"total"})
  BY DEF Arrive, shared
<1> DEFINE x == [at |-> "license", out |-> "none", ip |-> ip,
                 snap |-> snap, cap |-> 0, slot |-> FALSE]
<1>0. TypeOK /\ seen \in [Reqs -> SUBSET {"free", "unlisted", "licensed"}]
  BY DEF GuardInv, TypeOK
<1>2. x \in Request
  BY <1>0 DEF TypeOK, Request, Modes, Outs, Places, Over, Caps
<1>3. /\ \A r \in Reqs : req'[r] = IF r = q THEN x ELSE req[r]
      /\ \A r \in Reqs : seen'[r] = IF r = q THEN Facts(ip, banned, allow, licensed)
                                    ELSE seen[r]
  BY <1>0, <1>1, ReqType
<1>4. TypeOK'
  <2>1. req' \in [Reqs -> {NotArrived} \cup Request]
    BY <1>0, <1>1, <1>2, ReqType
  <2>2. count' \in [Counters -> Nat]
    BY <1>0, <1>u, BumpType
  <2>3. seen' \in [Reqs -> SUBSET {"free", "unlisted", "licensed"}]
    BY <1>0, <1>1 DEF Facts
  <2> QED BY <1>0, <1>u, <2>1, <2>2, <2>3 DEF TypeOK, Request, Modes, Outs
<1>5. Current'
  BY <1>u, <1>3 DEF GuardInv, Current, UnderWay, Facts
<1>6. AllSound'
  <2> SUFFICES ASSUME NEW r \in Reqs, req'[r].at # "new" PROVE Sound(req[r], seen[r])'
    BY DEF AllSound
  <2>1. CASE r = q
    BY <1>u, <1>3, <2>1 DEF Sound, UnderRoof, MidWay, PastBanCheck, Undecided, Places, Over,
                            Served, Refused
  <2>2. CASE r # q
    <3>1. req'[r] = req[r] /\ seen'[r] = seen[r] /\ Sound(req[r], seen[r])
      BY <1>3, <2>2, Standing
    <3> QED BY <1>u, <3>1 DEF Sound, UnderRoof
  <2> QED BY <2>1, <2>2
<1>7. SlotsMatch'
  <2>1. /\ \A p : Holding(p)' = Holding(p)
        /\ Guests' = Guests
    BY <1>u, <1>3 DEF Holding, Guests, NotArrived
  <2> QED BY <1>u, <2>1 DEF GuardInv, SlotsMatch
<1> QED BY <1>u, <1>4, <1>5, <1>6, <1>7 DEF GuardInv, UnderRoof

\* What other goroutines do around the requests keeps the invariant.
LEMMA EnvironmentStep ==
    ASSUME GuardInv,
           \/ SetLicensed
           \/ \E ip \in IPs : BanElsewhere(ip) \/ Lift(ip)
           \/ ReloadAllowlist \/ ReloadCap \/ ReloadSwap
    PROVE  GuardInv'
<1>0. TypeOK
  BY DEF GuardInv
<1>1. CASE SetLicensed
  BY <1>0, <1>1, Around DEF SetLicensed, GuardInv, TypeOK, shared
<1>2. ASSUME NEW ip \in IPs, BanElsewhere(ip) \/ Lift(ip) PROVE GuardInv'
  <2>1. banned' \in SUBSET IPs
    BY <1>0, <1>2, BlockType DEF BanElsewhere, Lift, TypeOK
  <2> QED BY <1>0, <1>2, <2>1, Around DEF BanElsewhere, Lift, GuardInv, TypeOK, shared
<1>3. CASE ReloadAllowlist
  <2>1. PICK p \in Policies : reload' = [at |-> "cap", p |-> p] /\ allow' = p.allow
    BY <1>3 DEF ReloadAllowlist
  <2>2. allow' \in SUBSET IPs /\ reload' \in [at : {"cap", "swap"}, p : Policies]
    BY <2>1, PolicyAssumption
  <2>3. reloads' \in 0..MaxReloads
    BY <1>0, <1>3, BoundAssumption DEF ReloadAllowlist, TypeOK
  <2>4. Look(banned', allow', licensed') /\ req' = req
        /\ UNCHANGED <<snap, cap, roof, banned, licensed, active, tarpit, count>>
    BY <1>3 DEF ReloadAllowlist
  <2>5. Current' /\ AllSound' /\ UnderRoof(cap)' /\ SlotsMatch'
           /\ seen' \in [Reqs -> SUBSET {"free", "unlisted", "licensed"}]
    BY <2>4, Around
  <2>6. TypeOK'
    BY <1>0, <2>2, <2>3, <2>4, <2>5 DEF TypeOK
  <2> QED BY <2>5, <2>6 DEF GuardInv
<1>4. CASE ReloadCap
  <2>1. /\ reload.at = "cap" /\ cap' = reload.p.cap
        /\ roof' = IF roof = 0 \/ cap' = 0 THEN 0 ELSE IF cap' > roof THEN cap' ELSE roof
        /\ reload' = [reload EXCEPT !.at = "swap"]
        /\ UNCHANGED <<snap, allow, reloads, banned, licensed, active, tarpit, count, req, seen>>
    BY <1>4 DEF ReloadCap
  <2>2. reload \in [at : {"cap", "swap"}, p : Policies]
    BY <1>0, <2>1 DEF TypeOK, NoReload
  <2>3. cap' \in Caps /\ reload' \in [at : {"cap", "swap"}, p : Policies]
    BY <2>1, <2>2 DEF Caps
  <2>n. Caps \subseteq Nat /\ roof \in Caps
    BY <1>0, PolicyAssumption DEF Caps, TypeOK
  <2>4. roof' \in Caps /\ UnderRoof(cap)'
    BY <2>1, <2>3, <2>n DEF Caps, UnderRoof
  <2>5. \A c \in Caps : UnderRoof(c) => UnderRoof(c)'
    BY <2>1, <2>3, <2>n DEF UnderRoof
  <2>6. Current'
    BY <2>1 DEF GuardInv, Current, UnderWay, Facts
  <2>7. AllSound'
    <3> SUFFICES ASSUME NEW q \in Reqs, req[q].at # "new" PROVE Sound(req[q], seen[q])'
      BY <2>1 DEF AllSound
    <3>1. req[q] \in Request /\ req[q].cap \in Caps /\ Sound(req[q], seen[q])
      BY Standing
    <3>2. UnderRoof(req[q].cap) => UnderRoof(req[q].cap)'
      BY <2>1, <2>5, <3>1 DEF UnderRoof
    <3> QED BY <2>1, <3>1, <3>2 DEF Sound
  <2>8. SlotsMatch'
    <3>1. active \in [IPs -> Nat] /\ roof' \in Nat /\ (roof' > 0 => roof > 0 /\ roof <= roof')
      BY <1>0, <2>1, <2>3, <2>4, <2>n DEF TypeOK
    <3>2. roof' > 0 => \A ip \in IPs : active'[ip] <= roof'
      BY <2>1, <2>n, <3>1 DEF GuardInv, SlotsMatch
    <3> QED BY <2>1, <3>2 DEF GuardInv, SlotsMatch, Holding, Guests
  <2>9. TypeOK'
    BY <1>0, <2>1, <2>3, <2>4 DEF TypeOK
  <2> QED BY <2>4, <2>6, <2>7, <2>8, <2>9 DEF GuardInv
<1>5. CASE ReloadSwap
  <2>1. /\ reload.at = "swap" /\ snap' = SnapshotOf(reload.p) /\ reload' = NoReload
        /\ UNCHANGED <<allow, cap, roof, reloads, banned, licensed, active, tarpit,
                       count, req, seen>>
    BY <1>5 DEF ReloadSwap
  <2>2. reload \in [at : {"cap", "swap"}, p : Policies]
    BY <1>0, <2>1 DEF TypeOK, NoReload
  <2>3. snap' \in [dry : BOOLEAN, tarpit : BOOLEAN, body : BOOLEAN]
    BY <2>1, <2>2, PolicyAssumption DEF SnapshotOf
  <2>4. TypeOK'
    BY <1>0, <2>1, <2>3 DEF TypeOK
  <2> QED BY <2>1, <2>4 DEF GuardInv, Current, AllSound, Sound, UnderRoof, UnderWay, Facts,
                            SlotsMatch, Holding, Guests
<1> QED BY <1>1, <1>2, <1>3, <1>4, <1>5

\* GuardInv is an invariant of the pipeline.
LEMMA Invariance == Spec => []GuardInv
<1>1. Init => GuardInv
  <2> SUFFICES ASSUME Init PROVE GuardInv
    OBVIOUS
  <2>1. /\ FirstPolicy \in [dry : BOOLEAN, tarpit : BOOLEAN, body : BOOLEAN, cap : Nat,
                            allow : SUBSET IPs]
        /\ FirstPolicy.cap \in Caps
    BY PolicyAssumption DEF Caps
  <2>2. TypeOK
    BY <2>1, BoundAssumption DEF Init, TypeOK, SnapshotOf
  <2>3. \A q \in Reqs : req[q].at = "new"
    BY DEF Init, NotArrived
  <2>4. Current /\ AllSound
    BY <2>3 DEF Current, AllSound, UnderWay
  <2>5. UnderRoof(cap)
    BY <2>1 DEF Init, UnderRoof
  <2>6. SlotsMatch
    <3>1. (\A ip : Holding(ip) = {}) /\ Guests = {}
      BY <2>3 DEF Holding, Guests
    <3>2. active = [ip \in IPs |-> 0] /\ tarpit = 0 /\ roof \in Nat
      BY <2>1 DEF Init
    <3>3. \A ip \in IPs : active[ip] = 0
      BY <3>2
    <3> QED BY <3>1, <3>2, <3>3, FS_EmptySet DEF SlotsMatch
  <2> QED BY <2>2, <2>4, <2>5, <2>6 DEF GuardInv
<1>2. GuardInv /\ [Next]_vars => GuardInv'
  <2> SUFFICES ASSUME GuardInv, [Next]_vars PROVE GuardInv'
    OBVIOUS
  <2>1. CASE UNCHANGED vars
    BY <2>1 DEF vars, GuardInv, TypeOK, Current, AllSound, Sound, UnderRoof, UnderWay, Facts,
                SlotsMatch, Holding, Guests
  <2> QED BY <2>1, HandleStep, ArriveStep, EnvironmentStep DEF Next
<1> QED BY <1>1, <1>2, PTL DEF Spec

\* Every reachable state of the pipeline is well typed.
THEOREM TypeCorrect == Spec => []TypeOK
<1>1. GuardInv => TypeOK
  BY DEF GuardInv
<1> QED BY <1>1, Invariance, PTL

\* connlimit's map and the tarpit channel keep exact books and the cap holds,
\* for any number of requests, addresses, caps and reloads.
THEOREM BooksBalance == Spec => []SlotsMatch
<1>1. GuardInv => SlotsMatch
  BY DEF GuardInv
<1> QED BY <1>1, Invariance, PTL

\* Nobody who was banned all the while is served, and nobody without a
\* license, whatever changes under a request.
THEOREM ServedJustly == Spec => []ServedRightly
<1>1. GuardInv => ServedRightly
  <2> SUFFICES ASSUME GuardInv, NEW q \in Reqs
               PROVE  /\ req[q].out = "allowed" /\ ~req[q].snap.dry => "free" \in seen[q]
                      /\ LicenseEnforced /\ req[q].out \in Served => "licensed" \in seen[q]
    BY DEF ServedRightly, NoBannedServed, KillSwitch
  <2>1. CASE req[q].at = "new"
    <3>1. req[q] = NotArrived
      BY <2>1, ReqType DEF GuardInv, Request, Places, Over
    <3> QED BY <3>1 DEF NotArrived, Served
  <2>2. CASE req[q].at # "new"
    <3>1. Sound(req[q], seen[q])
      BY <2>2, Standing
    <3> QED BY <3>1 DEF Sound, Served, Undecided, Places, Over
  <2> QED BY <2>1, <2>2
<1> QED BY <1>1, Invariance, PTL

\* Nobody who was allowlisted all the while is refused by anything but the
\* license gate and the body cap, dry-run refuses nobody by anything else
\* either, and the body cap cuts off only what was served under a snapshot
\* that sets one.
THEOREM RefusedJustly == Spec => []RefusedRightly
<1>1. GuardInv => RefusedRightly
  <2> SUFFICES ASSUME GuardInv, NEW q \in Reqs
               PROVE  /\ req[q].out \in Refused \ {"unlicensed"} => "unlisted" \in seen[q]
                      /\ req[q].at # "new" /\ req[q].snap.dry
                            => req[q].out \in {"none", "unlicensed"} \cup Served
                      /\ req[q].at = "cut" => req[q].out \in Served /\ req[q].snap.body
    BY DEF RefusedRightly
  <2>1. CASE req[q].at = "new"
    <3>1. req[q] = NotArrived
      BY <2>1, ReqType DEF GuardInv, Request, Places, Over
    <3> QED BY <2>1, <3>1 DEF NotArrived, Refused
  <2>2. CASE req[q].at # "new"
    <3>1. Sound(req[q], seen[q])
      BY <2>2, Standing
    <3> QED BY <3>1 DEF Sound
  <2> QED BY <2>1, <2>2
<1> QED BY <1>1, Invariance, PTL

----------------------------------------------------------------------------
(* The counters the monitor reads. *)

\* The counters that CountedOnce adds up.
Weight == count["allowed"] + Blocked + count["challenged"]
Answered == {q \in Reqs : req[q].out # "none"}
AllHard == \A q \in Reqs : req[q].at # "new" => ~req[q].snap.dry

\* A step counts at most one counter, and one only for a request it decides.
Tallied(q) ==
    \/ Weight' = Weight /\ (req[q].out # "none" => req'[q].out # "none")
    \/ Weight' = Weight + 1 /\ req[q].out = "none" /\ req'[q].out # "none"

\* What counting S adds to the sum.
LEMMA BumpWeight ==
    ASSUME TypeOK, NEW S, Bump(S)
    PROVE  /\ S \cap {"allowed", "banned", "perip", "global", "conn", "fp", "challenged"} = {}
                 => Weight' = Weight
           /\ \A m \in {"allowed", "banned", "perip", "global", "conn", "fp", "challenged"} :
                 S = {m} => Weight' = Weight + 1
<1>1. \A m \in Counters : count[m] \in Nat /\ count'[m] = count[m] + (IF m \in S THEN 1 ELSE 0)
  BY DEF TypeOK, Bump
<1>2. {"allowed", "banned", "perip", "global", "conn", "fp", "challenged"} \subseteq Counters
  BY DEF Counters
<1>3. /\ count'["allowed"] = count["allowed"] + (IF "allowed" \in S THEN 1 ELSE 0)
      /\ count'["banned"] = count["banned"] + (IF "banned" \in S THEN 1 ELSE 0)
      /\ count'["perip"] = count["perip"] + (IF "perip" \in S THEN 1 ELSE 0)
      /\ count'["global"] = count["global"] + (IF "global" \in S THEN 1 ELSE 0)
      /\ count'["conn"] = count["conn"] + (IF "conn" \in S THEN 1 ELSE 0)
      /\ count'["fp"] = count["fp"] + (IF "fp" \in S THEN 1 ELSE 0)
      /\ count'["challenged"] = count["challenged"] + (IF "challenged" \in S THEN 1 ELSE 0)
  BY <1>1, <1>2
<1>4. /\ count["allowed"] \in Nat /\ count["banned"] \in Nat /\ count["perip"] \in Nat
      /\ count["global"] \in Nat /\ count["conn"] \in Nat /\ count["fp"] \in Nat
      /\ count["challenged"] \in Nat
  BY <1>1, <1>2
<1> QED BY <1>3, <1>4 DEF Weight, Blocked

\* A check that decides counts at most the one counter it is given.
LEMMA DenyTallied ==
    ASSUME GuardInv, NEW q \in Reqs, req[q].at \in Checks, ~req[q].snap.dry,
           NEW next \in Places, NEW at \in Places, NEW out \in Refused, NEW always, NEW enforced,
           \/ always \cup enforced = {}
           \/ \E m \in {"banned", "perip", "global", "conn", "fp", "challenged"} :
                 always \cup enforced = {m},
           Pass(q, next) \/ Deny(q, next, at, out, always, enforced)
    PROVE  Tallied(q)
<1>0. req[q] \in Request /\ Sound(req[q], seen[q]) /\ TypeOK
  BY Standing DEF GuardInv, Checks
<1>1. req[q].out = "none"
  BY <1>0 DEF Sound, Checks, Undecided, Places, Over
<1>2. CASE Pass(q, next)
  <2>1. count' = count
    BY <1>2 DEF Pass
  <2>2. Weight' = Weight
    BY <2>1 DEF Weight, Blocked
  <2> QED BY <1>1, <2>2 DEF Tallied
<1>3. CASE Deny(q, next, at, out, always, enforced)
  <2>1. Moves(q, at, out, req[q].cap, req[q].slot) /\ Bump(always \cup enforced)
    BY <1>0, <1>3, DenyMoves
  <2>2. req'[q].out # "none"
    BY <1>0, <2>1, ReqType DEF Moves, Refused
  <2>3. Weight' = Weight \/ Weight' = Weight + 1
    BY <1>0, <2>1, BumpWeight
  <2> QED BY <1>1, <2>2, <2>3 DEF Tallied
<1> QED BY <1>2, <1>3

\* Every handler step outside dry-run counts rightly.
LEMMA HandleTallied ==
    ASSUME GuardInv, NEW q \in Reqs, Handle(q), ~req[q].snap.dry
    PROVE  Tallied(q)
<1>n. req[q].at # "new"
  BY DEF Handle, LicenseGate, Allowlist, Denylist, Fingerprint, Rule, BanCheck,
         BadUserAgent, ChallengeGate, GlobalLimit, PerIPLimit, IssueBan, ReadCap,
         Acquire, Serve, Respond, Block, LeaveTarpit
<1>0. req[q] \in Request /\ Sound(req[q], seen[q]) /\ TypeOK
  BY <1>n, Standing DEF GuardInv
<1>p. {"fp", "rule", "banned", "ua", "challenge", "global", "perip", "cap", "serve",
       "block", "done", "issue", "serving", "allow", "deny"} \subseteq Places
  BY DEF Places, Over
<1>k. {"deny", "fp", "rule", "banned", "ua", "challenge", "global", "perip", "acquire"}
          \subseteq Checks
  BY DEF Checks
<1>r. {"denylist", "fingerprint", "rule", "banned", "badua", "challenged", "busy",
       "ratelimited", "conncap"} \subseteq Refused
  BY DEF Refused
<1>e. ASSUME NEW at \in Places, NEW out, End(q, at, out), Weight' = Weight,
             out # "none" \/ req[q].out = "none"
      PROVE  Tallied(q)
  <2>1. Moves(q, at, out, req[q].cap, req[q].slot)
    BY <1>0, <1>e, EndMoves
  <2>2. req'[q].out = out
    BY <1>0, <2>1, ReqType DEF Moves
  <2> QED BY <1>e, <2>2 DEF Tallied
<1>w. count' = count => Weight' = Weight
  BY DEF Weight, Blocked
<1>k2. ASSUME NEW at, NEW c, NEW s, Moves(q, at, req[q].out, c, s), Weight' = Weight
       PROVE  Tallied(q)
  <2>1. req'[q].out = req[q].out
    BY <1>0, <1>k2, ReqType DEF Moves
  <2> QED BY <1>k2, <2>1 DEF Tallied
<1>1. CASE LicenseGate(q)
  <2>1. req[q].out = "none"
    BY <1>0, <1>1 DEF LicenseGate, Sound, Undecided, Places, Over
  <2> QED BY <1>1, <1>e, <1>p, <1>w, <2>1 DEF LicenseGate
<1>2. CASE Allowlist(q)
  <2>1. req[q].out = "none"
    BY <1>0, <1>2 DEF Allowlist, Sound, Undecided, Places, Over
  <2> QED BY <1>2, <1>e, <1>p, <1>w, <2>1 DEF Allowlist
<1>3. CASE Denylist(q)
  <2>1. req[q].at = "deny" /\ (Pass(q, "fp") \/ Deny(q, "fp", "block", "denylist", {}, {}))
    BY <1>3 DEF Denylist
  <2> QED BY <1>k, <1>p, <1>r, <2>1, DenyTallied
<1>4. CASE Fingerprint(q)
  <2>1. /\ req[q].at = "fp"
        /\ Pass(q, "rule") \/ Deny(q, "rule", "block", "fingerprint", {}, {"fp"})
    BY <1>4 DEF Fingerprint
  <2> QED BY <1>k, <1>p, <1>r, <2>1, DenyTallied
<1>5. CASE Rule(q)
  <2>1. req[q].at = "rule"
    BY <1>5 DEF Rule
  <2>2. \/ Pass(q, "banned") \/ Deny(q, "banned", "block", "rule", {}, {})
        \/ End(q, "serving", "ruleallow") /\ count' = count
    BY <1>5 DEF Rule
  <2>3. CASE End(q, "serving", "ruleallow") /\ count' = count
    BY <1>e, <1>p, <1>w, <2>3
  <2>4. CASE Pass(q, "banned") \/ Deny(q, "banned", "block", "rule", {}, {})
    <3>1. "rule" \in Checks /\ "banned" \in Places /\ "block" \in Places /\ "rule" \in Refused
      BY <1>k, <1>p, <1>r
    <3>2. {} \cup {} = {}
      OBVIOUS
    <3> QED BY <2>1, <2>4, <3>1, <3>2, DenyTallied
  <2> QED BY <2>2, <2>3, <2>4
<1>6. CASE BanCheck(q)
  <2>1. /\ req[q].at = "banned"
        /\ Pass(q, "ua") \/ Deny(q, "ua", "block", "banned", {}, {"banned"})
    BY <1>6 DEF BanCheck
  <2> QED BY <1>k, <1>p, <1>r, <2>1, DenyTallied
<1>7. CASE BadUserAgent(q)
  <2>1. /\ req[q].at = "ua"
        /\ Pass(q, "challenge") \/ Deny(q, "challenge", "block", "badua", {}, {})
    BY <1>7 DEF BadUserAgent
  <2> QED BY <1>k, <1>p, <1>r, <2>1, DenyTallied
<1>8. CASE ChallengeGate(q)
  <2>1. /\ req[q].at = "challenge"
        /\ Pass(q, "global") \/ Deny(q, "global", "done", "challenged", {"challenged"}, {})
    BY <1>8 DEF ChallengeGate
  <2> QED BY <1>k, <1>p, <1>r, <2>1, DenyTallied
<1>9. CASE GlobalLimit(q)
  <2>1. /\ req[q].at = "global"
        /\ Pass(q, "perip") \/ Deny(q, "perip", "done", "busy", {"global"}, {})
    BY <1>9 DEF GlobalLimit
  <2> QED BY <1>k, <1>p, <1>r, <2>1, DenyTallied
<1>10. CASE PerIPLimit(q)
  <2>1. /\ req[q].at = "perip"
        /\ Pass(q, "cap") \/ Deny(q, "cap", "issue", "ratelimited", {"perip"}, {})
    BY <1>10 DEF PerIPLimit
  <2> QED BY <1>k, <1>p, <1>r, <2>1, DenyTallied
<1>11. CASE IssueBan(q)
  <2>1. End(q, "done", "ratelimited") /\ Bump({"bans"})
    BY <1>11 DEF IssueBan
  <2>2. Weight' = Weight
    BY <1>0, <2>1, BumpWeight
  <2> QED BY <1>e, <1>p, <2>1, <2>2
<1>12. CASE ReadCap(q)
  <2>1. Moves(q, "acquire", req[q].out, cap, req[q].slot) /\ count' = count
    BY <1>0, <1>12, CapMoves DEF ReadCap, Places, Over
  <2> QED BY <1>k2, <1>w, <2>1
<1>13. CASE Acquire(q)
  <2>1. req[q].at = "acquire"
    BY <1>13 DEF Acquire
  <2>2. CASE Reserve(q)
    <3>1. Moves(q, "serve", req[q].out, req[q].cap, TRUE) /\ count' = count
      BY <1>0, <2>2, SlotMoves DEF Reserve, Places, Over
    <3> QED BY <1>k2, <1>w, <3>1
  <2>3. CASE Deny(q, "serve", "done", "conncap", {"conn"}, {})
    BY <1>k, <1>p, <1>r, <2>1, <2>3, DenyTallied
  <2> QED BY <1>13, <2>2, <2>3 DEF Acquire
<1>14. CASE Serve(q)
  <2>1. req[q].at = "serve" /\ End(q, "serving", "allowed") /\ Bump({"allowed"})
    BY <1>14 DEF Serve
  <2>2. req[q].out = "none"
    BY <1>0, <2>1 DEF Sound, Undecided, Places, Over
  <2>3. Moves(q, "serving", "allowed", req[q].cap, req[q].slot)
    BY <1>0, <1>p, <2>1, EndMoves
  <2>4. req'[q].out = "allowed"
    BY <1>0, <2>3, ReqType DEF Moves
  <2>5. Weight' = Weight + 1
    BY <1>0, <2>1, BumpWeight
  <2> QED BY <2>2, <2>4, <2>5 DEF Tallied
<1>15. CASE Respond(q)
  <2>1. PICK end \in Over : req' = [req EXCEPT ![q].at = end, ![q].slot = FALSE]
    BY <1>15 DEF Respond, Over
  <2>2. Moves(q, end, req[q].out, req[q].cap, FALSE) /\ count' = count
    BY <1>0, <1>15, <2>1, SlotMoves DEF Respond, Places, Over
  <2> QED BY <1>k2, <1>w, <2>2
<1>16. CASE Block(q)
  <2>1. PICK at : req' = [req EXCEPT ![q].at = at]
    BY <1>16 DEF Block
  <2>2. Moves(q, at, req[q].out, req[q].cap, req[q].slot)
    BY <1>0, <2>1, PlaceMoves
  <2>3. Weight' = Weight
    BY <1>0, <1>16, <1>w, BumpWeight DEF Block
  <2> QED BY <1>k2, <2>2, <2>3
<1>17. CASE LeaveTarpit(q)
  <2>1. Moves(q, "done", req[q].out, req[q].cap, req[q].slot) /\ count' = count
    BY <1>0, <1>17, PlaceMoves DEF LeaveTarpit
  <2> QED BY <1>k2, <1>w, <2>1
<1> QED BY <1>1, <1>2, <1>3, <1>4, <1>5, <1>6, <1>7, <1>8, <1>9, <1>10, <1>11, <1>12,
           <1>13, <1>14, <1>15, <1>16, <1>17 DEF Handle

\* The sum moves no faster than the requests that are decided.
LEMMA TallyStep == GuardInv /\ CountedOnce /\ [Next]_vars => CountedOnce'
<1> SUFFICES ASSUME GuardInv, CountedOnce, [Next]_vars, AllHard'
             PROVE  Weight' <= Cardinality(Answered')
  BY DEF CountedOnce, AllHard, Weight, Blocked, Answered
<1>0. TypeOK /\ req \in [Reqs -> {NotArrived} \cup Request]
  BY ReqType DEF GuardInv
<1>f. /\ IsFiniteSet(Answered) /\ Cardinality(Answered) \in Nat
      /\ IsFiniteSet(Answered') /\ Cardinality(Answered') \in Nat
  <2>1. Answered \subseteq Reqs /\ Answered' \subseteq Reqs
    BY DEF Answered
  <2> QED BY <2>1, FiniteAssumption, FS_Subset, FS_CardinalityType
<1>w. Weight \in Int
  <2>1. {"allowed", "banned", "perip", "global", "conn", "fp", "challenged"} \subseteq Counters
    BY DEF Counters
  <2> QED BY <1>0, <2>1 DEF TypeOK, Weight, Blocked
<1>h. AllHard => Weight <= Cardinality(Answered)
  BY DEF CountedOnce, AllHard, Weight, Blocked, Answered
<1>1. ASSUME NEW q \in Reqs, Handle(q) PROVE Weight' <= Cardinality(Answered')
  <2>n. req[q].at # "new"
    BY <1>1 DEF Handle, LicenseGate, Allowlist, Denylist, Fingerprint, Rule, BanCheck,
           BadUserAgent, ChallengeGate, GlobalLimit, PerIPLimit, IssueBan, ReadCap,
           Acquire, Serve, Respond, Block, LeaveTarpit
  <2>1. PICK x \in Request : req' = [req EXCEPT ![q] = x] /\ x.snap = req[q].snap
    BY <1>1, HandleAdvances DEF Advance
  <2>2. \A r \in Reqs : req'[r] = IF r = q THEN x ELSE req[r]
    BY <1>0, <2>1
  <2>3. AllHard /\ ~req[q].snap.dry
    <3>1. x.at # "new"
      BY DEF Request, Places, Over
    <3> QED BY <2>1, <2>2, <2>n, <3>1 DEF AllHard
  <2>4. Tallied(q)
    BY <1>1, <2>3, HandleTallied
  <2>5. CASE Weight' = Weight /\ (req[q].out # "none" => req'[q].out # "none")
    <3>1. Answered \subseteq Answered'
      BY <2>2, <2>5 DEF Answered
    <3>2. Cardinality(Answered) <= Cardinality(Answered')
      BY <1>f, <3>1, FS_Subset
    <3> QED BY <1>f, <1>h, <1>w, <2>3, <2>5, <3>2
  <2>6. CASE Weight' = Weight + 1 /\ req[q].out = "none" /\ req'[q].out # "none"
    <3>1. Answered' = Answered \cup {q} /\ q \notin Answered
      BY <2>2, <2>6 DEF Answered
    <3>2. Cardinality(Answered') = Cardinality(Answered) + 1
      BY <1>f, <3>1, FS_AddElement
    <3> QED BY <1>f, <1>h, <1>w, <2>3, <2>6, <3>2
  <2> QED BY <2>4, <2>5, <2>6 DEF Tallied
<1>2. ASSUME NEW q \in Reqs, Arrive(q) PROVE Weight' <= Cardinality(Answered')
  <2>1. PICK ip \in IPs : req' = [req EXCEPT ![q] =
            [at |-> "license", out |-> "none", ip |-> ip, snap |-> snap, cap |-> 0,
             slot |-> FALSE]]
    BY <1>2 DEF Arrive
  <2>2. req[q] = NotArrived /\ Bump({"total"})
    BY <1>2 DEF Arrive
  <2>3. Answered' = Answered
    BY <1>0, <2>1, <2>2 DEF Answered, NotArrived
  <2>4. AllHard
    BY <1>0, <2>1, <2>2 DEF AllHard, NotArrived
  <2>5. Weight' = Weight
    BY <1>0, <2>2, BumpWeight
  <2> QED BY <1>h, <2>3, <2>4, <2>5
<1>3. ASSUME req' = req, count' = count PROVE Weight' <= Cardinality(Answered')
  BY <1>h, <1>3 DEF AllHard, Weight, Blocked, Answered
<1> QED BY <1>1, <1>2, <1>3
        DEF Next, SetLicensed, BanElsewhere, Lift, ReloadAllowlist, ReloadCap, ReloadSwap, vars

\* Outside dry-run the monitor's counters never add up to more than the
\* requests that were decided, for any number of requests in flight.
THEOREM CountedAtMostOnce == Spec => []CountedOnce
<1>1. Init => CountedOnce
  <2> SUFFICES ASSUME Init PROVE Weight <= Cardinality(Answered)
    BY DEF CountedOnce, Weight, Blocked, Answered
  <2>1. {"allowed", "banned", "perip", "global", "conn", "fp", "challenged"} \subseteq Counters
    BY DEF Counters
  <2>2. Weight = 0
    BY <2>1 DEF Init, Weight, Blocked
  <2>3. Answered = {}
    BY DEF Init, Answered, NotArrived
  <2> QED BY <2>2, <2>3, FS_EmptySet
<1> QED BY <1>1, TallyStep, Invariance, PTL DEF Spec

============================================================================
