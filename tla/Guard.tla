------------------------------- MODULE Guard -------------------------------
(***************************************************************************)
(* The request pipeline of Guard.Wrap: many handler goroutines run it at    *)
(* once against the policy snapshot each of them captured on entry and      *)
(* against what they share: the license flag, the allowlist and ban table,  *)
(* the connection limiter and the tarpit slots.  A reload changes the       *)
(* shared parts and the snapshot while requests are half way through.       *)
(*                                                                          *)
(* What a request looks like to a check that reads nothing shared (a        *)
(* denylist, a fingerprint, a rule, a User-Agent, a clearance cookie) and   *)
(* what a rate limiter answers are choices; PerIPLimiter and GlobalLimiter  *)
(* say which answers a limiter gives, HotReload how reloads overlap; the    *)
(* ban table is BanTable, which BanList implements.                         *)
(***************************************************************************)
EXTENDS Integers, FiniteSets

CONSTANTS
    IPs, Reqs,
    Policies,           \* what a reload sets: [dry, tarpit, body, cap, allow]
    FirstPolicy,        \* the policy of the start
    LicenseEnforced,    \* EnforceLicense was called
    TarpitMax,          \* capacity of the tarpit channel
    MaxReloads          \* bound: reloads

ASSUME FiniteAssumption == IsFiniteSet(Reqs)
ASSUME PolicyAssumption ==
    /\ Policies \subseteq [dry : BOOLEAN, tarpit : BOOLEAN, body : BOOLEAN, cap : Nat,
                           allow : SUBSET IPs]
    /\ FirstPolicy \in Policies
ASSUME BoundAssumption ==
    LicenseEnforced \in BOOLEAN /\ TarpitMax \in Nat /\ MaxReloads \in Nat

VARIABLES
    snap,       \* Guard.snap: [dry, tarpit, body]; body: MaxBodyBytes > 0
    allow,      \* banlist.Store.allowNets
    banned,     \* IPs the ban table holds with a ban that has not run out
    licensed,   \* Guard.licensed
    cap,        \* connlimit.Limiter.max; 0 is unlimited
    active,     \* connlimit.Limiter.active; 0 where the map has no entry
    tarpit,     \* len(Guard.tarpit)
    count,      \* the metrics counters
    req,        \* req[q]: where q is, its snapshot, its outcome
    reload,     \* progress of the reload under way
    reloads,    \* reloads begun
    seen,       \* history: what held at some moment while q was under way
    roof        \* history: the highest cap so far, 0 once it was unlimited

shared == <<snap, allow, cap, reload, reloads, roof>>
vars == <<snap, allow, banned, licensed, cap, active, tarpit, count, req,
          reload, reloads, seen, roof>>

Counters == {"total", "allowed", "banned", "perip", "global", "conn", "bans",
             "challenged", "would", "tarpitted", "fp"}

Served  == {"allowed", "allowlisted", "ruleallow"}
Refused == {"unlicensed", "denylist", "fingerprint", "rule", "banned", "badua",
            "challenged", "busy", "ratelimited", "conncap"}

\* The ban table, as BanList implements it.
Bans == INSTANCE BanTable WITH blocked <- banned, past <- IPs

SnapshotOf(p) == [dry |-> p.dry, tarpit |-> p.tarpit, body |-> p.body]
NoReload == [at |-> "none"]
NotArrived == [at |-> "new", out |-> "none"]
Over == {"done", "cut"}
UnderWay(q) == req[q].at \notin {"new"} \cup Over

IsAllowed(ip) == ip \in allow
IsBanned(ip) == ~IsAllowed(ip) /\ ip \in banned

\* What is true of ip in a state with ban table b, allowlist a, license l.
Facts(ip, b, a, l) ==
    (IF ip \in b \ a THEN {} ELSE {"free"})
    \cup (IF ip \in a THEN {} ELSE {"unlisted"})
    \cup (IF l THEN {"licensed"} ELSE {})
Look(b, a, l) ==
    seen' = [q \in Reqs |-> IF UnderWay(q) THEN seen[q] \cup Facts(req[q].ip, b, a, l)
                            ELSE seen[q]]

----------------------------------------------------------------------------
Init ==
    /\ snap = SnapshotOf(FirstPolicy)
    /\ allow = FirstPolicy.allow
    /\ banned = {}
    /\ licensed = ~LicenseEnforced
    /\ cap = FirstPolicy.cap
    /\ active = [ip \in IPs |-> 0]
    /\ tarpit = 0
    /\ count = [m \in Counters |-> 0]
    /\ req = [q \in Reqs |-> NotArrived]
    /\ reload = NoReload
    /\ reloads = 0
    /\ seen = [q \in Reqs |-> {}]
    /\ roof = FirstPolicy.cap

Bump(S) == count' = [m \in Counters |-> count[m] + (IF m \in S THEN 1 ELSE 0)]

\* The check at hand does not match: on to the next one.
Pass(q, next) == req' = [req EXCEPT ![q].at = next] /\ UNCHANGED count

End(q, at, out) == req' = [req EXCEPT ![q].at = at, ![q].out = out]

\* Guard.enforce and its callers: in dry-run the denial is counted and the
\* request goes on.  "always" is counted before enforce, "enforced" after it.
Deny(q, next, at, out, always, enforced) ==
    \/ /\ req[q].snap.dry
       /\ req' = [req EXCEPT ![q].at = next]
       /\ Bump(always \cup {"would"})
    \/ /\ ~req[q].snap.dry
       /\ End(q, at, out)
       /\ Bump(always \cup enforced)

\* A request comes in: load the snapshot, count it.
Arrive(q) ==
    /\ req[q] = NotArrived
    /\ \E ip \in IPs :
          /\ req' = [req EXCEPT ![q] = [at |-> "license", out |-> "none", ip |-> ip,
                                        snap |-> snap, cap |-> 0, slot |-> FALSE]]
          /\ seen' = [seen EXCEPT ![q] = Facts(ip, banned, allow, licensed)]
    /\ Bump({"total"})
    /\ UNCHANGED <<shared, banned, licensed, active, tarpit>>

\* 1. License gate.
LicenseGate(q) ==
    /\ req[q].at = "license"
    /\ IF LicenseEnforced /\ ~licensed THEN End(q, "done", "unlicensed")
                                       ELSE End(q, "allow", "none")
    /\ UNCHANGED <<shared, banned, licensed, active, tarpit, count, seen>>

\* 2. Allowlist short-circuit.
Allowlist(q) ==
    /\ req[q].at = "allow"
    /\ IF IsAllowed(req[q].ip) THEN End(q, "serving", "allowlisted")
                               ELSE End(q, "deny", "none")
    /\ UNCHANGED <<shared, banned, licensed, active, tarpit, count, seen>>

\* 3. Static denylist.
Denylist(q) ==
    /\ req[q].at = "deny"
    /\ Pass(q, "fp") \/ Deny(q, "fp", "block", "denylist", {}, {})
    /\ UNCHANGED <<shared, banned, licensed, active, tarpit, seen>>

\* 3a. TLS fingerprint blocklist.
Fingerprint(q) ==
    /\ req[q].at = "fp"
    /\ Pass(q, "rule") \/ Deny(q, "rule", "block", "fingerprint", {}, {"fp"})
    /\ UNCHANGED <<shared, banned, licensed, active, tarpit, seen>>

\* Set.Match: the action of the first rule whose prefix, pattern and methods
\* fit the request; "challenge" only tells the challenge gate what to do.
RuleActions == {"default", "allow", "block", "challenge"}

\* 4. Per-route rule.
Rule(q) ==
    /\ req[q].at = "rule"
    /\ \E action \in RuleActions :
          \/ action \in {"default", "challenge"} /\ Pass(q, "banned")
          \/ action = "allow" /\ End(q, "serving", "ruleallow") /\ UNCHANGED count
          \/ action = "block" /\ Deny(q, "banned", "block", "rule", {}, {})
    /\ UNCHANGED <<shared, banned, licensed, active, tarpit, seen>>

\* MUTANT: the ban check lets the denial fall through.
BanCheckUnenforced(q) ==
    /\ req[q].at = "banned"
    /\ Pass(q, "ua")
    /\ UNCHANGED <<shared, banned, licensed, active, tarpit, seen>>

\* 5. Already banned?
BanCheck(q) ==
    /\ req[q].at = "banned"
    /\ IF IsBanned(req[q].ip) THEN Deny(q, "ua", "block", "banned", {}, {"banned"})
                              ELSE Pass(q, "ua")
    /\ UNCHANGED <<shared, banned, licensed, active, tarpit, seen>>

\* 6. Bad User-Agent filter.
BadUserAgent(q) ==
    /\ req[q].at = "ua"
    /\ Pass(q, "challenge") \/ Deny(q, "challenge", "block", "badua", {}, {})
    /\ UNCHANGED <<shared, banned, licensed, active, tarpit, seen>>

\* 7. Challenge gate.
ChallengeGate(q) ==
    /\ req[q].at = "challenge"
    /\ Pass(q, "global") \/ Deny(q, "global", "done", "challenged", {"challenged"}, {})
    /\ UNCHANGED <<shared, banned, licensed, active, tarpit, seen>>

\* 8. Global ceiling.
GlobalLimit(q) ==
    /\ req[q].at = "global"
    /\ Pass(q, "perip") \/ Deny(q, "perip", "done", "busy", {"global"}, {})
    /\ UNCHANGED <<shared, banned, licensed, active, tarpit, seen>>

\* MUTANT: over budget is over budget, dry-run or not.
PerIPLimitUnchecked(q) ==
    /\ req[q].at = "perip"
    /\ Pass(q, "cap") \/ (End(q, "issue", "ratelimited") /\ Bump({"perip"}))
    /\ UNCHANGED <<shared, banned, licensed, active, tarpit, seen>>

\* 9. Per-IP budget.
PerIPLimit(q) ==
    /\ req[q].at = "perip"
    /\ Pass(q, "cap") \/ Deny(q, "cap", "issue", "ratelimited", {"perip"}, {})
    /\ UNCHANGED <<shared, banned, licensed, active, tarpit, seen>>

\* 9, continued: Store.Ban.
IssueBan(q) ==
    /\ req[q].at = "issue"
    /\ IF IsAllowed(req[q].ip) THEN UNCHANGED banned ELSE Bans!Block(req[q].ip)
    /\ End(q, "done", "ratelimited")
    /\ Bump({"bans"})
    /\ Look(banned', allow, licensed)
    /\ UNCHANGED <<shared, licensed, active, tarpit>>

\* MUTANT: the request counts as allowed before the connection cap is known.
ReadCapCounted(q) ==
    /\ req[q].at = "cap"
    /\ req' = [req EXCEPT ![q].at = "acquire", ![q].cap = cap]
    /\ Bump({"allowed"})
    /\ UNCHANGED <<shared, banned, licensed, active, tarpit, seen>>

\* 10. connlimit.Acquire reads the cap before it takes the lock ...
ReadCap(q) ==
    /\ req[q].at = "cap"
    /\ req' = [req EXCEPT ![q].at = "acquire", ![q].cap = cap]
    /\ UNCHANGED <<shared, banned, licensed, active, tarpit, count, seen>>

Reserve(q) ==
    /\ active' = [active EXCEPT ![req[q].ip] = @ + 1]
    /\ req' = [req EXCEPT ![q].at = "serve", ![q].slot = TRUE]
    /\ UNCHANGED count

\* MUTANT: off by one.
AtCapLate(q) == req[q].cap > 0 /\ active[req[q].ip] > req[q].cap

AtCap(q) == req[q].cap > 0 /\ active[req[q].ip] >= req[q].cap

\* ... and reserves a slot under it.
Acquire(q) ==
    /\ req[q].at = "acquire"
    /\ \/ ~AtCap(q) /\ Reserve(q)
       \/ /\ AtCap(q)
          /\ Deny(q, "serve", "done", "conncap", {"conn"}, {})
          /\ UNCHANGED active
    /\ UNCHANGED <<shared, banned, licensed, tarpit, seen>>

\* The request goes upstream.
Serve(q) ==
    /\ req[q].at = "serve"
    /\ End(q, "serving", "allowed")
    /\ Bump({"allowed"})
    /\ UNCHANGED <<shared, banned, licensed, active, tarpit, seen>>

\* The deferred release; deleting the map entry is setting it to 0.
Release(q) ==
    IF ~req[q].slot THEN active
    ELSE [active EXCEPT ![req[q].ip] = IF @ <= 1 THEN 0 ELSE @ - 1]

\* serve: upstream is done with the request, or, where the snapshot caps the
\* body (11.), it is cut off when it turns out too large, and the client gets
\* an error: allowlisted and dry-run requests as well.  The handler unwinds.
Respond(q) ==
    /\ req[q].at = "serving"
    /\ active' = Release(q)
    /\ \E end \in IF req[q].snap.body THEN Over ELSE {"done"} :
          req' = [req EXCEPT ![q].at = end, ![q].slot = FALSE]
    /\ UNCHANGED <<shared, banned, licensed, tarpit, count, seen>>

\* Guard.block: take a tarpit slot if one is free, else answer at once.
Block(q) ==
    /\ req[q].at = "block"
    /\ \/ /\ req[q].snap.tarpit /\ tarpit < TarpitMax
          /\ tarpit' = tarpit + 1
          /\ req' = [req EXCEPT ![q].at = "tarpit"]
          /\ Bump({"tarpitted"})
       \/ /\ ~req[q].snap.tarpit \/ tarpit = TarpitMax
          /\ req' = [req EXCEPT ![q].at = "done"]
          /\ UNCHANGED <<tarpit, count>>
    /\ UNCHANGED <<shared, banned, licensed, active, seen>>

\* MUTANT: a reload that turns the tarpit off leaves its guests in it.
LeaveTarpitWhileOn(q) ==
    /\ req[q].at = "tarpit"
    /\ snap.tarpit
    /\ tarpit' = tarpit - 1
    /\ req' = [req EXCEPT ![q].at = "done"]
    /\ UNCHANGED <<shared, banned, licensed, active, count, seen>>

\* The delay is over or the client is gone.
LeaveTarpit(q) ==
    /\ req[q].at = "tarpit"
    /\ tarpit' = tarpit - 1
    /\ req' = [req EXCEPT ![q].at = "done"]
    /\ UNCHANGED <<shared, banned, licensed, active, count, seen>>

Handle(q) ==
    \/ LicenseGate(q) \/ Allowlist(q) \/ Denylist(q) \/ Fingerprint(q) \/ Rule(q)
    \/ BanCheck(q) \/ BadUserAgent(q) \/ ChallengeGate(q) \/ GlobalLimit(q)
    \/ PerIPLimit(q) \/ IssueBan(q) \/ ReadCap(q) \/ Acquire(q) \/ Serve(q)
    \/ Respond(q) \/ Block(q) \/ LeaveTarpit(q)

----------------------------------------------------------------------------
\* The license agent reports what the control plane said.
SetLicensed ==
    /\ LicenseEnforced
    /\ licensed' = ~licensed
    /\ Look(banned, allow, licensed')
    /\ UNCHANGED <<shared, banned, active, tarpit, count, req>>

\* An operator or the fleet blocklist bans an IP; never an allowlisted one.
BanElsewhere(ip) ==
    /\ ~IsAllowed(ip)
    /\ Bans!Block(ip)
    /\ Look(banned', allow, licensed)
    /\ UNCHANGED <<shared, licensed, active, tarpit, count, req>>

\* A ban runs out or is lifted.
Lift(ip) ==
    /\ ip \in banned
    /\ banned' = banned \ {ip}
    /\ Look(banned', allow, licensed)
    /\ UNCHANGED <<shared, licensed, active, tarpit, count, req>>

\* Guard.Reload: the ban table's allowlist, ...
ReloadAllowlist ==
    /\ reload = NoReload
    /\ reloads < MaxReloads
    /\ reloads' = reloads + 1
    /\ \E p \in Policies : reload' = [at |-> "cap", p |-> p] /\ allow' = p.allow
    /\ Look(banned, allow', licensed)
    /\ UNCHANGED <<snap, cap, roof, banned, licensed, active, tarpit, count, req>>

\* ... then the connection cap, ...
ReloadCap ==
    /\ reload.at = "cap"
    /\ cap' = reload.p.cap
    /\ roof' = IF roof = 0 \/ cap' = 0 THEN 0 ELSE IF cap' > roof THEN cap' ELSE roof
    /\ reload' = [reload EXCEPT !.at = "swap"]
    /\ UNCHANGED <<snap, allow, reloads, banned, licensed, active, tarpit, count,
                   req, seen>>

\* ... then the snapshot.
ReloadSwap ==
    /\ reload.at = "swap"
    /\ snap' = SnapshotOf(reload.p)
    /\ reload' = NoReload
    /\ UNCHANGED <<allow, cap, roof, reloads, banned, licensed, active, tarpit,
                   count, req, seen>>

Next ==
    \/ \E q \in Reqs : Arrive(q) \/ Handle(q)
    \/ SetLicensed
    \/ \E ip \in IPs : BanElsewhere(ip) \/ Lift(ip)
    \/ ReloadAllowlist \/ ReloadCap \/ ReloadSwap

Spec == Init /\ [][Next]_vars

\* A handler goroutine keeps running; upstream answers, and the tarpit timer
\* fires, in the end.
FairSpec == Spec /\ \A q \in Reqs : WF_vars(Handle(q))

----------------------------------------------------------------------------
(* Properties. *)

Places == {"license", "allow", "deny", "fp", "rule", "banned", "ua", "challenge",
           "global", "perip", "issue", "cap", "acquire", "serve", "serving",
           "block", "tarpit"} \cup Over
Caps == {p.cap : p \in Policies} \cup {0}

\* Every variable has its type.
TypeOK ==
    /\ snap \in [dry : BOOLEAN, tarpit : BOOLEAN, body : BOOLEAN]
    /\ allow \in SUBSET IPs
    /\ banned \in SUBSET IPs
    /\ licensed \in BOOLEAN
    /\ cap \in Caps
    /\ active \in [IPs -> Nat]
    /\ tarpit \in 0..TarpitMax
    /\ count \in [Counters -> Nat]
    /\ req \in [Reqs -> {NotArrived} \cup
                 [at : Places, out : {"none"} \cup Served \cup Refused, ip : IPs,
                  snap : [dry : BOOLEAN, tarpit : BOOLEAN, body : BOOLEAN], cap : Caps,
                  slot : BOOLEAN]]
    /\ reload \in {NoReload} \cup [at : {"cap", "swap"}, p : Policies]
    /\ reloads \in 0..MaxReloads
    /\ seen \in [Reqs -> SUBSET {"free", "unlisted", "licensed"}]
    /\ roof \in Caps

Holding(ip) == {q \in Reqs : req[q].at \in {"serve", "serving"} /\ req[q].slot /\ req[q].ip = ip}
Guests == {q \in Reqs : req[q].at = "tarpit"}

\* connlimit and the tarpit channel keep exact books: a slot is held by a
\* request under way and given back once, however dry-run, reloads and
\* outcomes mix; and no IP has more requests upstream than the highest cap in
\* force so far, although the cap is read before the lock.
SlotsMatch ==
    /\ \A ip \in IPs : active[ip] = Cardinality(Holding(ip))
    /\ roof > 0 => \A ip \in IPs : active[ip] <= roof
    /\ tarpit = Cardinality(Guests)

\* A source that was banned during the whole of a request's way through the
\* pipeline is not served, unless by allowlist, by an allow rule or in dry-run.
NoBannedServed ==
    \A q \in Reqs : req[q].out = "allowed" /\ ~req[q].snap.dry => "free" \in seen[q]

\* The kill switch: a request is only served if the license was in order at
\* some moment while it was under way.
KillSwitch ==
    LicenseEnforced => \A q \in Reqs : req[q].out \in Served => "licensed" \in seen[q]

\* Whom the pipeline serves was to be served: not banned, and licensed, with
\* the ban table and the license changing under the request.
ServedRightly == NoBannedServed /\ KillSwitch

\* Whom the pipeline refuses was to be refused, with the allowlist and the mode
\* changing under the request.  A request whose IP stayed on the allowlist all
\* the while is refused by the license gate and by the body cap only; one that
\* entered under a dry-run snapshot bans nobody and is refused by these two
\* only; and the body cap cuts off nobody else than a request that was served
\* under a snapshot that sets one.
RefusedRightly ==
    \A q \in Reqs :
        /\ req[q].out \in Refused \ {"unlicensed"} => "unlisted" \in seen[q]
        /\ req[q].at # "new" /\ req[q].snap.dry
              => req[q].out \in {"none", "unlicensed"} \cup Served
        /\ req[q].at = "cut" => req[q].out \in Served /\ req[q].snap.body

\* main's secmon counters: what the monitor calls blocked.
Blocked == count["banned"] + count["perip"] + count["global"] + count["conn"] + count["fp"]

\* Outside dry-run the charts never add up to more than the traffic: a request
\* is counted as allowed, blocked or challenged at most once.
CountedOnce ==
    (\A q \in Reqs : req[q].at # "new" => ~req[q].snap.dry)
       => count["allowed"] + Blocked + count["challenged"]
             <= Cardinality({q \in Reqs : req[q].out # "none"})

\* Every request that came in is answered, the tarpitted ones included.
AllAnswered == \A q \in Reqs : req[q].at = "license" ~> req[q].at \in Over

(* What the documentation says and the code does not keep. *)

\* Package comment: "Allowlist -> always pass".  No request whose IP is on the
\* allowlist all the while is refused, but for a license.
AllowlistPasses ==
    \A q \in Reqs :
        req[q].out \in Refused \ {"unlicensed"} \/ req[q].at = "cut" => "unlisted" \in seen[q]

\* enforce: in dry-run "the request is allowed through untouched".
DryRunHarmless ==
    \A q \in Reqs : req[q].at # "new" /\ req[q].snap.dry
                       => /\ req[q].out \in {"none", "unlicensed"} \cup Served
                          /\ req[q].at # "cut"

\* secmon: Blocked is "banned + rate-limited + conn-capped + fingerprint +
\* bad-UA".
BlockedComplete ==
    (\A q \in Reqs : req[q].at # "new" => ~req[q].snap.dry)
       => Blocked = Cardinality({q \in Reqs : req[q].out \in
                       {"banned", "ratelimited", "busy", "conncap", "fingerprint", "badua"}})

============================================================================
