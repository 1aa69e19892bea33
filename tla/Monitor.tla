------------------------------ MODULE Monitor ------------------------------
(***************************************************************************)
(* internal/secmon: the sampler behind the security dashboard.  Requests   *)
(* bump the metrics while main's snapshot closure loads them one by one;   *)
(* a tick turns two snapshots into a sample, keeps the newest samples in a *)
(* ring and runs the detection of attack episodes.                         *)
(*                                                                         *)
(* Time is the number of ticks.  "blocked" is the sum of five counters,    *)
(* each loaded on its own: they only grow, one at a time, so the sum takes *)
(* every value in between and one load of the sum stands for the five.     *)
(* Allowed and Bans are sampled like Total and decide nothing; left out.   *)
(***************************************************************************)
EXTENDS Integers, SequencesExt

CONSTANTS
    CapN,           \* retain: samples kept in the ring
    EventCap,       \* eventCap: closed episodes kept
    AttackBlocked,  \* attackBlocked: mitigations per interval that open one
    CloseTicks,     \* exitTicks: calm intervals that close one
    Quota,          \* bound: how often each counter is bumped
    MaxTicks        \* bound: ticks

Fields == <<"total", "blocked", "challenged">>
Names == Range(Fields)

ASSUME ParamAssumption == {CapN, EventCap, AttackBlocked, CloseTicks} \subseteq Nat \ {0}
ASSUME BoundAssumption == Quota \in [Names -> Nat] /\ MaxTicks \in Nat

VARIABLES
    counter,    \* the metrics counters
    now,        \* ticks so far
    read,       \* the part of the counters the snapshot has loaded
    started,    \* Monitor.started
    prev,       \* Monitor.prev
    ring,       \* Monitor.ring
    inAttack,   \* Monitor.inAttack
    cur,        \* Monitor.cur
    calmTicks,  \* Monitor.calm
    events,     \* Monitor.events
    base,       \* history: the counters the first tick seeded
    log         \* history: every sample taken

monitor == <<started, prev, ring, inAttack, cur, calmTicks, events>>
monitorVars == <<counter, now, read, monitor, base, log>>

Zero == [f \in Names |-> 0]
NoEvent == [start |-> 0, end |-> 0, peakReqs |-> 0, peakMitigated |-> 0, totalMitigated |-> 0]

Mitigated(s) == s.blocked + s.challenged
Larger(a, b) == IF a > b THEN a ELSE b

----------------------------------------------------------------------------
\* New.
MonitorInit ==
    /\ counter = Zero
    /\ now = 0
    /\ read = <<>>
    /\ started = FALSE
    /\ prev = Zero
    /\ ring = <<>>
    /\ inAttack = FALSE
    /\ cur = NoEvent
    /\ calmTicks = 0
    /\ events = <<>>
    /\ base = Zero
    /\ log = <<>>

\* A request is counted.
Bump(f) ==
    /\ counter[f] < Quota[f]
    /\ counter' = [counter EXCEPT ![f] = @ + 1]
    /\ UNCHANGED <<now, read, monitor, base, log>>

\* The snapshot closure loads the next counter.
Load ==
    /\ now < MaxTicks
    /\ Len(read) < Len(Fields)
    /\ read' = Append(read, counter[Fields[Len(read) + 1]])
    /\ UNCHANGED <<counter, now, monitor, base, log>>

Loaded == [f \in Names |-> read[CHOOSE i \in DOMAIN Fields : Fields[i] = f]]

\* MUTANT: what came in since the snapshot began is put in the past.
SampleOfLive(c, p) == [f \in Names |-> counter[f] - p[f]]

\* The sample between two snapshots.
NonNeg(v) == IF v < 0 THEN 0 ELSE v
SampleOf(c, p) == [f \in Names |-> NonNeg(c[f] - p[f])]

\* Both lists drop their oldest entry to make room.
Keep(seq, x, cap) == Append(IF Len(seq) >= cap THEN Tail(seq) ELSE seq, x)

\* Monitor.detect, not in attack.
Open(s, t) ==
    /\ IF Mitigated(s) >= AttackBlocked
       THEN /\ inAttack' = TRUE
            /\ calmTicks' = 0
            /\ cur' = [start |-> t, end |-> 0, peakReqs |-> s.total,
                       peakMitigated |-> Mitigated(s), totalMitigated |-> Mitigated(s)]
       ELSE UNCHANGED <<inAttack, calmTicks, cur>>
    /\ UNCHANGED events

Tracked(e, s) ==
    [e EXCEPT !.peakReqs = Larger(@, s.total),
              !.peakMitigated = Larger(@, Mitigated(s)),
              !.totalMitigated = @ + Mitigated(s)]

\* MUTANT: an attack that flares up does not start the count of calm ticks anew.
TrackForgetful(s, t) ==
    LET e == Tracked(cur, s)
        n == IF Mitigated(s) < AttackBlocked THEN calmTicks + 1 ELSE calmTicks
    IN  /\ calmTicks' = n
        /\ IF Mitigated(s) < AttackBlocked /\ n >= CloseTicks
           THEN /\ events' = Keep(events, [e EXCEPT !.end = t], EventCap)
                /\ inAttack' = FALSE
                /\ cur' = NoEvent
           ELSE cur' = e /\ UNCHANGED <<events, inAttack>>

\* Monitor.detect, in attack, and appendEventLocked.
Track(s, t) ==
    LET e == Tracked(cur, s)
        n == IF Mitigated(s) < AttackBlocked THEN calmTicks + 1 ELSE 0
    IN  /\ calmTicks' = n
        /\ IF n >= CloseTicks
           THEN /\ events' = Keep(events, [e EXCEPT !.end = t], EventCap)
                /\ inAttack' = FALSE
                /\ cur' = NoEvent
           ELSE cur' = e /\ UNCHANGED <<events, inAttack>>

\* The first tick seeds the baseline.
SeedTick ==
    /\ Len(read) = Len(Fields)
    /\ ~started
    /\ started' = TRUE
    /\ prev' = Loaded
    /\ base' = Loaded
    /\ now' = now + 1
    /\ read' = <<>>
    /\ UNCHANGED <<counter, ring, inAttack, cur, calmTicks, events, log>>

\* Monitor.tick, under the mutex.
Tick ==
    /\ Len(read) = Len(Fields)
    /\ started
    /\ LET s == SampleOf(Loaded, prev)
           t == now + 1
       IN  /\ ring' = Keep(ring, s, CapN)
           /\ log' = Append(log, s)
           /\ IF inAttack THEN Track(s, t) ELSE Open(s, t)
           /\ now' = t
    /\ prev' = Loaded
    /\ read' = <<>>
    /\ UNCHANGED <<counter, started, base>>

MonitorNext == (\E f \in Names : Bump(f)) \/ Load \/ SeedTick \/ Tick

MonitorSpec == MonitorInit /\ [][MonitorNext]_monitorVars

----------------------------------------------------------------------------
\* Events and State, as the dashboard sees them: newest first.
Events == (IF inAttack THEN <<cur>> ELSE <<>>) \o Reverse(events)
State == IF inAttack THEN "under_attack" ELSE "normal"

(* Properties. *)

\* The episodes of a log, said without the automaton: hot ticks at most
\* CloseTicks apart belong together, and an episode ends CloseTicks after the
\* last of them.  Sample i of the log was taken at tick i + 1.
Hot == {t \in 2..now : Mitigated(log[t - 1]) >= AttackBlocked}
Starts == {s \in Hot : Hot \cap (s - CloseTicks)..(s - 1) = {}}
LastHot(s) ==
    CHOOSE t \in Hot : /\ t >= s /\ (s + 1)..t \cap Starts = {}
                       /\ \A u \in Hot : u > t => (s + 1)..u \cap Starts # {}
Closed(s) == LastHot(s) + CloseTicks <= now

Episode(s) ==
    LET stop == IF Closed(s) THEN LastHot(s) + CloseTicks ELSE now
        span == {log[t - 1] : t \in s..stop}
    IN  [start |-> s,
         end |-> IF Closed(s) THEN stop ELSE 0,
         peakReqs |-> Max({x.total : x \in span}),
         peakMitigated |-> Max({Mitigated(x) : x \in span}),
         totalMitigated |-> FoldFunction(+, 0, [i \in 1..(stop - s + 1) |-> Mitigated(log[s + i - 2])])]

Newest(seq, n) == IF Len(seq) > n THEN SubSeq(seq, Len(seq) - n + 1, Len(seq)) ELSE seq

\* The episodes that start at S, oldest first.
Nth(S, i) == CHOOSE s \in S : Cardinality({u \in S : u <= s}) = i
Chronicle(S) == [i \in 1..Cardinality(S) |-> Episode(Nth(S, i))]

\* What Events reports is what happened: the newest EventCap finished episodes
\* and the running one, each with the start, end, peaks and total of its own
\* samples, although the ring may have dropped those long before.
EventsAreEpisodes ==
    /\ events = Newest(Chronicle({s \in Starts : Closed(s)}), EventCap)
    /\ State = IF \A s \in Starts : Closed(s) THEN "normal" ELSE "under_attack"
    /\ Events = Chronicle({s \in Starts : ~Closed(s)}) \o Reverse(events)

\* No request falls between two samples, although each counter is loaded at a
\* moment of its own: what was sampled adds up to what was counted, and the
\* ring holds the newest samples.
NothingLost ==
    /\ started => \A f \in Names :
          base[f] + FoldFunction(+, 0, [i \in DOMAIN log |-> log[i][f]]) = prev[f]
    /\ ring = Newest(log, CapN)

============================================================================
