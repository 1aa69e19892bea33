------------------------------ MODULE Detector ------------------------------
(***************************************************************************)
(* The control loop around an agent: detector.py polls the agent, decides   *)
(* whether the traffic is an attack, and drives the challenge mode and the  *)
(* upstream scrubber through the agent's admin API; the agent's scrub       *)
(* handler in turn calls the network edge (internal/scrubber).              *)
(*                                                                          *)
(* The detector waits 5 seconds for an answer, the agent's call to the edge *)
(* takes up to 15: a call the detector has given up on may still be carried *)
(* out.  An error answer and a refused connection are a URLError, which     *)
(* _set_mode and _set_scrub catch; a read that times out or is reset is an  *)
(* OSError, which ends the tick in main's except clause.                    *)
(*                                                                          *)
(* What a tick's score is made of is left out: every tick after the first   *)
(* finds an attack or finds none.  A poll that fails changes nothing.       *)
(***************************************************************************)
EXTENDS Integers, FiniteSets

CONSTANTS
    ExitTicks,      \* --exit-ticks; 0 and less behave as 1
    MaxFaults       \* bound: failed, lost and late calls, reloads, restarts

ASSUME ExitAssumption == ExitTicks \in Nat \ {0}
ASSUME FaultAssumption == MaxFaults \in Nat

ModeOps == {"always", "adaptive"}
ScrubOps == {"engage", "disengage"}

VARIABLES
    args,       \* the detector's flags --scrub and --dry-run
    pc,         \* where its loop is: "seed", "idle", "await" or "sleep"
    attackMode, \* its attack_mode
    calm,       \* its calm
    mode,       \* the challenge mode of the agent's snapshot
    gauge,      \* the agent's ScrubEngaged metric
    edge,       \* is the mitigation at the edge on?
    calls,      \* admin calls not yet over; number 0 is the awaited one
    faults,     \* faults so far
    verdict,    \* history: the last tick's finding
    quiet,      \* history: ticks since the last attack, up to ExitTicks
    undone,     \* history: a relax was sent, or the agent lost its mode
    muddled,    \* history: the outcome of a scrub call was lost, or the gauge was
    unreset     \* history: an engage was cut off, and calm not reset since

detector == <<pc, attackMode, calm, unreset>>
agent == <<mode, gauge, edge>>
vars == <<args, detector, agent, calls, faults, verdict, quiet, undone, muddled>>

Init ==
    /\ args \in [scrub : BOOLEAN, dry : BOOLEAN]
    /\ pc = "seed"
    /\ attackMode = FALSE
    /\ calm = 0
    /\ mode = "adaptive"
    /\ gauge = FALSE
    /\ edge = FALSE
    /\ calls = {}
    /\ faults = 0
    /\ verdict = "none"
    /\ quiet = 0
    /\ undone = FALSE
    /\ muddled = FALSE
    /\ unreset = FALSE

Fault == faults < MaxFaults /\ faults' = faults + 1

----------------------------------------------------------------------------
(* The detector. *)

\* post: the call is under way and the loop waits for its answer.
Post(rest, op) ==
    /\ pc' = "await"
    /\ calls' = rest \cup {[id |-> 0, op |-> op, at |-> "sent", ok |-> FALSE]}
    /\ undone' = (undone \/ op = "adaptive")
    /\ UNCHANGED unreset

\* The tick is over and calm starts again.
EndTick(rest) ==
    /\ pc' = "sleep"
    /\ calm' = 0
    /\ unreset' = FALSE
    /\ calls' = rest
    /\ UNCHANGED undone

\* MUTANT: a failure is reported as if the mode had been set.
SetModeOptimistic(attack, ok) == attack

\* What _set_mode returns: attack, or "unchanged on failure".
SetMode(attack, ok) == IF ok THEN attack ELSE ~attack

\* _set_scrub, where --scrub asks for it; a dry run sends nothing.
SetScrub(rest, op) ==
    IF args.scrub /\ ~args.dry THEN Post(rest, op) /\ UNCHANGED calm
                               ELSE EndTick(rest)

\* main, after _set_mode(args, True).
Raised(rest, ok) ==
    /\ attackMode' = SetMode(TRUE, ok)
    /\ SetScrub(rest, "engage")

\* main, after _set_mode(args, False): only a result that is true leaves
\* attack mode and disengages the scrubber.
Relaxed(rest, ok) ==
    IF SetMode(FALSE, ok)
    THEN attackMode' = FALSE /\ SetScrub(rest, "disengage")
    ELSE EndTick(rest) /\ UNCHANGED attackMode

\* The first poll has nothing to compare with.
Seed ==
    /\ pc = "seed"
    /\ pc' = "sleep"
    /\ UNCHANGED <<args, attackMode, calm, unreset, agent, calls, faults, verdict,
                   quiet, undone, muddled>>

\* The interval is over.
Wake ==
    /\ pc = "sleep"
    /\ pc' = "idle"
    /\ UNCHANGED <<args, attackMode, calm, unreset, agent, calls, faults, verdict,
                   quiet, undone, muddled>>

\* MUTANT: only the first tick of an attack raises the mode.
AttackOnset ==
    IF verdict # "attack" /\ ~attackMode
    THEN IF args.dry THEN Raised(calls, TRUE)
                     ELSE Post(calls, "always") /\ UNCHANGED <<attackMode, calm>>
    ELSE EndTick(calls) /\ UNCHANGED attackMode

\* MUTANT: an attack that goes on does not restart the calm count.
AttackUncounted ==
    IF attackMode
    THEN pc' = "sleep" /\ UNCHANGED <<attackMode, calm, unreset, calls, undone>>
    ELSE IF args.dry THEN Raised(calls, TRUE)
                     ELSE Post(calls, "always") /\ UNCHANGED <<attackMode, calm>>

\* A tick that finds an attack.
Attack ==
    IF attackMode
    THEN EndTick(calls) /\ UNCHANGED attackMode
    ELSE IF args.dry THEN Raised(calls, TRUE)
                     ELSE Post(calls, "always") /\ UNCHANGED <<attackMode, calm>>

\* A tick that finds none.
Calm ==
    \/ /\ ~attackMode
       /\ pc' = "sleep"
       /\ UNCHANGED <<attackMode, calm, unreset, calls, undone>>
    \/ /\ attackMode
       /\ calm + 1 < ExitTicks
       /\ calm' = calm + 1
       /\ pc' = "sleep"
       /\ UNCHANGED <<attackMode, unreset, calls, undone>>
    \/ /\ attackMode
       /\ calm + 1 >= ExitTicks
       /\ IF args.dry THEN Relaxed(calls, TRUE)
          ELSE Post(calls, "adaptive") /\ calm' = calm + 1 /\ UNCHANGED attackMode

\* One turn of main's loop, up to the first call it makes.
Poll ==
    /\ pc = "idle"
    /\ \/ Attack /\ verdict' = "attack" /\ quiet' = 0
       \/ Calm /\ verdict' = "calm"
               /\ quiet' = IF quiet < ExitTicks THEN quiet + 1 ELSE quiet
    /\ UNCHANGED <<args, agent, faults, muddled>>

\* The loop goes on with the result of call k.
Continue(k, ok) ==
    LET rest == calls \ {k}
    IN  \/ k.op = "always" /\ Raised(rest, ok)
        \/ k.op = "adaptive" /\ Relaxed(rest, ok)
        \/ k.op \in ScrubOps /\ EndTick(rest) /\ UNCHANGED attackMode

\* The answer arrives.
Receive ==
    /\ pc = "await"
    /\ \E k \in calls : k.id = 0 /\ k.at = "done" /\ Continue(k, k.ok)
    /\ UNCHANGED <<args, agent, faults, verdict, quiet, muddled>>

\* The agent refuses the connection or the call.
Refuse ==
    /\ pc = "await"
    /\ Fault
    /\ \E k \in calls : k.id = 0 /\ k.at = "sent" /\ Continue(k, FALSE)
    /\ UNCHANGED <<args, agent, verdict, quiet, muddled>>

\* The read times out: the exception skips the rest of the tick.  The call is
\* lost on its way, or still under way.
GiveUp ==
    /\ pc = "await"
    /\ Fault
    /\ \E k \in calls :
          /\ k.id = 0
          /\ \/ k.at \in {"sent", "done"} /\ calls' = calls \ {k}
             \/ k.at # "done" /\ calls' = (calls \ {k}) \cup {[k EXCEPT !.id = faults']}
          /\ muddled' = (muddled \/ k.op \in ScrubOps)
          /\ unreset' = (unreset \/ k.op = "engage")
    /\ pc' = "sleep"
    /\ UNCHANGED <<args, attackMode, calm, agent, verdict, quiet, undone>>

----------------------------------------------------------------------------
(* The agent and the edge. *)

\* A handler is done with call k; nobody waits for a call given up.
Answer(k, ok) ==
    calls' = (calls \ {k}) \cup
             (IF k.id = 0 THEN {[k EXCEPT !.at = "done", !.ok = ok]} ELSE {})

\* admin: handleMode.
HandleMode(k) ==
    /\ k.at = "sent" /\ k.op \in ModeOps
    /\ mode' = k.op
    /\ Answer(k, TRUE)
    /\ UNCHANGED <<args, detector, gauge, edge, faults, verdict, quiet, undone, muddled>>

\* MUTANT: the call counts as made once it was tried.
CallEdgeUnchecked(k) ==
    /\ k.at = "sent" /\ k.op \in ScrubOps
    /\ \/ edge' = (k.op = "engage") /\ UNCHANGED <<faults, muddled>>
       \/ Fault /\ UNCHANGED <<edge, muddled>>
    /\ calls' = (calls \ {k}) \cup {[k EXCEPT !.at = "store"]}
    /\ UNCHANGED <<args, detector, mode, gauge, verdict, quiet, undone>>

\* admin: handleScrub and main's scrubFn: the call to the edge.  It may fail,
\* and it may take effect and seem to fail.
CallEdge(k) ==
    /\ k.at = "sent" /\ k.op \in ScrubOps
    /\ \/ /\ edge' = (k.op = "engage")
          /\ calls' = (calls \ {k}) \cup {[k EXCEPT !.at = "store"]}
          /\ UNCHANGED <<faults, muddled>>
       \/ /\ Fault
          /\ edge' \in {edge, k.op = "engage"}
          /\ muddled' = (muddled \/ edge' # edge)
          /\ Answer(k, FALSE)
    /\ UNCHANGED <<args, detector, mode, gauge, verdict, quiet, undone>>

\* scrubFn, once the edge has answered.
StoreGauge(k) ==
    /\ k.at = "store"
    /\ gauge' = (k.op = "engage")
    /\ Answer(k, TRUE)
    /\ UNCHANGED <<args, detector, mode, edge, faults, verdict, quiet, undone, muddled>>

\* A reload, or an operator, puts the mode back to the config's.
ResetMode ==
    /\ Fault
    /\ mode' = "adaptive"
    /\ undone' = TRUE
    /\ UNCHANGED <<args, detector, gauge, edge, calls, verdict, quiet, muddled>>

\* The agent restarts: mode, gauge and the calls under way are gone, and a
\* detector that waits for one of them sees its connection reset.
Restart ==
    /\ Fault
    /\ mode' = "adaptive"
    /\ gauge' = FALSE
    /\ calls' = {}
    /\ pc' = IF pc = "await" THEN "sleep" ELSE pc
    /\ undone' = TRUE
    /\ muddled' = (muddled \/ edge)
    /\ unreset' = (unreset \/ \E k \in calls : k.id = 0 /\ k.op = "engage")
    /\ UNCHANGED <<args, attackMode, calm, edge, verdict, quiet>>

Loop == Seed \/ Wake \/ Poll \/ Receive
Handlers == \E k \in calls : HandleMode(k) \/ CallEdge(k) \/ StoreGauge(k)

Next == Loop \/ Refuse \/ GiveUp \/ Handlers \/ ResetMode \/ Restart

Spec == Init /\ [][Next]_vars

\* The loop polls again after every sleep, and a handler that runs comes to
\* its end: both the detector's and the edge's calls have timeouts.
FairSpec == Spec /\ WF_vars(Loop) /\ WF_vars(Handlers)

----------------------------------------------------------------------------
(* Properties. *)

\* Every variable has its type; at most one call is awaited, by a loop that
\* waits, and calm stays near its limit however many relaxes are cut off.
TypeOK ==
    /\ args \in [scrub : BOOLEAN, dry : BOOLEAN]
    /\ pc \in {"seed", "idle", "await", "sleep"}
    /\ attackMode \in BOOLEAN
    /\ calm \in 0..(ExitTicks + MaxFaults)
    /\ mode \in ModeOps
    /\ gauge \in BOOLEAN
    /\ edge \in BOOLEAN
    /\ calls \subseteq [id : 0..MaxFaults, op : ModeOps \cup ScrubOps,
                        at : {"sent", "store", "done"}, ok : BOOLEAN]
    /\ Cardinality({k \in calls : k.id = 0}) = (IF pc = "await" THEN 1 ELSE 0)
    /\ faults \in 0..MaxFaults
    /\ verdict \in {"none", "attack", "calm"}
    /\ quiet \in 0..ExitTicks
    /\ undone \in BOOLEAN
    /\ muddled \in BOOLEAN
    /\ unreset \in BOOLEAN

RelaxSent == \E k \in calls' \ calls : k.op = "adaptive" /\ k.id = 0 /\ k.at = "sent"

\* detector/README: "after --exit-ticks calm ticks it relaxes".  A relax is
\* sent only after that many calm ticks in a row, whichever calls failed, were
\* cut off or died with the agent before.  The one exception is an engage that
\* was cut off, as the exception skips the reset of calm - and only until the
\* next reset.
HysteresisKept == [][RelaxSent /\ ~unreset => quiet' = ExitTicks]_vars

\* The detector believes in attack mode only if the agent is in it, although
\* calls fail, get lost or come late - until a relax or a reset intervenes.
BeliefHolds == attackMode /\ ~undone /\ ~args.dry => mode = "always"

\* The ScrubEngaged metric is true: with no scrub call under way it agrees
\* with the edge, although calls fail on either leg - until the outcome of one
\* is lost.
GaugeTrue ==
    ~muddled /\ (\A k \in calls : k.op \in ModeOps) => gauge = edge

\* An attack that goes on is answered: the mode is raised in the end, however
\* many attempts fail, unless a relax or a reset intervenes.
FloodRaised ==
    <>[](verdict = "attack") => <>[](mode = "always" \/ undone \/ args.dry)

(* What the documentation says and the code does not keep. *)

\* README: detector.py --scrub "engages on attack, disengages on recovery".
\* Once traffic stays calm the mitigation at the edge is off for good.
Disengaged == <>[](verdict = "calm") => <>[]~edge

\* detector.py: "when an attack is detected" it "flips AggerShield into
\* under-attack mode", not only the first time.
EveryFloodRaised ==
    <>[](verdict = "attack") => <>[](mode = "always" \/ args.dry)

\* The hysteresis holds with --scrub too.
HysteresisAlways == [][RelaxSent => quiet' = ExitTicks]_vars

=============================================================================
