-------------------------- MODULE PerimeterProofs --------------------------
(* Machine-checked facts about the parts around the request pipeline: the   *)
(* detector's control loop, the Minecraft proxy, the collector of TLS       *)
(* fingerprints and the security monitor.                                   *)
EXTENDS Detector, Minecraft, Fingerprint, Monitor,
        FiniteSetTheorems, SequenceTheorems, WellFoundedInduction, TLAPS

----------------------------------------------------------------------------
(* The detector. *)

DetCall == [id : 0..MaxFaults, op : ModeOps \cup ScrubOps,
            at : {"sent", "store", "done"}, ok : BOOLEAN]

\* The types, as TypeOK states them, but for what is counted there.
DetTypes ==
    /\ args \in [scrub : BOOLEAN, dry : BOOLEAN]
    /\ pc \in {"seed", "idle", "await", "sleep"}
    /\ attackMode \in BOOLEAN
    /\ calm \in Nat
    /\ mode \in ModeOps
    /\ gauge \in BOOLEAN
    /\ edge \in BOOLEAN
    /\ calls \subseteq DetCall
    /\ faults \in 0..MaxFaults
    /\ verdict \in {"none", "attack", "calm"}
    /\ quiet \in 0..ExitTicks
    /\ undone \in BOOLEAN
    /\ muddled \in BOOLEAN
    /\ unreset \in BOOLEAN

\* What the loop waits for.
AwaitsRelax == \E k \in calls : k.id = 0 /\ k.op = "adaptive"
AwaitsEngage == \E k \in calls : k.id = 0 /\ k.op = "engage"

\* One call is awaited, and only by a loop that waits; a call comes to be
\* "done" or "store" by its handler only, and a dry run makes none.
DetCalls ==
    /\ pc = "await" <=> \E k \in calls : k.id = 0
    /\ \A j, k \in calls : j.id = 0 /\ k.id = 0 => j = k
    /\ \A k \in calls : /\ k.at = "store" => k.op \in ScrubOps
                        /\ k.at = "done" => k.id = 0
                        /\ k.at = "done" /\ k.op \in ModeOps => k.ok
                        /\ k.id = 0 => ~args.dry

\* calm is at its limit only while a relax is awaited; each fault cuts off one.
DetCalm ==
    /\ AwaitsRelax => calm <= ExitTicks + faults
    /\ ~AwaitsRelax => calm <= ExitTicks - 1 + faults

\* In attack mode calm counts quiet ticks only: what keeps it above quiet is a
\* raise whose scrub call is still awaited, or was cut off.
DetQuiet ==
    ~unreset /\ attackMode /\ ~AwaitsEngage => calm <= quiet \/ quiet = ExitTicks

\* No relax was sent yet: whoever sees a raise answered finds the mode raised.
DetMode ==
    /\ ~undone => \A k \in calls : /\ k.op # "adaptive"
                                   /\ k.op = "always" /\ k.at = "done" => mode = "always"
    /\ BeliefHolds

\* No outcome was lost yet: the one scrub call under way is the awaited one, and
\* the gauge is off only between the edge's answer and the store.
DetEdge ==
    ~muddled => /\ \A k \in calls : /\ k.op \in ScrubOps => k.id = 0
                                    /\ k.at = "store" => (edge <=> k.op = "engage")
                /\ (\A k \in calls : k.at # "store") => (gauge <=> edge)

\* The inductive invariant.
DetInv == DetTypes /\ DetCalls /\ DetCalm /\ DetQuiet /\ DetMode /\ DetEdge

\* The loop goes on after call k: the tick ends, or the scrubber is called.
DetResumes(k) ==
    /\ UNCHANGED <<args, mode, gauge, edge, verdict, quiet, muddled, undone>>
    /\ faults' \in 0..MaxFaults /\ faults <= faults'
    /\ attackMode' \in BOOLEAN
    /\ attackMode' /\ ~undone => attackMode \/ mode = "always"
    /\ k.at # "store"
    /\ \/ calls' = calls \ {k} /\ pc' = "sleep" /\ calm' = 0 /\ unreset' = FALSE
       \/ \E op \in ScrubOps :
             /\ calls' = (calls \ {k}) \cup {[id |-> 0, op |-> op, at |-> "sent", ok |-> FALSE]}
             /\ pc' = "await"
             /\ calm' = calm /\ unreset' = unreset
             /\ k.op = "adaptive" => op = "disengage"
             /\ op = "disengage" => ~attackMode' /\ (faults < faults' \/ k.op # "adaptive")

LEMMA DetContinues ==
  ASSUME DetInv, NEW k \in calls, k.id = 0, k.at # "store",
         NEW ok \in BOOLEAN, Continue(k, ok),
         k.op = "always" /\ ok /\ ~undone => mode = "always",
         k.op \in ModeOps /\ ~ok => faults < faults',
         UNCHANGED <<args, mode, gauge, edge, verdict, quiet, muddled>>,
         faults' \in 0..MaxFaults, faults <= faults'
  PROVE  DetResumes(k)
<1>1. attackMode \in BOOLEAN /\ undone \in BOOLEAN /\ args.dry = FALSE
  BY DEF DetInv, DetTypes, DetCalls, DetCall
<1>2. CASE k.op = "always" /\ Raised(calls \ {k}, ok)
  BY <1>1, <1>2 DEF DetResumes, Raised, SetMode, SetScrub,
     EndTick, Post, ModeOps, ScrubOps
<1>3. CASE k.op = "adaptive" /\ Relaxed(calls \ {k}, ok)
  BY <1>1, <1>3 DEF DetResumes, Relaxed, SetMode, SetScrub,
     EndTick, Post, ModeOps, ScrubOps
<1>4. CASE k.op \in ScrubOps /\ EndTick(calls \ {k}) /\ UNCHANGED attackMode
  BY <1>1, <1>4 DEF DetResumes, EndTick
<1> QED BY <1>2, <1>3, <1>4 DEF Continue

LEMMA ResumeKeeps ==
  ASSUME DetInv, NEW k \in calls, k.id = 0, DetResumes(k)
  PROVE  DetInv'
<1>1. CASE calls' = calls \ {k} /\ pc' = "sleep" /\ calm' = 0 /\ unreset' = FALSE
  <2>0. \A j \in calls' : j \in calls /\ j.id # 0
    BY <1>1 DEF DetInv, DetCalls
  <2>1. DetTypes'
    BY <1>1, <2>0 DEF DetResumes, DetInv, DetTypes, DetCall
  <2>2. DetCalls'
    BY <1>1, <2>0 DEF DetResumes, DetInv, DetCalls
  <2>3. DetCalm' /\ DetQuiet'
    <3> DEFINE nf == faults'
    <3>1. calm' = 0 /\ nf \in Nat /\ faults' = nf /\ quiet' = quiet /\ quiet \in Nat
      BY <1>1, ExitAssumption, FaultAssumption DEF DetResumes, DetInv, DetTypes
    <3> HIDE DEF nf
    <3>2. 0 <= ExitTicks + nf /\ 0 <= ExitTicks - 1 + nf
      BY <3>1, ExitAssumption
    <3> QED BY <3>1, <3>2 DEF DetCalm, DetQuiet
  <2>4. DetMode'
    BY <2>0 DEF DetResumes, DetInv, DetMode, BeliefHolds
  <2>5. DetEdge'
    BY <1>1, <2>0 DEF DetResumes, DetInv, DetEdge
  <2> QED BY <2>1, <2>2, <2>3, <2>4, <2>5 DEF DetInv
<1>2. ASSUME NEW op \in ScrubOps,
             calls' = (calls \ {k}) \cup {[id |-> 0, op |-> op, at |-> "sent", ok |-> FALSE]},
             pc' = "await", calm' = calm, unreset' = unreset,
             k.op = "adaptive" => op = "disengage",
             op = "disengage" => ~attackMode' /\ (faults < faults' \/ k.op # "adaptive")
      PROVE  DetInv'
  <2> DEFINE n == [id |-> 0, op |-> op, at |-> "sent", ok |-> FALSE]
  <2>0. /\ n.id = 0 /\ n.op = op /\ n.at = "sent" /\ n.op \notin ModeOps
        /\ n \in calls' /\ n \in DetCall
    BY <1>2, FaultAssumption DEF ScrubOps, ModeOps, DetCall
  <2>a. calls' \subseteq (calls \ {k}) \cup {n} /\ calls \ {k} \subseteq calls'
    BY <1>2
  <2> HIDE DEF n
  <2>b. \A j \in calls' : j = n \/ (j \in calls /\ j.id # 0)
    BY <2>a DEF DetInv, DetCalls
  <2>c. ~AwaitsRelax' /\ (op = "engage" => AwaitsEngage')
    BY <2>0, <2>b DEF AwaitsRelax, AwaitsEngage, ScrubOps
  <2>1. DetTypes'
    BY <1>2, <2>b, <2>0 DEF DetResumes, DetInv, DetTypes
  <2>2. DetCalls'
    BY <1>2, <2>b, <2>0 DEF DetResumes, DetInv, DetCalls
  <2>3. DetCalm'
    <3>1. AwaitsRelax <=> k.op = "adaptive"
      BY DEF AwaitsRelax, DetInv, DetCalls
    <3> DEFINE nf == faults'
    <3>2. /\ faults' = nf /\ nf \in Nat /\ calm \in Nat /\ faults <= nf /\ faults \in Nat
          /\ calm <= ExitTicks - 1 + faults \/ (faults < nf /\ calm <= ExitTicks + faults)
      BY <1>2, <3>1, FaultAssumption DEF DetResumes, DetInv, DetCalm, DetTypes, ScrubOps
    <3> HIDE DEF nf
    <3>3. calm <= ExitTicks - 1 + nf
      BY <3>2, ExitAssumption
    <3> QED BY <1>2, <2>c, <3>2, <3>3 DEF DetCalm
  <2>4. DetQuiet'
    BY <1>2, <2>c DEF DetResumes, DetInv, DetQuiet, DetTypes, ScrubOps
  <2>5. DetMode'
    BY <2>b, <2>0 DEF DetResumes, DetInv, DetMode, BeliefHolds, ModeOps
  <2>6. DetEdge'
    BY <2>0, <2>a, <2>b DEF DetResumes, DetInv, DetEdge
  <2> QED BY <2>1, <2>2, <2>3, <2>4, <2>5, <2>6 DEF DetInv
<1> QED BY <1>1, <1>2 DEF DetResumes

LEMMA ReceiveKeeps ==
  ASSUME DetInv, Receive
  PROVE  DetInv'
<1>1. PICK k \in calls : k.id = 0 /\ k.at = "done" /\ Continue(k, k.ok)
  BY DEF Receive
<1>2. /\ k.ok \in BOOLEAN /\ k.at # "store"
      /\ k.op = "always" /\ k.ok /\ ~undone => mode = "always"
      /\ ~(k.op \in ModeOps /\ ~k.ok)
  BY <1>1 DEF DetInv, DetTypes, DetCall, DetCalls, DetMode
<1>3. /\ UNCHANGED <<args, mode, gauge, edge, verdict, quiet, muddled, faults>>
      /\ faults \in 0..MaxFaults
  BY DEF Receive, agent, DetInv, DetTypes
<1>4. faults' \in 0..MaxFaults /\ faults <= faults'
  BY <1>3, FaultAssumption
<1>5. DetResumes(k)
  BY <1>1, <1>2, <1>3, <1>4, DetContinues
<1> QED BY <1>1, <1>5, ResumeKeeps

LEMMA RefuseKeeps ==
  ASSUME DetInv, Refuse
  PROVE  DetInv'
<1>1. PICK k \in calls : k.id = 0 /\ k.at = "sent" /\ Continue(k, FALSE)
  BY DEF Refuse
<1>2. k.at # "store"
  BY <1>1
<1>3. /\ UNCHANGED <<args, mode, gauge, edge, verdict, quiet, muddled>>
      /\ faults \in 0..MaxFaults /\ faults < MaxFaults /\ faults' = faults + 1
  BY DEF Refuse, Fault, agent, DetInv, DetTypes
<1>4. faults' \in 0..MaxFaults /\ faults < faults' /\ faults <= faults'
  BY <1>3, FaultAssumption
<1>5. DetResumes(k)
  BY <1>1, <1>2, <1>3, <1>4, DetContinues
<1> QED BY <1>1, <1>5, ResumeKeeps

LEMMA PollKeeps ==
  ASSUME DetInv, Poll
  PROVE  DetInv'
<1>1. /\ pc = "idle" /\ UNCHANGED <<args, mode, gauge, edge, faults, muddled>>
      /\ \A k \in calls : k.id # 0
      /\ quiet \in 0..ExitTicks /\ calm \in Nat /\ calm <= ExitTicks - 1 + faults
      /\ faults \in 0..MaxFaults /\ attackMode \in BOOLEAN /\ undone \in BOOLEAN
      /\ args.dry \in BOOLEAN
  <2>1. pc = "idle" /\ ~AwaitsRelax
    BY DEF Poll, DetInv, DetCalls, AwaitsRelax
  <2> QED BY <2>1 DEF Poll, agent, DetInv, DetTypes, DetCalls, DetCalm
<1>2. /\ verdict' \in {"none", "attack", "calm"}
      /\ quiet' \in 0..ExitTicks
      /\ Attack \/ (Calm /\ (quiet < ExitTicks => quiet' = quiet + 1)
                                 /\ (quiet = ExitTicks => quiet' = quiet))
  BY <1>1, ExitAssumption DEF Poll
\* What the tick comes to: it ends, or a mode call is under way.
<1>3. \/ /\ calls' = calls /\ pc' = "sleep" /\ undone' = undone
         /\ attackMode' \in BOOLEAN
         /\ attackMode' /\ ~args.dry => attackMode
         /\ \/ calm' = 0 /\ unreset' = FALSE
            \/ ~attackMode' /\ calm' = calm /\ unreset' = unreset
            \/ Calm /\ attackMode /\ calm' = calm + 1 /\ unreset' = unreset /\ calm + 1 < ExitTicks
      \/ \E op \in ModeOps :
           /\ calls' = calls \cup {[id |-> 0, op |-> op, at |-> "sent", ok |-> FALSE]}
           /\ pc' = "await" /\ undone' = (undone \/ op = "adaptive") /\ ~args.dry
           /\ attackMode' = attackMode /\ unreset' = unreset
           /\ \/ op = "always" /\ ~attackMode /\ calm' = calm
              \/ op = "adaptive" /\ Calm /\ calm' = calm + 1 /\ ExitTicks <= calm + 1
  <2>1. CASE Attack
    BY <2>1, <1>1 DEF Attack, Raised, SetMode, SetScrub, EndTick, Post,
       ModeOps
  <2>2. CASE Calm
    <3>1. CASE /\ ~attackMode /\ pc' = "sleep"
               /\ UNCHANGED <<attackMode, calm, unreset, calls, undone>>
      BY <3>1, <1>1
    <3>2. CASE /\ attackMode /\ calm + 1 < ExitTicks /\ calm' = calm + 1
               /\ pc' = "sleep" /\ UNCHANGED <<attackMode, unreset, calls, undone>>
      BY <3>2, <2>2, <1>1
    <3>3. CASE attackMode /\ calm + 1 >= ExitTicks /\ args.dry /\ Relaxed(calls, TRUE)
      BY <3>3, <1>1 DEF Relaxed, SetMode, EndTick
    <3>4. CASE /\ attackMode /\ calm + 1 >= ExitTicks /\ ~args.dry
               /\ Post(calls, "adaptive") /\ calm' = calm + 1 /\ UNCHANGED attackMode
      <4>1. ExitTicks <= calm + 1
        BY <3>4, <1>1, ExitAssumption
      <4> QED BY <3>4, <4>1, <2>2, <1>1 DEF Post, ModeOps
    <3> QED BY <3>1, <3>2, <3>3, <3>4, <2>2 DEF Calm
  <2> QED BY <2>1, <2>2, <1>2
\* A calm tick counted is a quiet tick.
<1>4. ASSUME ~unreset, attackMode, Calm, calm' = calm + 1
      PROVE  calm' <= quiet' \/ quiet' = ExitTicks
  <2>1. calm <= quiet \/ quiet = ExitTicks
    BY <1>1, <1>4 DEF DetInv, DetQuiet, AwaitsEngage
  <2>2. CASE Attack
    BY <2>2, <1>4, <1>1 DEF Attack, EndTick
  <2>3. CASE ~Attack
    BY <2>1, <2>3, <1>1, <1>2, <1>4, ExitAssumption
  <2> QED BY <2>2, <2>3
<1>5. CASE /\ calls' = calls /\ pc' = "sleep" /\ undone' = undone
           /\ attackMode' \in BOOLEAN
           /\ attackMode' /\ ~args.dry => attackMode
           /\ \/ calm' = 0 /\ unreset' = FALSE
              \/ ~attackMode' /\ calm' = calm /\ unreset' = unreset
              \/ Calm /\ attackMode /\ calm' = calm + 1 /\ unreset' = unreset /\ calm + 1 < ExitTicks
  <2>1. calm' \in Nat /\ (calm' = 0 \/ calm' = calm \/ (calm' = calm + 1 /\ calm + 1 < ExitTicks))
    BY <1>1, <1>5
  <2>2. DetTypes'
    BY <1>1, <1>2, <1>5, <2>1 DEF DetInv, DetTypes, DetCall
  <2>3. DetCalls'
    BY <1>1, <1>5 DEF DetInv, DetCalls
  <2>4. DetCalm'
    BY <1>1, <2>1, ExitAssumption DEF DetCalm
  <2>5. DetQuiet'
    BY <1>1, <1>2, <1>4, <1>5 DEF DetQuiet
  <2>6. DetMode' /\ DetEdge'
    BY <1>1, <1>5 DEF DetInv, DetMode, DetEdge, BeliefHolds
  <2> QED BY <2>2, <2>3, <2>4, <2>5, <2>6 DEF DetInv
<1>6. ASSUME NEW op \in ModeOps,
             calls' = calls \cup {[id |-> 0, op |-> op, at |-> "sent", ok |-> FALSE]},
             pc' = "await", undone' = (undone \/ op = "adaptive"), ~args.dry,
             attackMode' = attackMode, unreset' = unreset,
             \/ op = "always" /\ ~attackMode /\ calm' = calm
             \/ op = "adaptive" /\ Calm /\ calm' = calm + 1 /\ ExitTicks <= calm + 1
      PROVE  DetInv'
  <2> DEFINE n == [id |-> 0, op |-> op, at |-> "sent", ok |-> FALSE]
  <2>0. /\ n.id = 0 /\ n.op = op /\ n.at = "sent" /\ n.op \notin ScrubOps
        /\ n \in calls' /\ n \in DetCall
    BY <1>6, FaultAssumption DEF ScrubOps, ModeOps, DetCall
  <2>a. calls' = calls \cup {n}
    BY <1>6
  <2> HIDE DEF n
  <2>1. calm' \in Nat /\ (calm' = calm \/ (calm' = calm + 1 /\ AwaitsRelax'))
    BY <1>1, <1>6, <2>0 DEF AwaitsRelax
  <2>2. DetTypes'
    BY <1>1, <1>2, <1>6, <2>0, <2>1, <2>a DEF DetInv, DetTypes
  <2>3. DetCalls'
    BY <1>1, <1>6, <2>0, <2>a DEF DetInv, DetCalls
  <2>4. DetCalm'
    BY <1>1, <2>1, ExitAssumption DEF DetCalm
  <2>5. DetQuiet'
    BY <1>1, <1>4, <1>6 DEF DetQuiet
  <2>6. DetMode'
    BY <1>1, <1>6, <2>0, <2>a DEF DetInv, DetMode, BeliefHolds, ModeOps
  <2>7. DetEdge'
    BY <1>1, <2>0, <2>a DEF DetInv, DetEdge
  <2> QED BY <2>2, <2>3, <2>4, <2>5, <2>6, <2>7 DEF DetInv
<1> QED BY <1>3, <1>5, <1>6

LEMMA GiveUpKeeps ==
  ASSUME DetInv, GiveUp
  PROVE  DetInv'
<1> DEFINE nf == faults'
<1>1. /\ pc = "await" /\ pc' = "sleep" /\ nf = faults + 1 /\ faults' = nf
      /\ nf \in 1..MaxFaults /\ faults \in Nat
      /\ UNCHANGED <<args, attackMode, calm, mode, gauge, edge, verdict, quiet, undone>>
  BY FaultAssumption DEF GiveUp, Fault, agent, DetInv, DetTypes
<1> HIDE DEF nf
<1>2. PICK k \in calls :
         /\ k.id = 0
         /\ \/ k.at \in {"sent", "done"} /\ calls' = calls \ {k}
            \/ k.at # "done" /\ calls' = (calls \ {k}) \cup {[k EXCEPT !.id = nf]}
         /\ muddled' = (muddled \/ k.op \in ScrubOps)
         /\ unreset' = (unreset \/ k.op = "engage")
  BY <1>1 DEF GiveUp
<1> DEFINE n == [k EXCEPT !.id = nf]
<1>3. /\ n \in DetCall /\ n.id # 0 /\ n.op = k.op /\ n.at = k.at
      /\ k.op \in ModeOps \cup ScrubOps
  BY <1>1, <1>2 DEF DetInv, DetTypes, DetCall
<1>4. /\ calls' \subseteq (calls \ {k}) \cup {n} /\ calls \ {k} \subseteq calls'
      /\ n \in calls' => k.at # "done"
      /\ n \notin calls' => k.at # "store"
  <2>1. k.at = "done" => n \notin calls
    BY <1>3 DEF DetInv, DetCalls
  <2> QED BY <1>2, <2>1
<1> HIDE DEF n
<1>5. \A j \in calls' : (j \in calls \/ j = n) /\ j.id # 0
  BY <1>2, <1>3, <1>4 DEF DetInv, DetCalls
<1>6. DetTypes'
  BY <1>1, <1>2, <1>3, <1>5 DEF DetInv, DetTypes
<1>7. DetCalls'
  BY <1>1, <1>2, <1>3, <1>4, <1>5 DEF DetInv, DetCalls
<1>8. DetCalm'
  <2>1. calm' = calm /\ calm \in Nat /\ calm <= ExitTicks + faults /\ ~AwaitsRelax'
    BY <1>1, <1>5, ExitAssumption DEF DetInv, DetTypes, DetCalm, AwaitsRelax
  <2>2. calm <= ExitTicks - 1 + nf
    BY <2>1, <1>1, ExitAssumption
  <2> QED BY <2>1, <2>2, <1>1 DEF DetCalm
<1>9. DetQuiet'
  <2>1. ASSUME ~unreset', attackMode
        PROVE  calm <= quiet \/ quiet = ExitTicks
    <3>1. ~unreset /\ ~AwaitsEngage
      BY <1>2, <2>1 DEF DetInv, DetCalls, AwaitsEngage, ScrubOps
    <3> QED BY <3>1, <2>1 DEF DetInv, DetQuiet
  <2> QED BY <2>1, <1>1 DEF DetQuiet
<1>10. DetMode'
  BY <1>1, <1>2, <1>3, <1>4, <1>5 DEF DetInv, DetMode, BeliefHolds
<1>11. DetEdge'
  <2>1. CASE muddled \/ k.op \in ScrubOps
    BY <2>1, <1>2 DEF DetEdge
  <2>2. CASE ~muddled /\ k.op \notin ScrubOps
    <3>1. k.at # "store"
      BY <2>2, <1>2 DEF DetInv, DetCalls
    <3> QED BY <2>2, <3>1, <1>1, <1>2, <1>3, <1>4, <1>5 DEF DetInv, DetEdge
  <2> QED BY <2>1, <2>2
<1> QED BY <1>6, <1>7, <1>8, <1>9, <1>10, <1>11 DEF DetInv

\* A handler is done with call k: what is left of it, if anyone waits, is its
\* answer.
LEMMA AnswerShape ==
  ASSUME DetInv, NEW k \in calls, NEW ok \in BOOLEAN, Answer(k, ok)
  PROVE  /\ calls \ {k} \subseteq calls'
         /\ calls' \subseteq DetCall
         /\ \A j \in calls' : \/ j \in calls /\ j # k
                              \/ j.id = 0 /\ k.id = 0 /\ j.op = k.op /\ j.at = "done" /\ j.ok = ok
         /\ \A i, j \in calls' : i.id = 0 /\ j.id = 0 => i = j
         /\ \A op : (\E j \in calls' : j.id = 0 /\ j.op = op)
                      <=> (\E j \in calls : j.id = 0 /\ j.op = op)
         /\ (\E j \in calls' : j.id = 0) <=> (\E j \in calls : j.id = 0)
<1> DEFINE n == [k EXCEPT !.at = "done", !.ok = ok]
<1>1. n \in DetCall /\ n.id = k.id /\ n.op = k.op /\ n.at = "done" /\ n.ok = ok
  BY DEF DetInv, DetTypes, DetCall
<1>2. calls' = (calls \ {k}) \cup (IF k.id = 0 THEN {n} ELSE {})
  BY DEF Answer
<1> HIDE DEF n
<1>3. \A i, j \in calls : i.id = 0 /\ j.id = 0 => i = j
  BY DEF DetInv, DetCalls
<1> QED BY <1>1, <1>2, <1>3 DEF DetInv, DetTypes

\* The facts a handler's step leaves alone, whatever it answers.
LEMMA AnswerKeeps ==
  ASSUME DetInv, NEW k \in calls,
         NEW ok \in BOOLEAN, Answer(k, ok), k.op \in ModeOps => ok,
         UNCHANGED <<args, pc, attackMode, calm, unreset, verdict, quiet, undone>>,
         mode' \in ModeOps, gauge' \in BOOLEAN, edge' \in BOOLEAN,
         faults' = faults \/ Fault,
         muddled' \in BOOLEAN, muddled => muddled'
  PROVE  DetTypes' /\ DetCalls' /\ DetCalm' /\ DetQuiet'
<1>0. /\ faults \in 0..MaxFaults /\ faults' \in 0..MaxFaults /\ faults \in Nat
      /\ faults' = faults \/ faults' = faults + 1
  BY FaultAssumption DEF Fault, DetInv, DetTypes
<1>1. DetTypes'
  BY <1>0, AnswerShape DEF DetInv, DetTypes
<1>2. DetCalls'
  BY AnswerShape DEF DetInv, DetCalls
<1>3. (AwaitsRelax' <=> AwaitsRelax) /\ (AwaitsEngage' <=> AwaitsEngage)
  BY AnswerShape DEF AwaitsRelax, AwaitsEngage
<1>4. DetCalm'
  <2> DEFINE nf == faults'
  <2>0. calm' = calm /\ nf = faults' /\ (nf = faults \/ nf = faults + 1)
    BY <1>0
  <2> HIDE DEF nf
  <2>a. faults \in Nat /\ (nf = faults \/ nf = faults + 1)
    BY <2>0, <1>0
  <2>1. CASE AwaitsRelax
    <3>1. calm \in Nat /\ calm <= ExitTicks + faults
      BY <2>1 DEF DetInv, DetTypes, DetCalm
    <3>2. calm <= ExitTicks + nf
      BY <3>1, <2>a, ExitAssumption
    <3> QED BY <3>2, <1>3, <2>0, <2>1 DEF DetCalm
  <2>2. CASE ~AwaitsRelax
    <3>1. calm \in Nat /\ calm <= ExitTicks - 1 + faults
      BY <2>2 DEF DetInv, DetTypes, DetCalm
    <3>2. calm <= ExitTicks - 1 + nf
      BY <3>1, <2>a, ExitAssumption
    <3> QED BY <3>2, <1>3, <2>0, <2>2 DEF DetCalm
  <2> QED BY <2>1, <2>2
<1>5. DetQuiet'
  BY <1>3 DEF DetInv, DetQuiet
<1> QED BY <1>1, <1>2, <1>4, <1>5

\* The part of it that the mode and the edge depend on.
LEMMA AnswerLeaves ==
  ASSUME DetInv, NEW k \in calls, NEW ok \in BOOLEAN, Answer(k, ok)
  PROVE  \A j \in calls' : \E i \in calls :
            /\ j.id = i.id /\ j.op = i.op
            /\ \/ i = j /\ i # k
               \/ i = k /\ j.at = "done"
BY AnswerShape

LEMMA ScrubAwaited ==
  ASSUME DetInv, ~muddled, NEW k \in calls
  PROVE  /\ k.op \in ScrubOps => k.id = 0
         /\ k.at = "store" => (edge <=> k.op = "engage")
<1>1. DetEdge
  BY DEF DetInv
<1>2. \A j \in calls : /\ j.op \in ScrubOps => j.id = 0
                       /\ j.at = "store" => (edge <=> j.op = "engage")
  BY <1>1, Zenon DEF DetEdge
<1> QED BY <1>2

LEMMA HandleModeKeeps ==
  ASSUME DetInv,
         NEW k \in calls, HandleMode(k)
  PROVE  DetInv'
<1>1. /\ k.at = "sent" /\ k.op \in ModeOps /\ mode' = k.op /\ Answer(k, TRUE)
      /\ UNCHANGED <<args, pc, attackMode, calm, unreset, gauge, edge, faults, verdict, quiet,
                     undone, muddled>>
      /\ gauge \in BOOLEAN /\ edge \in BOOLEAN /\ muddled \in BOOLEAN
  BY DEF HandleMode, detector, DetInv, DetTypes
<1>2. DetTypes' /\ DetCalls' /\ DetCalm' /\ DetQuiet'
  BY <1>1, AnswerKeeps
<1>3. DetMode'
  <2>1. \A j \in calls' : \E i \in calls :
            j.op = i.op /\ ((i = j /\ i # k) \/ (i = k /\ j.at = "done"))
    BY <1>1, AnswerLeaves
  <2>2. ~undone => mode' = "always" /\ \A i \in calls : i.op # "adaptive"
    <3>1. DetMode
      BY DEF DetInv
    <3>2. ~undone => \A i \in calls : i.op # "adaptive"
      BY <3>1 DEF DetMode
    <3> QED BY <1>1, <3>2 DEF ModeOps
  <2> QED BY <1>1, <2>1, <2>2 DEF DetMode, BeliefHolds
<1>4. DetEdge'
  <2>1. k.op \notin ScrubOps
    BY <1>1 DEF ModeOps, ScrubOps
  <2> QED BY <1>1, <2>1, AnswerShape DEF DetInv, DetEdge
<1> QED BY <1>2, <1>3, <1>4 DEF DetInv

LEMMA StoreGaugeKeeps ==
  ASSUME DetInv,
         NEW k \in calls, StoreGauge(k)
  PROVE  DetInv'
<1>1. /\ k.at = "store" /\ k.op \in ScrubOps /\ gauge' = (k.op = "engage") /\ Answer(k, TRUE)
      /\ UNCHANGED <<args, pc, attackMode, calm, unreset, mode, edge, faults, verdict, quiet,
                     undone, muddled>>
      /\ mode \in ModeOps /\ edge \in BOOLEAN /\ muddled \in BOOLEAN
  BY DEF StoreGauge, detector, DetInv, DetTypes, DetCalls
<1>2. DetTypes' /\ DetCalls' /\ DetCalm' /\ DetQuiet'
  BY <1>1, AnswerKeeps
<1>3. DetMode'
  <2>1. k.op \notin ModeOps
    BY <1>1 DEF ModeOps, ScrubOps
  <2>2. k.op # "always"
    BY <2>1 DEF ModeOps
  <2>3. \A j \in calls' : \E i \in calls :
            j.op = i.op /\ ((i = j /\ i # k) \/ (i = k /\ j.at = "done"))
    BY <1>1, AnswerLeaves
  <2> QED BY <1>1, <2>2, <2>3 DEF DetInv, DetMode, BeliefHolds
<1>4. DetEdge'
  <2>1. ASSUME ~muddled
        PROVE  (gauge' <=> edge) /\ k.id = 0
    BY <2>1, <1>1, ScrubAwaited
  <2>2. \A j \in calls' : \E i \in calls :
            /\ j.id = i.id /\ j.op = i.op
            /\ ((i = j /\ i # k) \/ (i = k /\ j.at = "done"))
    BY <1>1, AnswerLeaves
  <2>3. ASSUME ~muddled, NEW j \in calls'
        PROVE  /\ j.op \in ScrubOps => j.id = 0
               /\ j.at # "store"
    <3>1. PICK i \in calls : /\ j.id = i.id /\ j.op = i.op
                            /\ ((i = j /\ i # k) \/ (i = k /\ j.at = "done"))
      BY <2>2, <2>3
    <3>2. i.op \in ScrubOps => i.id = 0
      BY <2>3, ScrubAwaited
    <3>3. i.at = "store" => i = k
      <4>1. i.at = "store" => i.id = 0
        BY <3>2 DEF DetInv, DetCalls
      <4> QED BY <4>1, <2>1, <2>3 DEF DetInv, DetCalls
    <3> QED BY <3>1, <3>2, <3>3
  <2> QED BY <1>1, <2>1, <2>3 DEF DetEdge
<1> QED BY <1>2, <1>3, <1>4 DEF DetInv

LEMMA CallEdgeKeeps ==
  ASSUME DetInv,
         NEW k \in calls, CallEdge(k)
  PROVE  DetInv'
<1>1. /\ k.at = "sent" /\ k.op \in ScrubOps /\ k.op \notin ModeOps
      /\ UNCHANGED <<args, pc, attackMode, calm, unreset, mode, gauge, verdict, quiet, undone>>
      /\ mode \in ModeOps /\ gauge \in BOOLEAN /\ edge \in BOOLEAN /\ muddled \in BOOLEAN
      /\ FALSE \in BOOLEAN
  BY DEF CallEdge, detector, DetInv, DetTypes, ScrubOps, ModeOps
<1>2. CASE /\ Fault /\ edge' \in {edge, k.op = "engage"}
           /\ muddled' = (muddled \/ edge' # edge) /\ Answer(k, FALSE)
  <2>1. edge' \in BOOLEAN /\ muddled' \in BOOLEAN /\ (muddled => muddled')
        /\ (~muddled' => ~muddled /\ edge' = edge)
    BY <1>1, <1>2
  <2>2. DetTypes' /\ DetCalls' /\ DetCalm' /\ DetQuiet'
    BY <1>1, <1>2, <2>1, AnswerKeeps
  <2>3. DetMode'
    <3>1. \A j \in calls' : \E i \in calls :
              j.op = i.op /\ ((i = j /\ i # k) \/ (i = k /\ j.at = "done"))
      BY <1>2, AnswerLeaves
    <3>2. k.op # "always"
      BY <1>1 DEF ModeOps
    <3> QED BY <1>1, <3>1, <3>2 DEF DetInv, DetMode, BeliefHolds
  <2>4. DetEdge'
    <3>1. \A j \in calls' : \E i \in calls :
            /\ j.id = i.id /\ j.op = i.op
            /\ ((i = j /\ i # k) \/ (i = k /\ j.at = "done"))
      BY <1>2, AnswerLeaves
    <3>2. k.at # "store"
      BY <1>1
    <3>3. ASSUME ~muddled' PROVE (\A j \in calls' : j.at # "store") => \A i \in calls : i.at # "store"
      <4>1. calls \ {k} \subseteq calls'
        BY <1>2, AnswerShape
      <4> QED BY <3>2, <4>1
    <3>4. ASSUME ~muddled', NEW j \in calls'
          PROVE  /\ j.op \in ScrubOps => j.id = 0
                 /\ j.at = "store" => (edge' <=> j.op = "engage")
      <4>1. PICK i \in calls : /\ j.id = i.id /\ j.op = i.op
                              /\ ((i = j /\ i # k) \/ (i = k /\ j.at = "done"))
        BY <3>1, <3>4
      <4>2. ~muddled /\ edge' = edge
        BY <2>1, <3>4
      <4>3. /\ i.op \in ScrubOps => i.id = 0
            /\ i.at = "store" => (edge <=> i.op = "engage")
        BY <4>2, ScrubAwaited
      <4> QED BY <4>1, <4>2, <4>3
    <3>5. ASSUME ~muddled', \A j \in calls' : j.at # "store"
          PROVE  gauge' <=> edge'
      <4>1. ~muddled /\ edge' = edge /\ gauge' = gauge
        BY <1>1, <2>1, <3>5
      <4>2. \A i \in calls : i.at # "store"
        BY <3>3, <3>5
      <4>3. DetEdge
        BY DEF DetInv
      <4>4. gauge <=> edge
        BY <4>1, <4>2, <4>3, Zenon DEF DetEdge
      <4> QED BY <4>1, <4>4
    <3> QED BY <3>4, <3>5, Zenon DEF DetEdge
  <2> QED BY <2>2, <2>3, <2>4 DEF DetInv
<1>3. CASE /\ edge' = (k.op = "engage")
           /\ calls' = (calls \ {k}) \cup {[k EXCEPT !.at = "store"]}
           /\ UNCHANGED <<faults, muddled>>
  <2> DEFINE n == [k EXCEPT !.at = "store"]
  <2>1. n \in DetCall /\ n.id = k.id /\ n.op = k.op /\ n.at = "store"
    BY <1>1 DEF DetInv, DetTypes, DetCall
  <2>2. calls' = (calls \ {k}) \cup {n}
    BY <1>3
  <2> HIDE DEF n
  <2>3. /\ \A i, j \in calls : i.id = 0 /\ j.id = 0 => i = j
        /\ \A i, j \in calls' : i.id = 0 /\ j.id = 0 => i = j
    BY <2>1, <2>2 DEF DetInv, DetCalls
  <2>4. DetTypes'
    BY <1>1, <1>3, <2>1, <2>2 DEF DetInv, DetTypes
  <2>5. DetCalls'
    BY <1>1, <2>1, <2>2, <2>3 DEF DetInv, DetCalls
  <2>6. (AwaitsRelax' <=> AwaitsRelax) /\ (AwaitsEngage' <=> AwaitsEngage)
    BY <2>1, <2>2 DEF AwaitsRelax, AwaitsEngage
  <2>7. DetCalm' /\ DetQuiet'
    BY <1>1, <1>3, <2>6 DEF DetInv, DetCalm, DetQuiet
  <2>8. DetMode'
    BY <1>1, <2>1, <2>2 DEF DetInv, DetMode, BeliefHolds, ScrubOps, ModeOps
  <2>9. DetEdge'
    <3>1. ASSUME ~muddled, NEW j \in calls', j.at = "store"
          PROVE  j = n
      <4>1. k.id = 0
        BY <3>1, <1>1, ScrubAwaited
      <4>2. CASE j \in calls /\ j # k
        <5>1. j.op \in ScrubOps
          BY <3>1, <4>2 DEF DetInv, DetCalls
        <5>2. j.id = 0
          BY <5>1, <3>1, <4>2, ScrubAwaited
        <5> QED BY <5>2, <4>1, <4>2, <2>3
      <4> QED BY <4>2, <2>2
    <3> QED BY <1>1, <1>3, <2>1, <2>2, <3>1 DEF DetInv, DetEdge
  <2> QED BY <2>4, <2>5, <2>7, <2>8, <2>9 DEF DetInv
<1> QED BY <1>2, <1>3 DEF CallEdge

\* A loop between two calls, a reset of the mode, a restart.
LEMMA ResetKeeps ==
  ASSUME DetInv, ResetMode
  PROVE  DetInv'
<1>0. /\ faults \in Nat /\ faults' = faults + 1 /\ faults' \in 0..MaxFaults /\ mode' = "adaptive"
      /\ undone' = TRUE
      /\ UNCHANGED <<args, pc, attackMode, calm, unreset, gauge, edge, calls, verdict, quiet,
                     muddled>>
  BY FaultAssumption DEF ResetMode, Fault, detector, DetInv, DetTypes
<1>1. DetTypes'
  BY <1>0 DEF DetInv, DetTypes, DetCall, ModeOps
<1>2. DetCalm'
  BY <1>0, ExitAssumption DEF DetInv, DetTypes, DetCalm, AwaitsRelax
<1>3. DetCalls' /\ DetQuiet' /\ DetMode' /\ DetEdge'
  BY <1>0 DEF DetInv, DetCalls, DetQuiet, DetMode, DetEdge, AwaitsEngage, BeliefHolds
<1> QED BY <1>1, <1>2, <1>3 DEF DetInv

LEMMA RestartKeeps ==
  ASSUME DetInv, Restart
  PROVE  DetInv'
<1> DEFINE nf == faults'
<1>0. /\ faults \in Nat /\ nf = faults + 1 /\ faults' = nf /\ nf \in 0..MaxFaults
      /\ mode' = "adaptive" /\ gauge' = FALSE /\ calls' = {} /\ undone' = TRUE
      /\ muddled' = (muddled \/ edge) /\ unreset' = (unreset \/ AwaitsEngage)
      /\ pc' = (IF pc = "await" THEN "sleep" ELSE pc)
      /\ UNCHANGED <<args, attackMode, calm, edge, verdict, quiet>>
  BY FaultAssumption DEF Restart, Fault, DetInv, DetTypes, AwaitsEngage
<1> HIDE DEF nf
<1>1. DetTypes'
  BY <1>0 DEF DetInv, DetTypes, DetCall, ModeOps
<1>2. DetCalm'
  <2>1. calm \in Nat /\ calm <= ExitTicks + faults
    BY ExitAssumption DEF DetInv, DetTypes, DetCalm
  <2>2. calm <= ExitTicks - 1 + nf
    BY <2>1, <1>0, ExitAssumption
  <2> QED BY <1>0, <2>2 DEF DetCalm, AwaitsRelax
<1>3. DetCalls' /\ DetQuiet' /\ DetMode' /\ DetEdge'
  BY <1>0 DEF DetInv, DetTypes, DetCalls, DetQuiet, DetMode, DetEdge, BeliefHolds
<1> QED BY <1>1, <1>2, <1>3 DEF DetInv

LEMMA PauseKeeps ==
  ASSUME DetInv, Seed \/ Wake
  PROVE  DetInv'
<1>1. /\ pc # "await" /\ pc' \in {"sleep", "idle"}
      /\ UNCHANGED <<args, attackMode, calm, unreset, mode, gauge, edge, calls, faults, verdict,
                     quiet, undone, muddled>>
  BY DEF Seed, Wake, agent
<1> QED BY <1>1 DEF DetInv, DetTypes, DetCall, DetCalls, DetCalm, DetQuiet, DetMode, DetEdge,
     AwaitsRelax, AwaitsEngage, BeliefHolds

LEMMA DetStarts ==
  ASSUME Init
  PROVE  DetInv
<1>1. DetTypes
  <2>1. 0 \in 0..MaxFaults /\ 0 \in 0..ExitTicks
    BY ExitAssumption, FaultAssumption
  <2> QED BY <2>1 DEF Init, DetTypes, ModeOps
<1>2. DetCalls /\ DetQuiet /\ DetMode /\ DetEdge
  BY DEF Init, DetCalls, DetQuiet, DetMode, DetEdge, BeliefHolds
<1>3. DetCalm
  BY ExitAssumption DEF Init, DetCalm, AwaitsRelax
<1> QED BY <1>1, <1>2, <1>3 DEF DetInv

LEMMA DetStutters ==
  ASSUME DetInv, UNCHANGED vars
  PROVE  DetInv'
BY DEF vars, detector, agent, DetInv, DetTypes, DetCalls, DetCalm, DetQuiet, DetMode,
   DetEdge, AwaitsRelax, AwaitsEngage, BeliefHolds

\* It holds throughout.
LEMMA DetInvariant ==
  Spec => []DetInv
<1>1. Init => DetInv
  BY DetStarts
<1>2. DetInv /\ [Next]_vars => DetInv'
  BY PauseKeeps, PollKeeps, ReceiveKeeps, RefuseKeeps, GiveUpKeeps, HandleModeKeeps, CallEdgeKeeps,
     StoreGaugeKeeps, ResetKeeps, RestartKeeps, DetStutters
     DEF Next, Loop, Handlers
<1> QED BY <1>1, <1>2, PTL DEF Spec

\* What follows on the answer to a call is no relax.
LEMMA ContinueSendsNoRelax ==
  ASSUME NEW j \in calls, NEW ok, Continue(j, ok), NEW k \in calls' \ calls
  PROVE  k.op # "adaptive"
<1>1. ASSUME NEW op \in {"engage", "disengage"}, SetScrub(calls \ {j}, op)
      PROVE  k.op # "adaptive"
  BY <1>1 DEF SetScrub, EndTick, Post
<1>2. ASSUME EndTick(calls \ {j})
      PROVE  FALSE
  BY <1>2 DEF EndTick
<1> QED BY <1>1, <1>2 DEF Continue, Raised, Relaxed

\* A relax is sent by no step but a poll that has counted enough calm ticks.
LEMMA RelaxOnlyWhenQuiet ==
  ASSUME DetInv, Next
  PROVE  RelaxSent /\ ~unreset => quiet' = ExitTicks
<1> SUFFICES ASSUME NEW k \in calls' \ calls, k.op = "adaptive", k.id = 0, k.at = "sent", ~unreset
             PROVE  quiet' = ExitTicks
  BY DEF RelaxSent
<1>1. CASE Seed \/ Wake \/ ResetMode \/ Restart
  BY <1>1 DEF Seed, Wake, ResetMode, Restart
<1>2. CASE Poll
  <2>1. attackMode /\ calm + 1 >= ExitTicks /\ Calm /\ ~Attack
    <3>1. ~Attack
      <4>1. CASE attackMode
        BY <4>1 DEF Attack, EndTick
      <4>2. CASE ~attackMode /\ args.dry
        BY <4>2 DEF Attack, Raised, SetScrub, EndTick
      <4>3. CASE ~attackMode /\ ~args.dry
        BY <4>3 DEF Attack, Post
      <4> QED BY <4>1, <4>2, <4>3
    <3>2. Calm
      BY <1>2, <3>1 DEF Poll
    <3>3. attackMode /\ calm + 1 >= ExitTicks
      BY <3>2 DEF Calm
    <3> QED BY <3>1, <3>2, <3>3
  <2>2. ~AwaitsEngage
    BY <1>2 DEF Poll, AwaitsEngage, DetInv, DetCalls
  <2>3. (calm <= quiet \/ quiet = ExitTicks) /\ calm \in Nat /\ quiet \in 0..ExitTicks
    BY <2>1, <2>2 DEF DetInv, DetQuiet, DetTypes
  <2>4. quiet' = IF quiet < ExitTicks THEN quiet + 1 ELSE quiet
    BY <1>2, <2>1 DEF Poll
  <2> QED BY <2>1, <2>3, <2>4, ExitAssumption
<1>3. CASE Receive
  <2>1. PICK j \in calls : j.id = 0 /\ j.at = "done" /\ Continue(j, j.ok)
    BY <1>3 DEF Receive
  <2> QED BY <2>1, ContinueSendsNoRelax
<1>4. CASE Refuse
  <2>1. PICK j \in calls : j.id = 0 /\ j.at = "sent" /\ Continue(j, FALSE)
    BY <1>4 DEF Refuse
  <2> QED BY <2>1, ContinueSendsNoRelax
<1>5. CASE GiveUp
  <2>1. PICK j \in calls : \/ calls' = calls \ {j}
                           \/ calls' = (calls \ {j}) \cup {[j EXCEPT !.id = faults']}
    BY <1>5 DEF GiveUp
  <2>2. k = [j EXCEPT !.id = faults'] /\ j \in DetCall
    BY <2>1 DEF DetInv, DetTypes
  <2>3. k.id = faults' /\ faults' = faults + 1 /\ faults \in Nat
    BY <2>2, <1>5, FaultAssumption DEF GiveUp, Fault, DetInv, DetTypes, DetCall
  <2> QED BY <2>3
<1>6. ASSUME NEW j \in calls, HandleMode(j) \/ CallEdge(j) \/ StoreGauge(j)
      PROVE  k.at # "sent"
  <2>1. j \in DetCall
    BY DEF DetInv, DetTypes
  <2>2. \/ \E ok \in BOOLEAN : Answer(j, ok)
        \/ calls' = (calls \ {j}) \cup {[j EXCEPT !.at = "store"]}
    BY <1>6 DEF HandleMode, CallEdge, StoreGauge
  <2>3. CASE calls' = (calls \ {j}) \cup {[j EXCEPT !.at = "store"]}
    BY <2>1, <2>3 DEF DetCall
  <2>4. ASSUME NEW ok \in BOOLEAN, Answer(j, ok)
        PROVE  k.at # "sent"
    BY <2>4, AnswerShape
  <2> QED BY <2>2, <2>3, <2>4
<1> QED BY <1>1, <1>2, <1>3, <1>4, <1>5, <1>6 DEF Next, Loop, Handlers

\* The types of the detector's and the agent's variables, and: at most one
\* call is awaited, by a loop that waits.
THEOREM TypeCorrect ==
  Spec => []TypeOK
<1>1. ASSUME DetInv
      PROVE  TypeOK
  <2>1. Cardinality({k \in calls : k.id = 0}) = IF pc = "await" THEN 1 ELSE 0
    <3> DEFINE awaited == {k \in calls : k.id = 0}
    <3> SUFFICES Cardinality(awaited) = IF pc = "await" THEN 1 ELSE 0
      OBVIOUS
    <3>1. CASE pc = "await"
      <4>1. PICK k \in calls : k.id = 0
        BY <1>1, <3>1 DEF DetInv, DetCalls
      <4>2. awaited = {k}
        BY <1>1, <4>1 DEF DetInv, DetCalls
      <4> QED BY <3>1, <4>2, FS_Singleton
    <3>2. CASE pc # "await"
      <4>1. awaited = {}
        BY <1>1, <3>2 DEF DetInv, DetCalls
      <4> QED BY <3>2, <4>1, FS_EmptySet
    <3> QED BY <3>1, <3>2
  <2>2. calm \in 0..(ExitTicks + MaxFaults)
    <3>1. calm <= ExitTicks + faults
      BY <1>1, ExitAssumption, FaultAssumption DEF DetInv, DetCalm, DetTypes
    <3> QED BY <1>1, <3>1, ExitAssumption, FaultAssumption DEF DetInv, DetTypes
  <2>3. DetTypes
    BY <1>1 DEF DetInv
  <2> QED BY <2>1, <2>2, <2>3, Zenon DEF DetTypes, DetCall, TypeOK, ModeOps, ScrubOps
<1> QED BY <1>1, DetInvariant, PTL

\* The detector believes in attack mode only if the agent is in it, whatever
\* calls fail, get lost or come late (_set_mode, handleMode).
THEOREM BeliefIsTrue ==
  Spec => []BeliefHolds
<1>1. DetInv => BeliefHolds
  BY DEF DetInv, DetMode
<1> QED BY <1>1, DetInvariant, PTL

\* With no scrub call under way the ScrubEngaged metric agrees with the edge,
\* until the outcome of a scrub call is lost (scrubFn, handleScrub).
THEOREM MetricIsTrue ==
  Spec => []GaugeTrue
<1>1. ASSUME DetInv
      PROVE  GaugeTrue
  <2>1. ASSUME ~muddled, \A k \in calls : k.op \in ModeOps
        PROVE  gauge = edge
    <3>1. \A k \in calls : k.at # "store"
      BY <1>1, <2>1 DEF DetInv, DetCalls, ModeOps, ScrubOps
    <3>2. DetEdge /\ gauge \in BOOLEAN /\ edge \in BOOLEAN
      BY <1>1 DEF DetInv, DetTypes
    <3>3. gauge <=> edge
      BY <2>1, <3>1, <3>2, Zenon DEF DetEdge
    <3> QED BY <3>2, <3>3
  <2> QED BY <2>1 DEF GaugeTrue
<1> QED BY <1>1, DetInvariant, PTL

\* A relax is sent only after --exit-ticks calm ticks in a row, whichever calls
\* failed, were cut off or died with the agent before, unless calm was not reset
\* since an engage was cut off (main's calm).
THEOREM RelaxesAfterCalm ==
  Spec => HysteresisKept
<1>1. DetInv /\ [Next]_vars
        => [RelaxSent /\ ~unreset => quiet' = ExitTicks]_vars
  BY RelaxOnlyWhenQuiet
<1> QED BY <1>1, DetInvariant, PTL DEF Spec, HysteresisKept

----------------------------------------------------------------------------
(* Induction, as a smallest counterexample, and sums. *)

\* A set of numbers has a least one.
LEMMA LeastNat ==
  ASSUME NEW S \in SUBSET Nat, S # {}
  PROVE  \E m \in S : \A k \in S : m <= k
<1>1. PICK x \in S : \A y \in S : ~(<<y, x>> \in OpToRel(<, Nat))
  BY NatLessThanWellFounded, WFMin
<1>2. \A y \in S : ~(y < x)
  BY <1>1 DEF OpToRel
<1> QED BY <1>2

\* What the fold over a function's values chooses next, and the equation its
\* partial results g satisfy.
Chosen(T) == CHOOSE x \in T : TRUE
Adds(g, f, S) ==
    g = [T \in SUBSET S |-> IF T = {} THEN 0 ELSE f[Chosen(T)] + g[T \ {Chosen(T)}]]
Sum(f, S) == (CHOOSE g : Adds(g, f, S))[S]

LEMMA AddsAt ==
    ASSUME NEW g, NEW f, NEW S, Adds(g, f, S), NEW T \in SUBSET S
    PROVE  g[T] = IF T = {} THEN 0 ELSE f[Chosen(T)] + g[T \ {Chosen(T)}]
<1> DEFINE h == [U \in SUBSET S |-> IF U = {} THEN 0 ELSE f[Chosen(U)] + g[U \ {Chosen(U)}]]
<1>1. g = h
  BY DEF Adds
<1>2. h[T] = IF T = {} THEN 0 ELSE f[Chosen(T)] + g[T \ {Chosen(T)}]
  OBVIOUS
<1> HIDE DEF h
<1> QED BY <1>1, <1>2

LEMMA ChosenIn == ASSUME NEW T, T # {} PROVE Chosen(T) \in T
BY DEF Chosen

\* Induction on the size of finite sets: of some sets one is smallest.
LEMMA SmallestSet ==
    ASSUME NEW S, IsFiniteSet(S), NEW B \in SUBSET (SUBSET S), B # {}
    PROVE  \E T \in B : \A x \in T : T \ {x} \notin B
<1>1. \A T \in SUBSET S : IsFiniteSet(T) /\ Cardinality(T) \in Nat
  BY FS_Subset, FS_CardinalityType
<1> DEFINE N == {Cardinality(T) : T \in B}
<1>2. N \in SUBSET Nat /\ N # {}
  BY <1>1
<1>3. PICK m \in N : \A k \in N : m <= k
  BY <1>2, LeastNat
<1>4. PICK T \in B : Cardinality(T) = m
  OBVIOUS
<1>5. ASSUME NEW x \in T PROVE T \ {x} \notin B
  <2>1. Cardinality(T \ {x}) = m - 1 /\ m \in Nat
    BY <1>1, <1>4, FS_RemoveElement
  <2>2. ~(m <= m - 1)
    BY <2>1
  <2> QED BY <1>3, <2>1, <2>2
<1> QED BY <1>5

\* The partial results are numbers.
LEMMA AddsType ==
    ASSUME NEW g, NEW f, NEW S, IsFiniteSet(S), Adds(g, f, S), \A x \in S : f[x] \in Int
    PROVE  \A T \in SUBSET S : g[T] \in Int
<1> DEFINE B == {T \in SUBSET S : g[T] \notin Int}
<1>1. SUFFICES ASSUME B # {} PROVE FALSE
  OBVIOUS
<1>2. PICK T \in B : \A x \in T : T \ {x} \notin B
  BY <1>1, SmallestSet
<1>3. g[T] = IF T = {} THEN 0 ELSE f[Chosen(T)] + g[T \ {Chosen(T)}]
  BY AddsAt
<1>4. T # {} => Chosen(T) \in T /\ g[T \ {Chosen(T)}] \in Int
  BY <1>2, ChosenIn
<1> QED BY <1>3, <1>4

\* The order in which the values are added does not matter.
LEMMA AddsAny ==
    ASSUME NEW g, NEW f, NEW S, IsFiniteSet(S), Adds(g, f, S), \A x \in S : f[x] \in Int
    PROVE  \A T \in SUBSET S : \A x \in T : g[T] = f[x] + g[T \ {x}]
<1> DEFINE B == {T \in SUBSET S : \E x \in T : g[T] # f[x] + g[T \ {x}]}
<1>1. SUFFICES ASSUME B # {} PROVE FALSE
  OBVIOUS
<1>2. PICK T \in B : \A x \in T : T \ {x} \notin B
  BY <1>1, SmallestSet
<1>3. PICK x \in T : g[T] # f[x] + g[T \ {x}]
  OBVIOUS
<1> DEFINE y == Chosen(T)
<1>4. y \in T /\ g[T] = f[y] + g[T \ {y}]
  BY <1>3, AddsAt, ChosenIn
<1>5. x # y
  BY <1>3, <1>4
<1> HIDE DEF y
<1> DEFINE U == T \ {x}
           V == T \ {y}
           W == T \ {x, y}
<1>6. /\ U \in SUBSET S /\ V \in SUBSET S /\ W \in SUBSET S
      /\ U \ {y} = W /\ V \ {x} = W /\ y \in U /\ x \in V
  BY <1>4, <1>5
<1>7. U \notin B /\ V \notin B
  BY <1>2, <1>4
<1>8. g[U] = f[y] + g[W] /\ g[V] = f[x] + g[W]
  BY <1>6, <1>7
<1>9. g[W] \in Int /\ f[x] \in Int /\ f[y] \in Int
  BY <1>4, <1>6, AddsType
<1> HIDE DEF B, U, V, W
<1>10. g[T] = f[x] + g[U]
  BY <1>4, <1>8, <1>9 DEF V
<1> QED BY <1>3, <1>10 DEF U

\* Equal values have equal sums, whatever else the functions are defined on.
LEMMA AddsSame ==
    ASSUME NEW P, IsFiniteSet(P), NEW S, P \subseteq S, NEW R, P \subseteq R,
           NEW f, NEW e, \A x \in P : f[x] = e[x],
           NEW g, Adds(g, f, S), NEW h, Adds(h, e, R)
    PROVE  \A T \in SUBSET P : g[T] = h[T]
<1> DEFINE B == {T \in SUBSET P : g[T] # h[T]}
<1>1. SUFFICES ASSUME B # {} PROVE FALSE
  OBVIOUS
<1>2. PICK T \in B : \A x \in T : T \ {x} \notin B
  BY <1>1, SmallestSet
<1>s. T \in SUBSET P /\ g[T] # h[T]
  OBVIOUS
<1>m. \A x \in T : g[T \ {x}] = h[T \ {x}]
  BY <1>2
<1> HIDE DEF B
<1>r. T \in SUBSET S /\ T \in SUBSET R
  BY <1>s
<1>a. \A U \in SUBSET S : g[U] = IF U = {} THEN 0 ELSE f[Chosen(U)] + g[U \ {Chosen(U)}]
  BY AddsAt
<1>3. g[T] = IF T = {} THEN 0 ELSE f[Chosen(T)] + g[T \ {Chosen(T)}]
  BY <1>r, <1>a
<1>b. \A U \in SUBSET R : h[U] = IF U = {} THEN 0 ELSE e[Chosen(U)] + h[U \ {Chosen(U)}]
  BY AddsAt
<1>5. h[T] = IF T = {} THEN 0 ELSE e[Chosen(T)] + h[T \ {Chosen(T)}]
  BY <1>r, <1>b
<1>4. T # {} => Chosen(T) \in T /\ g[T \ {Chosen(T)}] = h[T \ {Chosen(T)}]
  BY <1>m, ChosenIn
<1>6. T # {} => f[Chosen(T)] = e[Chosen(T)]
  BY <1>s, <1>4
<1> QED BY <1>s, <1>3, <1>4, <1>5, <1>6

\* There are such partial results.
LEMMA AddsExists ==
    ASSUME NEW f, NEW S, IsFiniteSet(S)
    PROVE  \E g : Adds(g, f, S)
<1> DEFINE Rec(g, T) == IF T = {} THEN 0 ELSE f[Chosen(T)] + g[T \ {Chosen(T)}]
           Good(n) == \E g : /\ DOMAIN g = SUBSET S /\ g = [T \in SUBSET S |-> g[T]]
                             /\ \A T \in SUBSET S : Cardinality(T) <= n => g[T] = Rec(g, T)
           B == {n \in Nat : ~Good(n)}
<1>0. \A T \in SUBSET S : IsFiniteSet(T) /\ Cardinality(T) \in Nat
  BY FS_Subset, FS_CardinalityType
<1>e. \A T \in SUBSET S : Cardinality(T) = 0 => T = {}
  BY <1>0, FS_EmptySet
<1>1. B = {}
  <2> SUFFICES ASSUME B # {} PROVE FALSE
    OBVIOUS
  <2>1. PICK n \in B : \A k \in B : n <= k
    BY LeastNat
  <2>2. n \in Nat
    OBVIOUS
  <2>3. CASE n = 0
    <3> DEFINE g == [T \in SUBSET S |-> 0]
    <3>1. ASSUME NEW T \in SUBSET S, Cardinality(T) <= n PROVE g[T] = Rec(g, T)
      <4>1. T = {}
        BY <1>0, <1>e, <2>3, <3>1
      <4> QED BY <4>1
    <3>2. DOMAIN g = SUBSET S /\ g = [T \in SUBSET S |-> g[T]]
      OBVIOUS
    <3> HIDE DEF g
    <3>3. Good(n)
      BY <3>1, <3>2
    <3> QED BY <3>3
  <2>4. CASE n # 0
    <3>1. n - 1 \in Nat /\ ~(n <= n - 1)
      BY <2>2, <2>4
    <3>2. n - 1 \notin B
      BY <2>1, <3>1
    <3>3. Good(n - 1)
      BY <3>1, <3>2
    <3>4. PICK g : /\ DOMAIN g = SUBSET S /\ g = [T \in SUBSET S |-> g[T]]
                   /\ \A T \in SUBSET S : Cardinality(T) <= n - 1 => g[T] = Rec(g, T)
      BY <3>3
    <3> DEFINE h == [T \in SUBSET S |-> Rec(g, T)]
    <3>5. ASSUME NEW T \in SUBSET S, Cardinality(T) <= n PROVE h[T] = Rec(h, T)
      <4>1. CASE T = {}
        BY <4>1
      <4>2. CASE T # {}
        <5> DEFINE U == T \ {Chosen(T)}
        <5>1. Chosen(T) \in T /\ U \in SUBSET S
          BY <4>2, ChosenIn
        <5>2. Cardinality(U) = Cardinality(T) - 1
          BY <1>0, <5>1, FS_RemoveElement
        <5>3. Cardinality(U) <= n - 1
          BY <1>0, <2>2, <3>5, <5>2
        <5>4. h[U] = g[U]
          BY <3>4, <5>1, <5>3
        <5> QED BY <4>2, <5>4
      <4> QED BY <4>1, <4>2
    <3>6. DOMAIN h = SUBSET S /\ h = [T \in SUBSET S |-> h[T]]
      OBVIOUS
    <3> HIDE DEF h
    <3>7. Good(n)
      BY <3>5, <3>6
    <3> QED BY <3>7
  <2> QED BY <2>3, <2>4
<1>2. Cardinality(S) \in Nat
  BY <1>0
<1>3. Good(Cardinality(S))
  BY <1>1, <1>2
<1>4. PICK g : /\ DOMAIN g = SUBSET S /\ g = [T \in SUBSET S |-> g[T]]
               /\ \A T \in SUBSET S : Cardinality(T) <= Cardinality(S) => g[T] = Rec(g, T)
  BY <1>3
<1>5. \A T \in SUBSET S : Cardinality(T) <= Cardinality(S)
  BY FS_Subset
<1>6. g = [T \in SUBSET S |-> Rec(g, T)]
  BY <1>4, <1>5
<1> QED BY <1>6 DEF Adds

LEMMA SumAdds ==
    ASSUME NEW f, NEW S, IsFiniteSet(S)
    PROVE  \E g : Adds(g, f, S) /\ Sum(f, S) = g[S]
BY AddsExists DEF Sum

\* The sum over nothing, and over one more value.
LEMMA SumNone == ASSUME NEW f PROVE Sum(f, {}) = 0
<1>1. PICK g : Adds(g, f, {}) /\ Sum(f, {}) = g[{}]
  BY SumAdds, FS_EmptySet
<1> QED BY <1>1, AddsAt

\* f has e's values on S, and one more at x.
OneMore(f, e, S, x) ==
    /\ IsFiniteSet(S) /\ x \notin S
    /\ \A y \in S : f[y] = e[y]
    /\ \A y \in S \cup {x} : f[y] \in Int

LEMMA SumMore ==
    ASSUME NEW S, NEW x, NEW f, NEW e, OneMore(f, e, S, x)
    PROVE  /\ Sum(f, S \cup {x}) = f[x] + Sum(e, S)
           /\ Sum(e, S) \in Int
<1>0. /\ IsFiniteSet(S) /\ x \notin S
      /\ \A y \in S : f[y] = e[y]
      /\ \A y \in S \cup {x} : f[y] \in Int
  BY DEF OneMore
<1> DEFINE R == S \cup {x}
<1>1. IsFiniteSet(R) /\ S \subseteq R /\ R \ {x} = S /\ x \in R
  BY <1>0, FS_AddElement
<1>2. \A y \in S : e[y] \in Int
  BY <1>0
<1>3. PICK g : Adds(g, f, R) /\ Sum(f, R) = g[R]
  BY <1>1, SumAdds
<1>4. PICK h : Adds(h, e, S) /\ Sum(e, S) = h[S]
  BY <1>0, SumAdds
<1>5. \A y \in R : f[y] \in Int
  BY <1>0
<1> HIDE DEF R
<1>6. g[R] = f[x] + g[S]
  BY <1>1, <1>3, <1>5, AddsAny
<1>7. g[S] = h[S]
  BY <1>0, <1>1, <1>3, <1>4, AddsSame
<1>8. h[S] \in Int
  BY <1>0, <1>2, <1>4, AddsType
<1> QED BY <1>3, <1>4, <1>6, <1>7, <1>8 DEF R

LEMMA FoldIs == ASSUME NEW f PROVE FoldFunction(+, 0, f) = Sum(f, DOMAIN f)
BY DEF Sum, Adds, Chosen, MapThenFoldSet, FoldFunction, FoldFunctionOnSet

----------------------------------------------------------------------------
(* The Minecraft proxy. *)

\* One step of readVarInt at place i of p, where f is what it reads after it.
Group1(f, p, i, n) ==
    IF n = MaxVarInt \/ i + n > Len(p) THEN NoInt
    ELSE IF p[i + n] < Group THEN [val |-> p[i + n], next |-> i + n + 1]
    ELSE IF f[n + 1] = NoInt THEN NoInt
    ELSE [f[n + 1] EXCEPT !.val = (p[i + n] - Group) + Group * f[n+1].val]

Reader(p, i) == CHOOSE f : f = [n \in 0..MaxVarInt |-> Group1(f, p, i, n)]

LEMMA VarIntReads ==
  ASSUME NEW p, NEW i
  PROVE  VarInt(p, i) = Reader(p, i)[0]
BY Zenon DEF VarInt, Reader, Group1

Read1 == [val : Nat, next : Nat]

LEMMA GroupType ==
  ASSUME ProtocolAssumption, NEW p \in Seq(0..(2 * Group - 1)), NEW i \in Nat \ {0},
         NEW n \in 0..MaxVarInt, NEW f, n < MaxVarInt => f[n + 1] \in Read1
  PROVE  Group1(f, p, i, n) \in Read1
<1>1. NoInt \in Read1
  BY DEF NoInt, Read1
<1>2. Group \in Nat /\ MaxVarInt \in Nat
  BY DEF ProtocolAssumption
<1>3. CASE \/ n = MaxVarInt \/ i + n > Len(p)
           \/ f[n + 1] = NoInt /\ ~(p[i + n] < Group)
  BY <1>1, <1>3 DEF Group1
<1>4. CASE n < MaxVarInt /\ i + n <= Len(p)
  <2>1. p[i + n] \in 0..(2 * Group - 1)
    BY <1>2, <1>4
  <2>2. CASE p[i + n] < Group
    <3>1. Group1(f, p, i, n) = [val |-> p[i + n], next |-> i + n + 1]
      BY <2>2, <1>2, <1>4 DEF Group1
    <3>2. p[i + n] \in Nat /\ i + n + 1 \in Nat
      BY <2>1, <1>2
    <3> QED BY <3>1, <3>2 DEF Read1
  <2>3. CASE p[i + n] >= Group
    <3> DEFINE v == f[n + 1].val
    <3>1. v \in Nat /\ f[n + 1] \in Read1
      BY <1>4 DEF Read1
    <3>2. Group * v \in Nat /\ p[i + n] - Group \in Nat
      BY <3>1, <2>1, <2>3, <1>2
    <3>3. (p[i + n] - Group) + Group * v \in Nat
      <4> DEFINE w == Group * v
                 d == p[i + n] - Group
      <4>1. w \in Nat /\ d \in Nat
        BY <3>2
      <4> HIDE DEF w, d
      <4>2. d + w \in Nat
        BY <4>1
      <4> QED BY <4>2 DEF w, d
    <3> HIDE DEF v
    <3>4. [f[n + 1] EXCEPT !.val = (p[i + n] - Group) + Group * v] \in Read1
      BY <3>1, <3>3 DEF Read1
    <3>5. CASE f[n + 1] = NoInt
      BY <3>5, <2>1, <2>3, <1>1, <1>2, <1>4 DEF Group1
    <3>6. CASE f[n + 1] # NoInt
      <4>1. ~(n = MaxVarInt \/ i + n > Len(p)) /\ ~(p[i + n] < Group)
        BY <2>1, <2>3, <1>2, <1>4
      <4>2. Group1(f, p, i, n) = [f[n + 1] EXCEPT !.val = (p[i + n] - Group) + Group * f[n + 1].val]
        BY <4>1, <3>6 DEF Group1
      <4> QED BY <4>2, <3>4 DEF v
    <3> QED BY <3>5, <3>6
  <2> QED BY <2>1, <2>2, <2>3, <1>2
<1>5. n <= MaxVarInt /\ n \in Nat /\ Len(p) \in Nat
  BY <1>2
<1> QED BY <1>2, <1>3, <1>4, <1>5

\* The recursion in readVarInt is well founded: such a function exists.
LEMMA ReaderExists ==
  ASSUME ProtocolAssumption, NEW p \in Seq(0..(2 * Group - 1)), NEW i \in Nat \ {0}
  PROVE  Reader(p, i) = [n \in 0..MaxVarInt |-> Group1(Reader(p, i), p, i, n)]
<1> DEFINE Good == {m \in 0..MaxVarInt : \E f \in [m..MaxVarInt -> Read1] :
                       \A n \in m..MaxVarInt : f[n] = Group1(f, p, i, n)}
<1>0. MaxVarInt \in Nat
  BY DEF ProtocolAssumption
<1>1. MaxVarInt \in Good
  <2> DEFINE f == [n \in MaxVarInt..MaxVarInt |-> NoInt]
  <2>1. f \in [MaxVarInt..MaxVarInt -> Read1]
    BY DEF NoInt, Read1
  <2>2. \A n \in MaxVarInt..MaxVarInt : f[n] = Group1(f, p, i, n)
    BY <1>0 DEF Group1
  <2>3. MaxVarInt \in 0..MaxVarInt
    BY <1>0
  <2> HIDE DEF f
  <2> QED BY <2>1, <2>2, <2>3
<1>2. ASSUME NEW m \in Good, m > 0
      PROVE  m - 1 \in Good
  <2>0. m \in 1..MaxVarInt /\ m - 1 \in 0..MaxVarInt
    BY <1>0, <1>2
  <2>1. PICK f \in [m..MaxVarInt -> Read1] : \A n \in m..MaxVarInt : f[n] = Group1(f, p, i, n)
    BY <1>2
  <2> DEFINE g == [n \in (m - 1)..MaxVarInt |-> IF n = m - 1 THEN Group1(f, p, i, n) ELSE f[n]]
  <2>2. \A n \in m..MaxVarInt : g[n] = f[n]
    BY <2>0, <1>0
  <2>3. \A n \in (m - 1)..MaxVarInt : Group1(g, p, i, n) = Group1(f, p, i, n)
    <3> SUFFICES ASSUME NEW n \in (m - 1)..MaxVarInt
                 PROVE  Group1(g, p, i, n) = Group1(f, p, i, n)
      OBVIOUS
    <3>1. CASE n = MaxVarInt
      BY <3>1 DEF Group1
    <3>2. CASE n # MaxVarInt
      <4>1. n + 1 \in m..MaxVarInt
        BY <3>2, <2>0, <1>0
      <4>2. g[n + 1] = f[n + 1]
        BY <4>1, <2>2
      <4> HIDE DEF g
      <4> QED BY <4>2 DEF Group1
    <3> QED BY <3>1, <3>2
  <2>4. Group1(f, p, i, m - 1) \in Read1
    <3>1. m - 1 < MaxVarInt => f[(m - 1) + 1] \in Read1
      BY <2>0, <2>1, <1>0
    <3> QED BY <3>1, <2>0, GroupType
  <2>5. g \in [(m - 1)..MaxVarInt -> Read1]
    BY <2>1, <2>4, <2>0, <1>0
  <2>6. \A n \in (m - 1)..MaxVarInt : g[n] = Group1(g, p, i, n)
    <3> SUFFICES ASSUME NEW n \in (m - 1)..MaxVarInt
                 PROVE  g[n] = Group1(f, p, i, n)
      BY <2>3
    <3>1. CASE n = m - 1
      BY <3>1
    <3>2. CASE n # m - 1
      <4>1. n \in m..MaxVarInt
        BY <3>2, <2>0, <1>0
      <4> QED BY <4>1, <2>1, <2>2
    <3> QED BY <3>1, <3>2
  <2> HIDE DEF g
  <2> QED BY <2>0, <2>5, <2>6
<1>3. 0 \in Good
  <2>a. Good \subseteq 0..MaxVarInt
    OBVIOUS
  <2> HIDE DEF Good
  <2>1. Good \in SUBSET Nat /\ Good # {}
    BY <2>a, <1>0, <1>1
  <2>2. PICK m \in Good : \A k \in Good : m <= k
    BY <2>1, LeastNat
  <2>3. m \in Nat
    BY <2>1
  <2>4. CASE m > 0
    <3>1. m - 1 \in Good
      BY <1>2, <2>4
    <3> QED BY <3>1, <2>2, <2>3
  <2> QED BY <2>3, <2>4
<1>4. PICK f \in [0..MaxVarInt -> Read1] : \A n \in 0..MaxVarInt : f[n] = Group1(f, p, i, n)
  BY <1>3
<1>5. f = [n \in 0..MaxVarInt |-> Group1(f, p, i, n)]
  BY <1>4
<1> QED BY <1>5, Zenon DEF Reader

\* What the code reads is a number, at every place.
LEMMA ReaderType ==
  ASSUME ProtocolAssumption, NEW p \in Seq(0..(2 * Group - 1)), NEW i \in Nat \ {0}
  PROVE  \A n \in 0..MaxVarInt : Reader(p, i)[n] \in Read1
<1> DEFINE f == Reader(p, i)
           Bad == {k \in 0..MaxVarInt : f[MaxVarInt - k] \notin Read1}
<1>0. MaxVarInt \in Nat
  BY DEF ProtocolAssumption
<1>1. f = [n \in 0..MaxVarInt |-> Group1(f, p, i, n)]
  BY ReaderExists
<1> HIDE DEF f
<1>2. \A n \in 0..MaxVarInt : f[n] = Group1(f, p, i, n)
  BY <1>1
<1>3. Bad = {}
  <2> SUFFICES ASSUME Bad # {}
               PROVE  FALSE
    OBVIOUS
  <2>1. Bad \in SUBSET Nat
    BY <1>0
  <2>2. PICK k \in Bad : \A j \in Bad : k <= j
    BY <2>1, LeastNat
  <2>3. k \in 0..MaxVarInt /\ f[MaxVarInt - k] \notin Read1
    OBVIOUS
  <2> DEFINE n == MaxVarInt - k
  <2>4. n \in 0..MaxVarInt
    BY <2>3, <1>0
  <2>5. n < MaxVarInt => f[n + 1] \in Read1
    <3> SUFFICES ASSUME n < MaxVarInt
                 PROVE  f[n + 1] \in Read1
      OBVIOUS
    <3>1. k - 1 \in 0..MaxVarInt /\ MaxVarInt - (k - 1) = n + 1 /\ ~(k <= k - 1)
      BY <2>3, <1>0
    <3>2. k - 1 \notin Bad
      BY <2>2, <3>1
    <3> QED BY <3>1, <3>2
  <2> HIDE DEF n
  <2>6. Group1(f, p, i, n) \in Read1
    BY <2>4, <2>5, GroupType
  <2> QED BY <2>3, <2>4, <2>6, <1>2 DEF n
<1>4. \A n \in 0..MaxVarInt : MaxVarInt - n \in 0..MaxVarInt /\ MaxVarInt - (MaxVarInt - n) = n
  BY <1>0
<1>5. \A n \in 0..MaxVarInt : f[n] \in Read1
  BY <1>3, <1>4
<1> QED BY <1>5 DEF f

LEMMA VarIntType ==
  ASSUME ProtocolAssumption, NEW p \in Seq(0..(2 * Group - 1)), NEW i \in Nat \ {0}
  PROVE  VarInt(p, i) \in Read1
<1>1. 0 \in 0..MaxVarInt
  BY DEF ProtocolAssumption
<1> QED BY <1>1, ReaderType, VarIntReads

Byte == 0..(2 * Group - 1)

\* The weights of the groups exist, as their definition by recursion says.
LEMMA Weights ==
  ASSUME ProtocolAssumption
  PROVE  /\ Weight[0] = 1
         /\ \A n \in 0..MaxVarInt : Weight[n] \in Nat
         /\ \A n \in 0..(MaxVarInt - 1) : Weight[n + 1] = Group * Weight[n]
<1> DEFINE W(f, n) == IF n = 0 THEN 1 ELSE Group * f[n - 1]
           Good == {m \in 0..MaxVarInt : \E f \in [0..m -> Nat] : \A n \in 0..m : f[n] = W(f, n)}
<1>0. MaxVarInt \in Nat \ {0} /\ Group \in Nat
  BY DEF ProtocolAssumption
<1>1. 0 \in Good
  <2> DEFINE f == [n \in 0..0 |-> 1]
  <2>1. \A n \in 0..0 : n = 0 /\ f[n] = 1
    OBVIOUS
  <2>2. f \in [0..0 -> Nat] /\ 0 \in 0..MaxVarInt
    BY <1>0
  <2> HIDE DEF f
  <2>3. \A n \in 0..0 : f[n] = W(f, n)
    BY <2>1
  <2> QED BY <2>2, <2>3
<1>2. ASSUME NEW m \in Good, m < MaxVarInt
      PROVE  m + 1 \in Good
  <2>0. m \in 0..MaxVarInt /\ m \in Nat /\ m + 1 \in 0..MaxVarInt
    BY <1>0, <1>2
  <2>1. PICK f \in [0..m -> Nat] : \A n \in 0..m : f[n] = W(f, n)
    BY <1>2
  <2> DEFINE w == Group * f[m]
             g == [n \in 0..(m + 1) |-> IF n = m + 1 THEN w ELSE f[n]]
  <2>2. w \in Nat
    BY <1>0, <2>0, <2>1
  <2>3. \A n \in 0..m : g[n] = f[n]
    BY <2>0
  <2>4. g[m + 1] = w /\ g[m] = f[m]
    BY <2>0
  <2>5. g \in [0..(m + 1) -> Nat]
    <3> HIDE DEF w
    <3> QED BY <2>0, <2>1, <2>2
  <2> HIDE DEF g
  <2>6. ASSUME NEW n \in 0..(m + 1) PROVE g[n] = W(g, n)
    <3>1. CASE n = m + 1
      <4>1. n # 0 /\ n - 1 = m
        BY <3>1, <2>0
      <4> QED BY <4>1, <3>1, <2>4
    <3>2. CASE n # m + 1
      <4>1. n \in 0..m /\ (n # 0 => n - 1 \in 0..m)
        BY <3>2, <2>0
      <4>2. g[n] = f[n] /\ (n # 0 => g[n - 1] = f[n - 1])
        BY <4>1, <2>3
      <4> QED BY <4>1, <4>2, <2>1
    <3> QED BY <3>1, <3>2
  <2> QED BY <2>0, <2>5, <2>6
<1>3. MaxVarInt \in Good
  <2> DEFINE Bad == (0..MaxVarInt) \ Good
  <2>1. CASE Bad = {}
    <3> HIDE DEF Good
    <3>1. MaxVarInt \in 0..MaxVarInt
      BY <1>0
    <3> QED BY <2>1, <3>1
  <2>2. CASE Bad # {}
    <3>1. Bad \in SUBSET Nat
      BY <1>0
    <3>2. PICK m \in Bad : \A k \in Bad : m <= k
      BY <2>2, <3>1, LeastNat
    <3>3. m \in 0..MaxVarInt /\ m # 0
      BY <3>2, <1>1
    <3>4. m - 1 \in 0..MaxVarInt /\ m - 1 < MaxVarInt /\ ~(m <= m - 1) /\ (m - 1) + 1 = m
      BY <3>3, <1>0
    <3>5. m - 1 \in Good
      BY <3>2, <3>4
    <3> HIDE DEF Good
    <3> QED BY <3>2, <3>4, <3>5, <1>2
  <2> QED BY <2>1, <2>2
<1>4. PICK f \in [0..MaxVarInt -> Nat] : \A n \in 0..MaxVarInt : f[n] = W(f, n)
  BY <1>3
<1>5. f = [n \in 0..MaxVarInt |-> W(f, n)]
  BY <1>4
<1>6. Weight = [n \in 0..MaxVarInt |-> IF n = 0 THEN 1 ELSE Group * Weight[n - 1]]
  BY <1>5, Zenon DEF Weight
<1> DEFINE g == Weight
<1>7. \A n \in 0..MaxVarInt : g[n] = W(g, n)
  BY <1>6
<1> HIDE DEF g
<1>8. g[0] = 1
  BY <1>7, <1>0
<1>9. ASSUME NEW n \in 0..(MaxVarInt - 1) PROVE g[n + 1] = Group * g[n]
  <2>1. n + 1 \in 0..MaxVarInt /\ n + 1 # 0 /\ (n + 1) - 1 = n
    BY <1>0
  <2> QED BY <2>1, <1>7
<1>10. \A n \in 0..MaxVarInt : g[n] \in Nat
  <2> DEFINE Bad == {n \in 0..MaxVarInt : g[n] \notin Nat}
  <2> SUFFICES ASSUME Bad # {}
               PROVE  FALSE
    OBVIOUS
  <2>1. Bad \in SUBSET Nat
    BY <1>0
  <2>2. PICK m \in Bad : \A k \in Bad : m <= k
    BY <2>1, LeastNat
  <2>3. m \in 0..MaxVarInt /\ m # 0 /\ g[m] \notin Nat
    BY <1>8
  <2>4. m - 1 \in 0..(MaxVarInt - 1) /\ m - 1 \in 0..MaxVarInt /\ ~(m <= m - 1) /\ (m - 1) + 1 = m
    BY <2>3, <1>0
  <2>5. g[m - 1] \in Nat
    BY <2>2, <2>4
  <2>6. g[m] = Group * g[m - 1]
    BY <2>4, <1>9
  <2>7. Group * g[m - 1] \in Nat
    BY <2>5, <1>0
  <2> QED BY <2>3, <2>6, <2>7
<1> QED BY <1>8, <1>9, <1>10 DEF g

\* The group a byte carries.
Bits(x) == IF x < Group THEN x ELSE x - Group

LEMMA BitsIs ==
  ASSUME ProtocolAssumption, NEW x \in Byte
  PROVE  x % Group = Bits(x) /\ Bits(x) \in Nat
<1>1. Group \in Nat /\ Group > 1
  BY DEF ProtocolAssumption
<1>2. x \in Nat /\ x < 2 * Group
  BY <1>1 DEF Byte
<1>3. CASE x < Group
  BY <1>1, <1>2, <1>3 DEF Bits
<1>4. CASE ~(x < Group)
  BY <1>1, <1>2, <1>4 DEF Bits
<1> QED BY <1>3, <1>4

\* Place i of p begins a code of m bytes, which stands for this value.
Code(p, i, m) ==
    /\ m \in 1..MaxVarInt /\ i + m - 1 <= Len(p)
    /\ p[i + m - 1] < Group /\ \A j \in 1..(m - 1) : p[i + j - 1] >= Group
Terms(p, i, m) == [j \in 1..m |-> Bits(p[i + j - 1]) * Weight[j - 1]]
Value(p, i, m) == Sum(Terms(p, i, m), 1..m)

LEMMA ValueMore ==
  ASSUME ProtocolAssumption, NEW p \in Seq(Byte), NEW i \in Nat \ {0},
         NEW n \in 0..(MaxVarInt - 1), i + n <= Len(p)
  PROVE  /\ Value(p, i, n + 1) = Bits(p[i + n]) * Weight[n] + Value(p, i, n)
         /\ Value(p, i, n) \in Int
<1> DEFINE t == Terms(p, i, n + 1)
           u == Terms(p, i, n)
           S == 1..n
<1>0. MaxVarInt \in Nat /\ n \in Nat /\ Len(p) \in Nat
  BY DEF ProtocolAssumption
<1>1. \A j \in 1..(n + 1) : i + j - 1 \in 1..Len(p) /\ j - 1 \in 0..MaxVarInt
  BY <1>0
<1>2. \A j \in 1..(n + 1) : Bits(p[i + j - 1]) \in Nat /\ Weight[j - 1] \in Nat
  <2> SUFFICES ASSUME NEW j \in 1..(n + 1)
               PROVE  Bits(p[i + j - 1]) \in Nat /\ Weight[j - 1] \in Nat
    OBVIOUS
  <2>1. p[i + j - 1] \in Byte
    BY <1>1
  <2> QED BY <1>1, <2>1, BitsIs, Weights
<1>3. \A j \in 1..(n + 1) : t[j] \in Int
  <2> SUFFICES ASSUME NEW j \in 1..(n + 1)
               PROVE  t[j] \in Int
    OBVIOUS
  <2>1. Bits(p[i + j - 1]) \in Nat /\ Weight[j - 1] \in Nat
    BY <1>2
  <2>2. t[j] = Bits(p[i + j - 1]) * Weight[j - 1]
    BY DEF Terms
  <2> QED BY <2>1, <2>2
<1>4. \A j \in S : t[j] = u[j]
  BY <1>0 DEF Terms
<1>5. 1..(n + 1) = S \cup {n + 1} /\ n + 1 \notin S /\ IsFiniteSet(S)
  <2>1. 1..(n + 1) = S \cup {n + 1} /\ n + 1 \notin S
    BY <1>0
  <2>2. IsFiniteSet(S)
    BY <1>0, FS_Interval
  <2> QED BY <2>1, <2>2
<1>6. t[n + 1] = Bits(p[i + n]) * Weight[n]
  <2>1. n + 1 \in 1..(n + 1) /\ i + (n + 1) - 1 = i + n /\ (n + 1) - 1 = n
    BY <1>0
  <2> QED BY <2>1 DEF Terms
<1> HIDE DEF t, u, S
<1>7. OneMore(t, u, S, n + 1)
  BY <1>3, <1>4, <1>5 DEF OneMore
<1>8. Sum(t, S \cup {n + 1}) = t[n + 1] + Sum(u, S) /\ Sum(u, S) \in Int
  BY <1>7, SumMore
<1>9. Value(p, i, n + 1) = t[n + 1] + Value(p, i, n) /\ Value(p, i, n) \in Int
  BY <1>5, <1>8 DEF Value, t, u, S
<1> QED BY <1>6, <1>9

LEMMA Horner ==
  ASSUME NEW b \in Nat, NEW g \in Nat, NEW w \in Nat, NEW v \in Nat
  PROVE  w * (b + g * v) = b * w + (g * w) * v
OBVIOUS

\* A step of the reader: it ends at the last byte of a code, ...
LEMMA ReadsLast ==
  ASSUME ProtocolAssumption, NEW p \in Seq(Byte), NEW i \in Nat \ {0}, NEW m, Code(p, i, m)
  PROVE  Reader(p, i)[m - 1] = [val |-> Bits(p[i + m - 1]), next |-> i + m]
<1> DEFINE f == Reader(p, i)
           n == m - 1
<1>0. /\ MaxVarInt \in Nat /\ m \in 1..MaxVarInt /\ i + m - 1 <= Len(p) /\ p[i + m - 1] < Group
      /\ Len(p) \in Nat
  BY DEF ProtocolAssumption, Code
<1>1. f[n] = Group1(f, p, i, n)
  <2>1. n \in 0..MaxVarInt
    BY <1>0
  <2>2. f = [k \in 0..MaxVarInt |-> Group1(f, p, i, k)]
    BY ReaderExists DEF Byte
  <2> HIDE DEF f, n
  <2> QED BY <2>1, <2>2
<1>2. n # MaxVarInt /\ ~(i + n > Len(p)) /\ i + n = i + m - 1 /\ i + n + 1 = i + m
  BY <1>0
<1> HIDE DEF f, n
<1>3. Group1(f, p, i, n) = [val |-> p[i + n], next |-> i + n + 1]
  BY <1>0, <1>2 DEF Group1
<1>4. Bits(p[i + m - 1]) = p[i + n]
  BY <1>0, <1>2 DEF Bits
<1> QED BY <1>1, <1>2, <1>3, <1>4 DEF f, n

\* ... and before it takes the group of a byte and goes on.
LEMMA ReadsOn ==
  ASSUME ProtocolAssumption, NEW p \in Seq(Byte), NEW i \in Nat \ {0}, NEW m, Code(p, i, m),
         NEW n \in 0..(m - 2), Reader(p, i)[n + 1].next = i + m
  PROVE  /\ Reader(p, i)[n].next = i + m
         /\ Reader(p, i)[n].val = Bits(p[i + n]) + Group * Reader(p, i)[n + 1].val
<1> DEFINE f == Reader(p, i)
<1>0. /\ MaxVarInt \in Nat /\ m \in 1..MaxVarInt /\ i + m - 1 <= Len(p)
      /\ \A j \in 1..(m - 1) : p[i + j - 1] >= Group
      /\ Len(p) \in Nat /\ Group \in Nat
  <2> HIDE DEF f
  <2>1. MaxVarInt \in Nat /\ Group \in Nat
    BY DEF ProtocolAssumption
  <2>2. /\ m \in 1..MaxVarInt /\ i + m - 1 <= Len(p)
        /\ \A j \in 1..(m - 1) : p[i + j - 1] >= Group
    BY Zenon DEF Code
  <2> QED BY <2>1, <2>2
<1>1. n \in 0..MaxVarInt /\ n + 1 \in 0..MaxVarInt
  BY <1>0
<1>2. f[n] = Group1(f, p, i, n) /\ f[n + 1] \in Read1
  <2>1. f = [k \in 0..MaxVarInt |-> Group1(f, p, i, k)] /\ f[n + 1] \in Read1
    BY <1>1, ReaderExists, ReaderType DEF Byte
  <2> HIDE DEF f
  <2> QED BY <1>1, <2>1
<1>3. /\ n # MaxVarInt /\ ~(i + n > Len(p)) /\ ~(p[i + n] < Group) /\ p[i + n] \in Nat
  <2>1. n + 1 \in 1..(m - 1) /\ i + (n + 1) - 1 = i + n /\ i + n \in 1..Len(p)
    BY <1>0
  <2>2. p[i + n] \in Byte
    BY <2>1
  <2>3. p[i + n] >= Group
    <3>1. p[i + (n + 1) - 1] >= Group
      BY <1>0, <2>1
    <3> QED BY <2>1, <3>1
  <2>4. p[i + n] \in Nat
    BY <1>0, <2>2 DEF Byte
  <2>5. n # MaxVarInt /\ ~(i + n > Len(p))
    BY <1>0, <2>1
  <2> DEFINE x == p[i + n]
  <2> HIDE DEF x
  <2>6. x >= Group /\ x \in Nat => ~(x < Group)
    BY <1>0
  <2> QED BY <2>3, <2>4, <2>5, <2>6 DEF x
<1>4. f[n + 1] # NoInt
  <2>1. f[n + 1].next # 0
    BY <1>0
  <2> HIDE DEF f
  <2> QED BY <2>1 DEF NoInt
<1>5. f[n + 1].next = i + m
  OBVIOUS
<1> HIDE DEF f
<1>6. f[n] = [f[n + 1] EXCEPT !.val = (p[i + n] - Group) + Group * f[n + 1].val]
  BY <1>2, <1>3, <1>4 DEF Group1
<1>7. Bits(p[i + n]) = p[i + n] - Group
  BY <1>3 DEF Bits
<1>8. f[n].next = i + m /\ f[n].val = (p[i + n] - Group) + Group * f[n + 1].val
  BY <1>2, <1>5, <1>6 DEF Read1
<1> QED BY <1>7, <1>8 DEF f

\* A code is read to its end, and for what it stands for.
LEMMA ReadsCode ==
  ASSUME ProtocolAssumption, NEW p \in Seq(Byte), NEW i \in Nat \ {0}, NEW m, Code(p, i, m)
  PROVE  VarInt(p, i) = [val |-> Value(p, i, m), next |-> i + m]
<1> DEFINE f == Reader(p, i)
           e == m - 1
           w == Weight
<1>0. /\ MaxVarInt \in Nat /\ m \in 1..MaxVarInt /\ i + m - 1 <= Len(p) /\ Len(p) \in Nat
      /\ e \in Nat /\ m = e + 1 /\ e \in 0..(MaxVarInt - 1) /\ m - 2 = e - 1 /\ m - 1 = e
  BY DEF ProtocolAssumption, Code
<1>t. \A n \in 0..e : f[n] \in Read1 /\ w[n] \in Nat
  <2>1. \A n \in 0..e : n \in 0..MaxVarInt
    BY <1>0
  <2> QED BY <2>1, ReaderType, Weights DEF Byte
<1>1. f[e] = [val |-> Bits(p[i + e]), next |-> i + m]
  <2>1. i + m - 1 = i + e
    BY <1>0
  <2>2. f[m - 1] = [val |-> Bits(p[i + m - 1]), next |-> i + m]
    BY ReadsLast
  <2> HIDE DEF f, e
  <2> QED BY <1>0, <2>1, <2>2
<1>2. ASSUME NEW n \in 0..(e - 1), f[n + 1].next = i + m
      PROVE  f[n].next = i + m /\ f[n].val = Bits(p[i + n]) + Group * f[n + 1].val
  <2>1. n \in 0..(m - 2)
    BY <1>0
  <2> QED BY <1>2, <2>1, ReadsOn
<1> HIDE DEF f, e, w
<1>3. \A n \in 0..e : f[n].next = i + m
  <2> DEFINE Bad == {k \in 0..e : f[e - k].next # i + m}
  <2>1. Bad = {}
    <3> SUFFICES ASSUME Bad # {}
                 PROVE  FALSE
      OBVIOUS
    <3>1. Bad \in SUBSET Nat
      BY <1>0
    <3>2. PICK k \in Bad : \A j \in Bad : k <= j
      BY <3>1, LeastNat
    <3>3. k \in 0..e /\ f[e - k].next # i + m
      BY <3>2
    <3>4. k # 0
      <4>1. e - 0 = e /\ f[e].next = i + m
        BY <1>0, <1>1
      <4> QED BY <3>3, <4>1
    <3> DEFINE n == e - k
    <3>5. /\ k - 1 \in 0..e /\ ~(k <= k - 1) /\ e - (k - 1) = n + 1 /\ n \in 0..(e - 1)
      <4>1. k \in Nat /\ k <= e /\ k >= 1 /\ e \in Nat
        BY <1>0, <3>3, <3>4
      <4> QED BY <4>1
    <3>6. f[e - (k - 1)].next = i + m
      BY <3>2, <3>5
    <3> HIDE DEF n
    <3>7. f[n].next = i + m
      BY <1>2, <3>5, <3>6
    <3> QED BY <3>3, <3>7 DEF n
  <2>2. \A n \in 0..e : e - n \in 0..e /\ e - (e - n) = n
    BY <1>0
  <2> QED BY <2>1, <2>2
<1>b. \A n \in 0..e : Bits(p[i + n]) \in Nat
  <2> SUFFICES ASSUME NEW n \in 0..e
               PROVE  Bits(p[i + n]) \in Nat
    OBVIOUS
  <2>1. i + n \in 1..Len(p)
    BY <1>0
  <2>2. p[i + n] \in Byte
    BY <2>1
  <2> QED BY <2>2, BitsIs
<1>4. \A n \in 0..e : Value(p, i, n + 1) = Bits(p[i + n]) * w[n] + Value(p, i, n)
                      /\ Value(p, i, n) \in Int
  <2> SUFFICES ASSUME NEW n \in 0..e
               PROVE  Value(p, i, n + 1) = Bits(p[i + n]) * w[n] + Value(p, i, n)
                      /\ Value(p, i, n) \in Int
    OBVIOUS
  <2>1. n \in 0..(MaxVarInt - 1) /\ i + n <= Len(p)
    BY <1>0
  <2> QED BY <2>1, ValueMore DEF w
<1>5. \A n \in 0..e : Value(p, i, n) + w[n] * f[n].val = f[0].val
  <2> DEFINE Q(n) == Value(p, i, n) + w[n] * f[n].val = f[0].val
             Bad == {n \in 0..e : ~Q(n)}
  <2>1. Q(0)
    <3>1. Value(p, i, 0) = 0
      <4>1. 1..0 = {}
        OBVIOUS
      <4> QED BY <4>1, SumNone DEF Value
    <3>2. w[0] = 1 /\ f[0].val \in Nat
      BY <1>0, <1>t, Weights DEF w, Read1
    <3> QED BY <3>1, <3>2
  <2>2. ASSUME NEW n \in 0..(e - 1), Q(n) PROVE Q(n + 1)
    <3>1. n \in 0..e /\ n + 1 \in 0..e /\ n \in 0..(MaxVarInt - 1)
      BY <1>0
    <3> DEFINE v == f[n + 1].val
               b == Bits(p[i + n])
               a == Value(p, i, n)
    <3>2. /\ f[n].val = b + Group * v
          /\ w[n + 1] = Group * w[n]
          /\ Value(p, i, n + 1) = b * w[n] + a
      BY <3>1, <1>2, <1>3, <1>4, Weights DEF w
    <3>3. v \in Nat /\ w[n] \in Nat /\ b \in Nat /\ a \in Int /\ Group \in Nat
      BY <3>1, <1>t, <1>b, <1>4 DEF Read1, ProtocolAssumption
    <3> HIDE DEF v, b, a
    <3>4. w[n] * (b + Group * v) = b * w[n] + (Group * w[n]) * v
      BY <3>3, Horner
    <3> DEFINE x == b * w[n]
               y == (Group * w[n]) * v
    <3>5. x \in Nat /\ y \in Nat
      <4>1. Group * w[n] \in Nat
        BY <3>3
      <4> QED BY <3>3, <4>1
    <3>6. a + w[n] * (b + Group * v) = f[0].val
      BY <2>2, <3>2 DEF a
    <3>7. a + (x + y) = f[0].val
      BY <3>4, <3>6
    <3> HIDE DEF x, y
    <3>8. (x + a) + y = f[0].val
      BY <3>3, <3>5, <3>7
    <3>9. (b * w[n] + a) + (Group * w[n]) * v = f[0].val
      BY <3>8 DEF x, y
    <3> QED BY <3>2, <3>9 DEF v
  <2> HIDE DEF Q
  <2>3. Bad = {}
    <3> SUFFICES ASSUME Bad # {}
                 PROVE  FALSE
      OBVIOUS
    <3>1. Bad \in SUBSET Nat
      BY <1>0
    <3>2. PICK k \in Bad : \A j \in Bad : k <= j
      BY <3>1, LeastNat
    <3>3. k \in 0..e /\ k # 0 /\ ~Q(k)
      BY <2>1, <3>2
    <3>4. k - 1 \in 0..e /\ ~(k <= k - 1) /\ (k - 1) + 1 = k /\ k - 1 \in 0..(e - 1)
      BY <1>0, <3>3
    <3>5. Q(k - 1)
      BY <3>2, <3>4
    <3>6. Q((k - 1) + 1)
      BY <2>2, <3>4, <3>5
    <3> QED BY <3>3, <3>4, <3>6
  <2> QED BY <2>3 DEF Q
<1>6. Value(p, i, m) = f[0].val
  <2> DEFINE b == Bits(p[i + e])
             a == Value(p, i, e)
  <2>1. e \in 0..e
    BY <1>0
  <2>2. f[e].val = b
    BY <1>1
  <2>3. a + w[e] * b = f[0].val /\ Value(p, i, e + 1) = b * w[e] + a
    BY <2>1, <2>2, <1>4, <1>5
  <2>4. a \in Int /\ w[e] \in Nat /\ b \in Nat
    BY <2>1, <1>4, <1>t, <1>b
  <2> HIDE DEF a, b
  <2>5. a + w[e] * b = b * w[e] + a
    BY <2>4
  <2> QED BY <2>3, <2>5, <1>0
<1>7. f[0] \in Read1 /\ f[0].next = i + m
  BY <1>0, <1>t, <1>3
<1>8. f[0] = [val |-> Value(p, i, m), next |-> i + m]
  BY <1>6, <1>7 DEF Read1
<1> QED BY <1>8, VarIntReads DEF f

\* Without a code there is nothing to read.
LEMMA ReadsNothing ==
  ASSUME ProtocolAssumption, NEW p \in Seq(Byte), NEW i \in Nat \ {0},
         \A m : ~Code(p, i, m)
  PROVE  VarInt(p, i) = NoInt
<1> DEFINE f == Reader(p, i)
           Marked(n) == \A j \in 1..n : i + j - 1 <= Len(p) /\ p[i + j - 1] >= Group
           Bad == {k \in 0..MaxVarInt : Marked(MaxVarInt - k) /\ f[MaxVarInt - k] # NoInt}
<1>0. MaxVarInt \in Nat /\ Group \in Nat /\ Len(p) \in Nat
  BY DEF ProtocolAssumption
<1>1. \A n \in 0..MaxVarInt : f[n] = Group1(f, p, i, n)
  <2>1. f = [k \in 0..MaxVarInt |-> Group1(f, p, i, k)]
    BY ReaderExists DEF Byte
  <2> HIDE DEF f
  <2> QED BY <2>1
<1> HIDE DEF f
<1>2. ASSUME NEW n \in 0..MaxVarInt, Marked(n),
             n < MaxVarInt /\ Marked(n + 1) => f[n + 1] = NoInt
      PROVE  f[n] = NoInt
  <2>1. CASE n = MaxVarInt \/ i + n > Len(p)
    BY <1>1, <2>1 DEF Group1
  <2>2. CASE n # MaxVarInt /\ ~(i + n > Len(p))
    <3>1. /\ n < MaxVarInt /\ n + 1 \in 1..MaxVarInt /\ i + (n + 1) - 1 = i + n
          /\ i + n <= Len(p) /\ i + n \in 1..Len(p) /\ (n + 1) - 1 = n
      BY <1>0, <2>2
    <3>2. p[i + n] \in Byte
      BY <3>1
    <3>3. p[i + n] \in Nat
      BY <1>0, <3>2 DEF Byte
    <3>4. ~(p[i + n] < Group)
      <4> SUFFICES ASSUME p[i + n] < Group
                   PROVE  FALSE
        OBVIOUS
      <4>1. \A j \in 1..n : p[i + j - 1] >= Group
        BY <1>2
      <4>2. Code(p, i, n + 1)
        BY <3>1, <4>1 DEF Code
      <4> QED BY <4>2
    <3>5. p[i + n] >= Group
      <4> DEFINE x == p[i + n]
      <4> HIDE DEF x
      <4>1. x \in Nat /\ ~(x < Group) => x >= Group
        BY <1>0
      <4> QED BY <3>3, <3>4, <4>1 DEF x
    <3>6. Marked(n + 1)
      <4> SUFFICES ASSUME NEW j \in 1..(n + 1)
                   PROVE  i + j - 1 <= Len(p) /\ p[i + j - 1] >= Group
        OBVIOUS
      <4>1. CASE j = n + 1
        BY <4>1, <3>1, <3>5
      <4>2. CASE j # n + 1
        <5>1. j \in 1..n
          BY <4>2, <1>0
        <5> QED BY <5>1, <1>2
      <4> QED BY <4>1, <4>2
    <3> HIDE DEF Marked
    <3>7. f[n + 1] = NoInt
      BY <1>2, <3>1, <3>6
    <3> QED BY <1>1, <2>2, <3>4, <3>7 DEF Group1
  <2> QED BY <2>1, <2>2
<1>m. Marked(0)
  OBVIOUS
<1> HIDE DEF Marked
<1>3. Bad = {}
  <2> SUFFICES ASSUME Bad # {}
               PROVE  FALSE
    OBVIOUS
  <2>1. Bad \in SUBSET Nat
    BY <1>0
  <2>2. PICK k \in Bad : \A j \in Bad : k <= j
    BY <2>1, LeastNat
  <2> DEFINE n == MaxVarInt - k
  <2>3. k \in 0..MaxVarInt /\ Marked(n) /\ f[n] # NoInt
    BY <2>2
  <2>4. n \in 0..MaxVarInt
    BY <1>0, <2>3
  <2>5. n < MaxVarInt /\ Marked(n + 1) => f[n + 1] = NoInt
    <3> SUFFICES ASSUME n < MaxVarInt, Marked(n + 1)
                 PROVE  f[n + 1] = NoInt
      OBVIOUS
    <3>1. k - 1 \in 0..MaxVarInt /\ ~(k <= k - 1) /\ MaxVarInt - (k - 1) = n + 1
      BY <1>0, <2>3
    <3>2. k - 1 \notin Bad
      BY <2>2, <3>1
    <3> QED BY <3>1, <3>2
  <2> HIDE DEF n
  <2> QED BY <1>2, <2>3, <2>4, <2>5
<1>4. f[0] = NoInt
  <2>1. MaxVarInt \in 0..MaxVarInt /\ MaxVarInt - MaxVarInt = 0
    BY <1>0
  <2> QED BY <2>1, <1>3, <1>m
<1> QED BY <1>4, VarIntReads DEF f

\* So the code's reader does what the protocol says of a VarInt.
LEMMA OneCode ==
  ASSUME ProtocolAssumption, NEW p \in Seq(Byte), NEW i \in Nat \ {0},
         NEW m, NEW k, Code(p, i, m), Code(p, i, k)
  PROVE  m = k
<1>1. /\ m \in Nat /\ m >= 1 /\ k \in Nat /\ k >= 1 /\ i + m - 1 <= Len(p) /\ i + k - 1 <= Len(p)
      /\ Len(p) \in Nat
  BY DEF Code
<1>2. p[i + m - 1] \in Byte /\ p[i + k - 1] \in Byte
  BY <1>1
<1>3. /\ p[i + m - 1] < Group /\ p[i + k - 1] < Group
      /\ \A j \in 1..(m - 1) : p[i + j - 1] >= Group
      /\ \A j \in 1..(k - 1) : p[i + j - 1] >= Group
  BY DEF Code
<1>4. \A x \in Byte : ~(x < Group /\ x >= Group)
  BY DEF Byte, ProtocolAssumption
<1>5. k \notin 1..(m - 1) /\ m \notin 1..(k - 1)
  BY <1>2, <1>3, <1>4
<1> QED BY <1>1, <1>5

LEMMA VarIntIs ==
  ASSUME ProtocolAssumption, NEW p \in Seq(Byte), NEW i \in Nat \ {0}
  PROVE  /\ \A m : Code(p, i, m) => /\ VarInt(p, i) # NoInt
                                    /\ VarInt(p, i).next = i + m
                                    /\ VarInt(p, i).val = Value(p, i, m)
         /\ VarInt(p, i) # NoInt => \E m : Code(p, i, m)
<1>1. ASSUME NEW m, Code(p, i, m)
      PROVE  /\ VarInt(p, i) # NoInt
             /\ VarInt(p, i).next = i + m
             /\ VarInt(p, i).val = Value(p, i, m)
  <2>1. VarInt(p, i) = [val |-> Value(p, i, m), next |-> i + m]
    BY <1>1, ReadsCode
  <2>2. i + m # 0
    BY <1>1 DEF Code
  <2>3. NoInt.next = 0
    BY DEF NoInt
  <2> QED BY <2>1, <2>2, <2>3
<1> QED BY <1>1, ReadsNothing

\* The beginning of p from i to k is a code.
LEMMA CodeIs ==
  ASSUME ProtocolAssumption, NEW p \in Seq(Byte), NEW i \in Nat \ {0}, NEW k \in i..Len(p)
  PROVE  /\ IsCode(SubSeq(p, i, k)) <=> Code(p, i, k - i + 1)
         /\ Code(p, i, k - i + 1) =>
               ValueOf(SubSeq(p, i, k)) = Value(p, i, k - i + 1)
<1> DEFINE s == SubSeq(p, i, k)
           m == k - i + 1
<1>0. m \in Nat /\ m >= 1 /\ Len(p) \in Nat /\ k \in Nat /\ i \in Nat /\ k = i + m - 1
  OBVIOUS
<1>1. Len(s) = m /\ \A j \in 1..m : s[j] = p[i + j - 1]
  <2>1. \A j \in i..k : p[j] \in Byte
    BY <1>0
  <2>2. i \in Int /\ k \in Int
    BY <1>0
  <2>3. /\ Len(s) = IF i <= k THEN k - i + 1 ELSE 0
        /\ \A j \in 1..(k - i + 1) : s[j] = p[i + j - 1]
    BY <2>1, <2>2, SubSeqProperties
  <2> QED BY <2>3, <1>0
<1>2. DOMAIN s = 1..m
  <2>1. s \in Seq(Byte)
    BY <1>0
  <2> HIDE DEF s, m
  <2> QED BY <1>1, <2>1
<1> HIDE DEF s, m
<1>3. s[m] = p[i + m - 1]
  BY <1>0, <1>1
<1>4. IsCode(s) <=> Code(p, i, m)
  <2>1. \A j \in 1..(m - 1) : s[j] = p[i + j - 1]
    BY <1>0, <1>1
  <2>2. i + m - 1 <= Len(p)
    BY <1>0
  <2> QED BY <1>1, <1>3, <2>1, <2>2 DEF IsCode, Code
<1>5. Code(p, i, m) => ValueOf(s) = Value(p, i, m)
  <2> SUFFICES ASSUME Code(p, i, m)
               PROVE  ValueOf(s) = Value(p, i, m)
    OBVIOUS
  <2> DEFINE t == [j \in DOMAIN s |-> (s[j] % Group) * Weight[j - 1]]
  <2>1. \A j \in 1..m : s[j] % Group = Bits(p[i + j - 1])
    <3> SUFFICES ASSUME NEW j \in 1..m
                 PROVE  s[j] % Group = Bits(p[i + j - 1])
      OBVIOUS
    <3>1. i + j - 1 \in 1..Len(p)
      BY <1>0
    <3>2. p[i + j - 1] \in Byte
      BY <3>1
    <3> QED BY <1>1, <3>2, BitsIs
  <2>2. t = Terms(p, i, m)
    BY <1>2, <2>1 DEF Terms
  <2>3. ValueOf(s) = FoldFunction(+, 0, t)
    BY DEF ValueOf
  <2>4. DOMAIN t = 1..m
    BY <1>2
  <2> HIDE DEF t
  <2>5. ValueOf(s) = Sum(t, DOMAIN t)
    BY <2>3, FoldIs
  <2> QED BY <2>2, <2>4, <2>5 DEF Value
<1> QED BY <1>4, <1>5 DEF s, m

LEMMA ReadsIs ==
  ASSUME ProtocolAssumption, NEW p \in Seq(Byte), NEW i \in Nat \ {0}
  PROVE  /\ \A k \in i..Len(p) : IsCode(SubSeq(p, i, k)) =>
               /\ VarInt(p, i) # NoInt /\ VarInt(p, i).next = k + 1
               /\ VarInt(p, i).val = ValueOf(SubSeq(p, i, k))
         /\ VarInt(p, i) # NoInt =>
               \E k \in i..Len(p) : /\ VarInt(p, i).next = k + 1
                                    /\ IsCode(SubSeq(p, i, k))
                                    /\ VarInt(p, i).val = ValueOf(SubSeq(p, i, k))
                                    /\ VarInt(p, i).val \in Nat
<1>1. ASSUME NEW k \in i..Len(p), IsCode(SubSeq(p, i, k))
      PROVE  /\ VarInt(p, i) # NoInt /\ VarInt(p, i).next = k + 1
             /\ VarInt(p, i).val = ValueOf(SubSeq(p, i, k))
  <2>1. Code(p, i, k - i + 1) /\ ValueOf(SubSeq(p, i, k)) = Value(p, i, k - i + 1)
    BY <1>1, CodeIs
  <2>2. i + (k - i + 1) = k + 1
    OBVIOUS
  <2> QED BY <2>1, <2>2, VarIntIs
<1>2. ASSUME VarInt(p, i) # NoInt
      PROVE  \E k \in i..Len(p) : /\ VarInt(p, i).next = k + 1
                                  /\ IsCode(SubSeq(p, i, k))
                                  /\ VarInt(p, i).val = ValueOf(SubSeq(p, i, k))
                                  /\ VarInt(p, i).val \in Nat
  <2>1. PICK m : Code(p, i, m)
    BY <1>2, VarIntIs
  <2> DEFINE k == i + m - 1
  <2>2. k \in i..Len(p) /\ k - i + 1 = m /\ i + m = k + 1
    BY <2>1 DEF Code
  <2> HIDE DEF k
  <2>3. VarInt(p, i).next = k + 1 /\ VarInt(p, i).val = Value(p, i, m)
    BY <2>1, <2>2, VarIntIs
  <2>4. IsCode(SubSeq(p, i, k)) /\ ValueOf(SubSeq(p, i, k)) = Value(p, i, m)
    BY <2>1, <2>2, CodeIs
  <2>5. VarInt(p, i).val \in Nat
    BY VarIntType DEF Byte, Read1
  <2> QED BY <2>2, <2>3, <2>4, <2>5
<1> QED BY <1>1, <1>2

\* The parser of the body takes a handshake, whatever the bytes are and
\* wherever the body is cut off, and nothing else.
LEMMA ParserIsRight ==
  ASSUME ProtocolAssumption, NEW p \in Seq(Byte)
  PROVE  Parses(p) <=> IsHandshake(p)
<1>0. Len(p) \in Nat
  OBVIOUS
<1>1. ASSUME Parses(p) PROVE IsHandshake(p)
  <2> DEFINE id == VarInt(p, 1)
             version == VarInt(p, id.next)
             length == VarInt(p, version.next)
             port == length.next + length.val
             state == VarInt(p, port + 2)
  <2>1. /\ id # NoInt /\ id.val = 0 /\ version # NoInt
        /\ length # NoInt /\ port - 1 <= Len(p) /\ port + 1 <= Len(p)
        /\ state # NoInt /\ state.val \in {1, 2}
    BY <1>1 DEF Parses
  <2>2. PICK a \in 1..Len(p) : /\ id.next = a + 1 /\ IsCode(SubSeq(p, 1, a))
                               /\ id.val = ValueOf(SubSeq(p, 1, a))
    BY <2>1, ReadsIs
  <2>3. a + 1 \in Nat \ {0}
    OBVIOUS
  <2>4. PICK b \in (a + 1)..Len(p) : /\ version.next = b + 1
                                     /\ IsCode(SubSeq(p, a + 1, b))
    BY <2>1, <2>2, <2>3, ReadsIs
  <2>5. b + 1 \in Nat \ {0}
    BY <2>3
  <2>6. PICK d \in (b + 1)..Len(p) : /\ length.next = d + 1 /\ length.val \in Nat
                                     /\ IsCode(SubSeq(p, b + 1, d))
                                     /\ length.val = ValueOf(SubSeq(p, b + 1, d))
    BY <2>1, <2>4, <2>5, ReadsIs
  <2> DEFINE l == length.val
  <2>7. d \in Nat /\ l \in Nat /\ port = d + 1 + l
    BY <2>5, <2>6
  <2> HIDE DEF port, l
  <2>8. l \in 0..(Len(p) - d) /\ port + 2 = d + l + 3 /\ d + l + 3 \in Nat \ {0}
    BY <1>0, <2>1, <2>7
  <2>9. PICK e \in (d + l + 3)..Len(p) : /\ IsCode(SubSeq(p, d + l + 3, e))
                                         /\ state.val = ValueOf(SubSeq(p, d + l + 3, e))
    BY <2>1, <2>8, ReadsIs
  <2>10. /\ Encodes(SubSeq(p, 1, a), 0)
         /\ Encodes(SubSeq(p, b + 1, d), l)
         /\ \E v \in {1, 2} : Encodes(SubSeq(p, d + l + 3, e), v)
    BY <2>1, <2>2, <2>6, <2>9 DEF Encodes, l
  <2> HIDE DEF id, version, length, state
  <2> QED BY <2>4, <2>8, <2>10 DEF IsHandshake
<1>2. ASSUME IsHandshake(p) PROVE Parses(p)
  <2>1. PICK a \in 1..Len(p) : /\ Encodes(SubSeq(p, 1, a), 0)
          /\ \E b \in (a + 1)..Len(p) : /\ IsCode(SubSeq(p, a + 1, b))
               /\ \E d \in (b + 1)..Len(p) : \E length \in 0..(Len(p) - d) :
                    /\ Encodes(SubSeq(p, b + 1, d), length)
                    /\ \E e \in (d + length + 3)..Len(p) :
                         \E v \in {1, 2} : Encodes(SubSeq(p, d + length + 3, e), v)
    BY <1>2 DEF IsHandshake
  <2>2. PICK b \in (a + 1)..Len(p) : /\ IsCode(SubSeq(p, a + 1, b))
               /\ \E d \in (b + 1)..Len(p) : \E length \in 0..(Len(p) - d) :
                    /\ Encodes(SubSeq(p, b + 1, d), length)
                    /\ \E e \in (d + length + 3)..Len(p) :
                         \E v \in {1, 2} : Encodes(SubSeq(p, d + length + 3, e), v)
    BY <2>1
  <2>d. PICK d \in (b + 1)..Len(p) : \E l \in 0..(Len(p) - d) :
                    /\ Encodes(SubSeq(p, b + 1, d), l)
                    /\ \E e \in (d + l + 3)..Len(p) :
                         \E v \in {1, 2} : Encodes(SubSeq(p, d + l + 3, e), v)
    BY <2>2
  <2>3. PICK l \in 0..(Len(p) - d) :
                    /\ Encodes(SubSeq(p, b + 1, d), l)
                    /\ \E e \in (d + l + 3)..Len(p) :
                         \E v \in {1, 2} : Encodes(SubSeq(p, d + l + 3, e), v)
    BY <2>d
  <2>4. PICK e \in (d + l + 3)..Len(p), v \in {1, 2} :
                 Encodes(SubSeq(p, d + l + 3, e), v)
    BY <2>3
  <2>5. a + 1 \in Nat \ {0} /\ b + 1 \in Nat \ {0} /\ d \in Nat /\ l \in Nat
    OBVIOUS
  <2>6. /\ d + l + 3 \in Nat \ {0} /\ d + l + 3 <= Len(p) /\ (d + 1 + l) + 2 = d + l + 3
        /\ (d + 1 + l) - 1 <= Len(p) /\ (d + 1 + l) + 1 <= Len(p)
    BY <1>0, <2>4, <2>5
  <2>7. /\ VarInt(p, 1) # NoInt /\ VarInt(p, 1).next = a + 1
        /\ VarInt(p, 1).val = 0
    <3>1. IsCode(SubSeq(p, 1, a)) /\ 0 = ValueOf(SubSeq(p, 1, a))
      BY <2>1 DEF Encodes
    <3> QED BY <3>1, ReadsIs
  <2>8. VarInt(p, a + 1) # NoInt /\ VarInt(p, a + 1).next = b + 1
    BY <2>2, <2>5, ReadsIs
  <2>9. /\ VarInt(p, b + 1) # NoInt /\ VarInt(p, b + 1).next = d + 1
        /\ VarInt(p, b + 1).val = l
    BY <2>3, <2>5, ReadsIs DEF Encodes
  <2>10. /\ VarInt(p, d + l + 3) # NoInt
         /\ VarInt(p, d + l + 3).val \in {1, 2}
    BY <2>4, <2>6, ReadsIs DEF Encodes
  <2> QED BY <2>6, <2>7, <2>8, <2>9, <2>10 DEF Parses
<1> QED BY <1>1, <1>2

Places == {"ban", "rate", "flooding", "slot", "read", "abusing", "dial", "replay", "splice",
           "closeup", "release", "closing", "gone"}
Pipe == {"off", "run", "send", "ended"}
Session == [at : Places, ip : IPs, stream : Streams, n : Nat, up : Seq(Byte), fin : BOOLEAN,
            server : {"none", "open", "closed"}, out : Pipe, back : Pipe, done : Nat]

\* Up to the handshake, and what has been read until then: not yet a length, or
\* a length and nothing after it.
Early == {"ban", "rate", "slot", "read"}
Fresh(s, n) ==
    LET length == VarInt(SubSeq(s, 1, n), 1)
    IN  length = NoInt \/ length.next = n + 1

\* What the server has of a session is what the client sent first, and after
\* a handshake only; a session in progress passes on what it reads.
Sound(s) ==
    /\ s.n <= Len(s.stream) /\ Len(s.up) <= s.n
    /\ s.up = SubSeq(s.stream, 1, Len(s.up))
    /\ s.at \in Early => s.server = "none" /\ Fresh(s.stream, s.n)
    /\ s.up # <<>> \/ s.at \in {"dial", "replay", "splice", "closeup"}
          => s.stream \in Handshakes
    /\ s.at \in {"splice", "closeup"} /\ s.server = "open" => Len(s.up) = s.n

Holding == {"read", "abusing", "dial", "replay", "splice", "closeup", "release"}
Held(f, ip) == {c \in Conns : f[c].at \in Holding /\ f[c].ip = ip}

GameTypes ==
    /\ active \in [IPs -> Nat]
    /\ conn \in [Conns -> {NoConn} \cup Session]

GameSlots ==
    \A ip \in IPs : /\ IsFiniteSet(Held(conn, ip))
                    /\ active[ip] = Cardinality(Held(conn, ip))
                    /\ MaxConns > 0 => active[ip] <= MaxConns

GameStreams == \A c \in Conns : conn[c] # NoConn => Sound(conn[c])

GameInv == GameTypes /\ GameSlots /\ GameStreams

\* A step of the handler of c, or of its peers, leaves it as t and its slot,
\* if it has one, alone.
Turns(c, t) ==
    /\ conn' = [conn EXCEPT ![c] = t]
    /\ t \in Session /\ Sound(t)
    /\ t.ip = conn[c].ip
    /\ t.at \in Holding <=> conn[c].at \in Holding

LEMMA InSession ==
  ASSUME GameInv, NEW c \in Conns, conn[c].at # "new"
  PROVE  conn[c] \in Session /\ Sound(conn[c])
BY DEF GameInv, GameTypes, GameStreams, NoConn

LEMMA TurnKeeps ==
  ASSUME GameInv, NEW c \in Conns, NEW t, Turns(c, t), UNCHANGED active
  PROVE  GameInv'
<1>1. conn' \in [Conns -> {NoConn} \cup Session]
  BY DEF Turns, GameInv, GameTypes
<1>2. \A d \in Conns : conn'[d] = IF d = c THEN t ELSE conn[d]
  BY DEF Turns, GameInv, GameTypes
<1>3. \A ip \in IPs : Held(conn', ip) = Held(conn, ip)
  BY <1>2 DEF Turns, Held
<1>4. GameStreams'
  BY <1>2 DEF Turns, GameInv, GameStreams
<1>5. GameSlots'
  BY <1>3 DEF GameInv, GameSlots
<1> QED BY <1>1, <1>4, <1>5 DEF GameInv, GameTypes

\* The same when only the place changes, to one without a claim of its own.
LEMMA PlaceTurns ==
  ASSUME GameInv, NEW c \in Conns, conn[c].at # "new",
         NEW place \in Places \ {"dial", "replay", "splice", "closeup"}, Goto(c, place),
         place \in Early => conn[c].at \in Early
  PROVE  \E t \in Session : /\ conn' = [conn EXCEPT ![c] = t]
                            /\ Sound(t) /\ t.ip = conn[c].ip /\ t.at = place
<1> DEFINE t == [conn[c] EXCEPT !.at = place]
<1>1. conn[c] \in Session /\ Sound(conn[c])
  BY InSession
<1>2. t \in Session /\ t.at = place /\ t.ip = conn[c].ip /\ t.n = conn[c].n /\ t.up = conn[c].up
      /\ t.stream = conn[c].stream /\ t.server = conn[c].server
  BY <1>1 DEF Session
<1>3. conn' = [conn EXCEPT ![c] = t]
  BY DEF Goto
<1> HIDE DEF t
<1>4. Sound(t)
  BY <1>1, <1>2 DEF Sound
<1> QED BY <1>2, <1>3, <1>4

LEMMA PlaceKeeps ==
  ASSUME GameInv, NEW c \in Conns, conn[c].at # "new",
         NEW place \in Places \ {"dial", "replay", "splice", "closeup"}, Goto(c, place),
         place \in Early => conn[c].at \in Early,
         place \in Holding <=> conn[c].at \in Holding, UNCHANGED active
  PROVE  GameInv'
<1>1. PICK t \in Session : /\ conn' = [conn EXCEPT ![c] = t]
                           /\ Sound(t) /\ t.ip = conn[c].ip /\ t.at = place
  BY PlaceTurns
<1>2. Turns(c, t)
  BY <1>1 DEF Turns
<1> QED BY <1>2, TurnKeeps

LEMMA StreamFacts ==
  ASSUME ProtocolAssumption, NEW s \in Streams
  PROVE  /\ s \in Seq(Byte) /\ Len(s) \in Nat
         /\ \A k \in 0..Len(s) : /\ SubSeq(s, 1, k) \in Seq(Byte)
                                 /\ Len(SubSeq(s, 1, k)) = k
                                 /\ \A i \in 1..k : SubSeq(s, 1, k)[i] = s[i]
<1>1. s \in Seq(Byte)
  BY DEF ProtocolAssumption, Byte
<1>2. ASSUME NEW k \in 0..Len(s)
      PROVE  /\ SubSeq(s, 1, k) \in Seq(Byte)
             /\ Len(SubSeq(s, 1, k)) = k
             /\ \A i \in 1..k : SubSeq(s, 1, k)[i] = s[i]
  <2>1. \A i \in 1..k : s[i] \in Byte
    BY <1>1
  <2>2. 1 \in Int /\ k \in Int
    BY <1>1
  <2>3. /\ SubSeq(s, 1, k) \in Seq(Byte)
        /\ Len(SubSeq(s, 1, k)) = IF 1 <= k THEN k - 1 + 1 ELSE 0
        /\ \A i \in 1..(k - 1 + 1) : SubSeq(s, 1, k)[i] = s[1 + i - 1]
    BY <2>1, <2>2, SubSeqProperties
  <2> QED BY <2>2, <2>3, <1>1
<1> QED BY <1>1, <1>2

\* A byte copied makes the beginning one longer.
LEMMA AppendNext ==
  ASSUME ProtocolAssumption, NEW s \in Streams, NEW n \in 0..(Len(s) - 1)
  PROVE  Append(SubSeq(s, 1, n), s[n + 1]) = SubSeq(s, 1, n + 1)
<1> DEFINE a == Append(SubSeq(s, 1, n), s[n + 1])
           b == SubSeq(s, 1, n + 1)
<1>1. /\ s \in Seq(Byte) /\ Len(s) \in Nat /\ n \in Nat /\ n + 1 \in 0..Len(s) /\ n \in 0..Len(s)
  BY StreamFacts
<1>2. /\ SubSeq(s, 1, n) \in Seq(Byte) /\ Len(SubSeq(s, 1, n)) = n
      /\ \A i \in 1..n : SubSeq(s, 1, n)[i] = s[i]
      /\ b \in Seq(Byte) /\ Len(b) = n + 1 /\ \A i \in 1..(n + 1) : b[i] = s[i]
  BY <1>1, StreamFacts
<1>3. s[n + 1] \in Byte
  BY <1>1
<1>4. a \in Seq(Byte) /\ Len(a) = n + 1 /\ \A i \in 1..(n + 1) : a[i] = s[i]
  BY <1>1, <1>2, <1>3
<1> HIDE DEF a, b
<1>5. a = b
  BY <1>2, <1>4, SeqEqual
<1> QED BY <1>5 DEF a, b

\* A beginning of a beginning.
LEMMA Shorter ==
  ASSUME ProtocolAssumption, NEW s \in Streams, NEW n \in 0..Len(s), NEW k \in 0..n
  PROVE  SubSeq(SubSeq(s, 1, n), 1, k) = SubSeq(s, 1, k)
<1>1. /\ s \in Seq(Byte) /\ Len(s) \in Nat /\ k \in 0..Len(s)
  BY StreamFacts
<1>2. CASE k = 0
  BY <1>2, SubSeqEmpty
<1>3. CASE k > 0
  BY <1>3, <1>1
<1> QED BY <1>1, <1>2, <1>3

\* Nothing is read yet: that is no length.
LEMMA FreshAtFirst ==
  ASSUME ProtocolAssumption, NEW s \in Streams
  PROVE  Fresh(s, 0)
<1>1. SubSeq(s, 1, 0) = <<>> /\ <<>> \in Seq(Byte) /\ 1..Len(<<>>) = {}
  BY SubSeqEmpty
<1>2. \A p \in Seq(Byte) : 1..Len(p) = {} => VarInt(p, 1) = NoInt
  BY ReadsIs
<1> QED BY <1>1, <1>2 DEF Fresh

\* The length is read byte by byte and then the packet at once: so what the
\* parser takes is a length and as many bytes, and nothing beyond them.
LEMMA HandshakeReads ==
  ASSUME ProtocolAssumption, NEW s \in Streams, NEW n \in 0..Len(s), Fresh(s, n),
         NEW m, m = n + Wanted(SubSeq(s, 1, n)), m <= Len(s)
  PROVE  /\ Frame(SubSeq(s, 1, m)) = "ok" => s \in Handshakes
         /\ Frame(SubSeq(s, 1, m)) = "more" => Fresh(s, m)
<1> DEFINE old == SubSeq(s, 1, n)
           raw == SubSeq(s, 1, m)
           l == VarInt(old, 1)
           k == VarInt(raw, 1)
<1>0. /\ s \in Seq(Byte) /\ Len(s) \in Nat /\ n \in Nat /\ n <= Len(s)
      /\ old \in Seq(Byte) /\ Len(old) = n
  BY StreamFacts
<1>t. \A p \in Seq(Byte) : VarInt(p, 1) \in Read1
  BY VarIntType DEF Byte
<1>l. l.val \in Nat
  <2> HIDE DEF old
  <2> QED BY <1>0, <1>t DEF Read1
<1>m. m \in 0..Len(s) /\ m \in Nat /\ n <= m /\ (l = NoInt => m = n + 1)
      /\ (l # NoInt => m = n + l.val)
  <2>1. l = NoInt => m = n + 1
    BY DEF Wanted
  <2>2. l # NoInt => m = n + l.val
    BY DEF Wanted
  <2> DEFINE v == l.val
  <2>3. l # NoInt => m = n + v
    BY <2>2
  <2> HIDE DEF l, v
  <2>4. v \in Nat
    BY <1>l DEF v
  <2>5. m \in Nat /\ n <= m
    BY <1>0, <2>1, <2>3, <2>4
  <2> QED BY <1>0, <2>1, <2>2, <2>5
<1>r. raw \in Seq(Byte) /\ Len(raw) = m
  BY <1>m, StreamFacts
<1>b. \A j \in 1..n : SubSeq(raw, 1, j) = SubSeq(s, 1, j) /\ SubSeq(old, 1, j) = SubSeq(s, 1, j)
  <2> SUFFICES ASSUME NEW j \in 1..n
               PROVE  SubSeq(raw, 1, j) = SubSeq(s, 1, j) /\ SubSeq(old, 1, j) = SubSeq(s, 1, j)
    OBVIOUS
  <2>1. j \in 0..m /\ j \in 0..n
    BY <1>0, <1>m
  <2> QED BY <2>1, <1>0, <1>m, Shorter
<1>c. /\ k # NoInt => \E j \in 1..m : k.next = j + 1 /\ IsCode(SubSeq(raw, 1, j))
      /\ \A j \in 1..m : IsCode(SubSeq(raw, 1, j)) =>
            k # NoInt /\ k.next = j + 1 /\ k.val = ValueOf(SubSeq(raw, 1, j))
      /\ l # NoInt => \E j \in 1..n : /\ l.next = j + 1 /\ IsCode(SubSeq(old, 1, j))
                                           /\ l.val = ValueOf(SubSeq(old, 1, j))
      /\ \A j \in 1..n : IsCode(SubSeq(old, 1, j)) => l # NoInt
  <2> HIDE DEF old, raw
  <2>1. k # NoInt => \E j \in 1..m : k.next = j + 1 /\ IsCode(SubSeq(raw, 1, j))
    BY <1>r, ReadsIs
  <2>2. \A j \in 1..m : IsCode(SubSeq(raw, 1, j)) =>
            k # NoInt /\ k.next = j + 1 /\ k.val = ValueOf(SubSeq(raw, 1, j))
    BY <1>r, ReadsIs
  <2>3. l # NoInt => \E j \in 1..n : /\ l.next = j + 1 /\ IsCode(SubSeq(old, 1, j))
                                           /\ l.val = ValueOf(SubSeq(old, 1, j))
    BY <1>0, ReadsIs
  <2>4. \A j \in 1..n : IsCode(SubSeq(old, 1, j)) => l # NoInt
    BY <1>0, ReadsIs
  <2> QED BY <2>1, <2>2, <2>3, <2>4
<1>f. \/ Frame(raw) = "bad"
      \/ k = NoInt /\ Frame(raw) = "more"
      \/ /\ k # NoInt /\ k.val \in 1..MaxPacket
         /\ m < k.next - 1 + k.val
         /\ Frame(raw) = "more"
      \/ /\ k # NoInt /\ k.val \in 1..MaxPacket
         /\ ~(m < k.next - 1 + k.val)
         /\ Frame(raw) = "ok" /\ Parses(SubSeq(raw, k.next, m))
  <2> HIDE DEF raw
  <2> QED BY <1>r DEF Frame, k
<1> HIDE DEF old, raw, l, k
<1>v. k.val \in Nat
  BY <1>r, VarIntType DEF Byte, Read1, k
<1>1. CASE l = NoInt
  <2>1. m = n + 1
    BY <1>1, <1>m
  <2>2. k # NoInt => k.next = m + 1
    <3> SUFFICES ASSUME k # NoInt
                 PROVE  k.next = m + 1
      OBVIOUS
    <3>1. PICK j \in 1..m : k.next = j + 1 /\ IsCode(SubSeq(raw, 1, j))
      BY <1>c
    <3>2. j \notin 1..n
      BY <1>1, <1>b, <1>c, <3>1
    <3>3. j = m
      BY <1>0, <2>1, <3>2
    <3> QED BY <3>1, <3>3
  <2>3. Frame(raw) = "ok" => FALSE
    <3> SUFFICES ASSUME Frame(raw) = "ok"
                 PROVE  FALSE
      OBVIOUS
    <3>1. k # NoInt /\ k.val \in 1..MaxPacket /\ ~(m < k.next - 1 + k.val)
      BY <1>f
    <3> DEFINE v == k.val
    <3>2. v \in Nat /\ v >= 1 /\ ~(m < (m + 1) - 1 + v)
      BY <1>v, <2>2, <3>1
    <3> HIDE DEF v
    <3> QED BY <1>m, <3>2
  <2>4. Fresh(s, m)
    BY <2>2 DEF Fresh, k, raw
  <2> QED BY <2>3, <2>4 DEF raw
<1>2. CASE l # NoInt
  <2>1. l.next = n + 1
    BY <1>2 DEF Fresh, l, old
  <2>2. PICK j \in 1..n : /\ l.next = j + 1 /\ IsCode(SubSeq(old, 1, j))
                          /\ l.val = ValueOf(SubSeq(old, 1, j))
    BY <1>2, <1>c
  <2>3. j = n
    BY <1>0, <2>1, <2>2
  <2>4. /\ n \in 1..n /\ n \in 1..m
    BY <1>0, <1>m, <2>2, <2>3
  <2>5. SubSeq(raw, 1, n) = SubSeq(s, 1, n) /\ SubSeq(old, 1, n) = SubSeq(s, 1, n)
    BY <1>b, <2>4
  <2>6. /\ IsCode(SubSeq(s, 1, n)) /\ l.val = ValueOf(SubSeq(s, 1, n))
        /\ k # NoInt /\ k.next = n + 1 /\ k.val = l.val
    BY <1>c, <2>2, <2>3, <2>4, <2>5
  <2> DEFINE v == l.val
  <2>7. v \in Nat /\ m = n + v /\ k.next - 1 + k.val = n + v /\ k.val = v /\ k.next = n + 1
    BY <1>0, <1>2, <1>l, <1>m, <2>6
  <2> HIDE DEF v
  <2>8. ~(m < k.next - 1 + k.val)
    BY <1>0, <2>7
  <2>9. Frame(raw) # "more"
    BY <1>f, <2>6, <2>8
  <2>10. ASSUME Frame(raw) = "ok" PROVE s \in Handshakes
    <3>1. v \in 1..MaxPacket /\ Parses(SubSeq(raw, n + 1, m))
      BY <1>f, <2>6, <2>7, <2>8, <2>10
    <3>2. SubSeq(raw, n + 1, m) = SubSeq(s, n + 1, n + v) /\ SubSeq(s, n + 1, n + v) \in Seq(Byte)
      <4>1. n + 1 \in Int /\ m \in Int
        BY <1>0, <1>m
      <4>2. \A i \in (n + 1)..m : raw[i] = s[i] /\ raw[i] \in Byte /\ s[i] \in Byte
        <5>1. \A i \in 1..m : raw[i] = s[i]
          BY <1>m, StreamFacts DEF raw
        <5>2. \A i \in (n + 1)..m : i \in 1..m /\ i \in 1..Len(s)
          BY <1>0, <1>m
        <5> QED BY <5>1, <5>2, <1>0
      <4> DEFINE x == SubSeq(raw, n + 1, m)
                 y == SubSeq(s, n + 1, m)
                 z == IF n + 1 <= m THEN m - (n + 1) + 1 ELSE 0
      <4>3. /\ x \in Seq(Byte) /\ Len(x) = z
            /\ \A i \in 1..(m - (n + 1) + 1) : x[i] = raw[(n + 1) + i - 1]
        BY <4>1, <4>2, SubSeqProperties
      <4>4. /\ y \in Seq(Byte) /\ Len(y) = z
            /\ \A i \in 1..(m - (n + 1) + 1) : y[i] = s[(n + 1) + i - 1]
        BY <4>1, <4>2, SubSeqProperties
      <4>5. \A i \in 1..(m - (n + 1) + 1) : (n + 1) + i - 1 \in (n + 1)..m
        BY <1>0, <1>m
      <4>6. z = m - (n + 1) + 1
        BY <1>0, <1>m
      <4> HIDE DEF x, y, z
      <4>7. x = y
        <5>1. \A i \in 1..z : x[i] = y[i]
          BY <4>2, <4>3, <4>4, <4>5, <4>6
        <5> QED BY <4>3, <4>4, <5>1, SeqEqual
      <4> QED BY <4>4, <4>7, <2>7 DEF x, y
    <3>3. IsHandshake(SubSeq(s, n + 1, n + v))
      BY <3>1, <3>2, ParserIsRight
    <3>4. Encodes(SubSeq(s, 1, n), v)
      BY <2>6 DEF Encodes, v
    <3>5. n \in 1..MaxVarInt
      <4>1. Len(SubSeq(s, 1, n)) = n
        BY <1>0 DEF old
      <4> QED BY <4>1, <2>6 DEF IsCode
    <3>6. n + v <= Len(s)
      BY <2>7
    <3> QED BY <3>1, <3>3, <3>4, <3>5, <3>6 DEF Handshakes
  <2> QED BY <2>9, <2>10 DEF raw
<1> QED BY <1>1, <1>2

\* The handler before its slot, and on the way out: it goes from place to place.
LEMMA ChecksKeep ==
  ASSUME GameInv, NEW c \in Conns,
         \/ CheckBan(c) \/ CheckRate(c) \/ BanFlooder(c) \/ HandshakeFails(c)
         \/ BanAbuser(c) \/ CloseUp(c) \/ CloseClient(c)
  PROVE  GameInv'
<1>1. PICK place \in Places \ {"dial", "replay", "splice", "closeup"} :
         /\ Goto(c, place)
         /\ place \in Early => conn[c].at \in Early
         /\ place \in Holding <=> conn[c].at \in Holding
  BY DEF CheckBan, CheckRate, BanFlooder, HandshakeFails, BanAbuser,
     CloseUp, CloseClient, Places, Early, Holding
<1>2. conn[c].at # "new" /\ UNCHANGED active
  BY DEF CheckBan, CheckRate, BanFlooder, HandshakeFails, BanAbuser,
     CloseUp, CloseClient, rest
<1> QED BY <1>1, <1>2, PlaceKeeps

LEMMA AcceptKeeps ==
  ASSUME ProtocolAssumption, GameInv, NEW c \in Conns, Accept(c)
  PROVE  GameInv'
<1>1. PICK ip \in IPs, s \in Streams :
         conn' = [conn EXCEPT ![c] =
             [at |-> "ban", ip |-> ip, stream |-> s, n |-> 0, up |-> <<>>, fin |-> FALSE,
              server |-> "none", out |-> "off", back |-> "off", done |-> 0]]
  BY DEF Accept
<1> DEFINE t == [at |-> "ban", ip |-> ip, stream |-> s, n |-> 0, up |-> <<>>, fin |-> FALSE,
                 server |-> "none", out |-> "off", back |-> "off", done |-> 0]
<1>2. /\ t \in Session /\ t.at = "ban" /\ t.n = 0 /\ t.up = <<>> /\ t.stream = s
      /\ t.server = "none"
  BY DEF Session, Places, Pipe
<1>3. conn' = [conn EXCEPT ![c] = t] /\ conn[c].at = "new" /\ UNCHANGED active
  <2>1. conn[c] = NoConn /\ UNCHANGED active
    BY DEF Accept, rest
  <2> QED BY <1>1, <2>1 DEF NoConn
<1> HIDE DEF t
<1>4. Sound(t)
  <2>1. Len(s) \in Nat
    BY StreamFacts
  <2>2. SubSeq(s, 1, 0) = <<>>
    BY SubSeqEmpty
  <2> QED BY <1>2, <2>1, <2>2, FreshAtFirst DEF Sound
<1>5. conn' \in [Conns -> {NoConn} \cup Session]
  BY <1>2, <1>3 DEF GameInv, GameTypes
<1>6. \A d \in Conns : conn'[d] = IF d = c THEN t ELSE conn[d]
  BY <1>3 DEF GameInv, GameTypes
<1>7. \A i \in IPs : Held(conn', i) = Held(conn, i)
  BY <1>2, <1>3, <1>6 DEF Held, Holding
<1>8. GameStreams' /\ GameSlots'
  BY <1>3, <1>4, <1>6, <1>7 DEF GameInv, GameStreams, GameSlots
<1> QED BY <1>3, <1>5, <1>8 DEF GameInv, GameTypes

\* A slot taken: one more holder, and room for it.
LEMMA AcquireKeeps ==
  ASSUME LimitAssumption, GameInv, NEW c \in Conns, Acquire(c)
  PROVE  GameInv'
<1>0. conn[c].at = "slot" /\ conn[c].at # "new" /\ conn[c] \in Session
  BY InSession DEF Acquire
<1>1. CASE Goto(c, "closing") /\ UNCHANGED active
  <2>1. /\ "closing" \in Places \ {"dial", "replay", "splice", "closeup"}
        /\ "closing" \notin Early
        /\ "closing" \in Holding <=> conn[c].at \in Holding
    BY <1>0 DEF Places, Early, Holding
  <2> QED BY <1>0, <1>1, <2>1, PlaceKeeps
<1>2. CASE /\ MaxConns = 0 \/ active[conn[c].ip] < MaxConns
           /\ Goto(c, "read")
           /\ active' = [active EXCEPT ![conn[c].ip] = @ + 1]
  <2>1. "read" \in Places \ {"dial", "replay", "splice", "closeup"} /\ conn[c].at \in Early
    BY <1>0 DEF Places, Early
  <2>2. PICK t \in Session : /\ conn' = [conn EXCEPT ![c] = t]
                             /\ Sound(t) /\ t.ip = conn[c].ip /\ t.at = "read"
    BY <1>0, <1>2, <2>1, PlaceTurns
  <2>3. \A d \in Conns : conn'[d] = IF d = c THEN t ELSE conn[d]
    BY <2>2 DEF GameInv, GameTypes
  <2> DEFINE a == conn[c].ip
  <2>4. a \in IPs /\ active \in [IPs -> Nat] /\ MaxConns \in Nat
    BY <1>0 DEF Session, GameInv, GameTypes, LimitAssumption
  <2>5. \A ip \in IPs : ip # a => Held(conn', ip) = Held(conn, ip)
    BY <1>0, <2>2, <2>3 DEF Held, Holding
  <2>6. Held(conn', a) = Held(conn, a) \cup {c} /\ c \notin Held(conn, a)
    BY <1>0, <2>2, <2>3 DEF Held, Holding
  <2>7. IsFiniteSet(Held(conn, a)) /\ active[a] = Cardinality(Held(conn, a))
    BY <2>4 DEF GameInv, GameSlots
  <2>8. IsFiniteSet(Held(conn', a)) /\ Cardinality(Held(conn', a)) = Cardinality(Held(conn, a)) + 1
    BY <2>6, <2>7, FS_AddElement
  <2> HIDE DEF a
  <2>9. /\ active' \in [IPs -> Nat]
        /\ active'[a] = active[a] + 1
        /\ \A ip \in IPs : ip # a => active'[ip] = active[ip]
        /\ MaxConns > 0 => active'[a] <= MaxConns
    BY <1>2, <2>4 DEF a
  <2>10. GameSlots'
    <3> SUFFICES ASSUME NEW ip \in IPs
                 PROVE  /\ IsFiniteSet(Held(conn', ip))
                        /\ active'[ip] = Cardinality(Held(conn', ip))
                        /\ MaxConns > 0 => active'[ip] <= MaxConns
      BY DEF GameSlots
    <3>1. CASE ip = a
      BY <3>1, <2>7, <2>8, <2>9
    <3>2. CASE ip # a
      BY <3>2, <2>5, <2>9 DEF GameInv, GameSlots
    <3> QED BY <3>1, <3>2
  <2>11. GameTypes' /\ GameStreams'
    BY <2>2, <2>3, <2>9 DEF GameInv, GameTypes, GameStreams
  <2> QED BY <2>10, <2>11 DEF GameInv
<1> QED BY <1>1, <1>2 DEF Acquire

\* A slot given back: its holder held it.
LEMMA ReleaseKeeps ==
  ASSUME LimitAssumption, GameInv, NEW c \in Conns, Release(c)
  PROVE  GameInv'
<1>0. /\ conn[c].at = "release" /\ conn[c].at # "new" /\ conn[c] \in Session
      /\ Goto(c, "closing")
      /\ active' = [active EXCEPT ![conn[c].ip] = IF @ <= 1 THEN 0 ELSE @ - 1]
      /\ "closing" \in Places \ {"dial", "replay", "splice", "closeup"} /\ "closing" \notin Early
  BY InSession DEF Release, Places, Early
<1>2. PICK t \in Session : /\ conn' = [conn EXCEPT ![c] = t]
                           /\ Sound(t) /\ t.ip = conn[c].ip /\ t.at = "closing"
  BY <1>0, PlaceTurns
<1>3. \A d \in Conns : conn'[d] = IF d = c THEN t ELSE conn[d]
  BY <1>2 DEF GameInv, GameTypes
<1> DEFINE a == conn[c].ip
<1>4. a \in IPs /\ active \in [IPs -> Nat]
  BY <1>0 DEF Session, GameInv, GameTypes
<1>5. \A ip \in IPs : ip # a => Held(conn', ip) = Held(conn, ip)
  BY <1>0, <1>2, <1>3 DEF Held, Holding
<1>6. Held(conn', a) = Held(conn, a) \ {c} /\ c \in Held(conn, a)
  BY <1>0, <1>2, <1>3 DEF Held, Holding
<1>7. IsFiniteSet(Held(conn, a)) /\ active[a] = Cardinality(Held(conn, a)) /\ (MaxConns > 0 => active[a] <= MaxConns)
  BY <1>4 DEF GameInv, GameSlots
<1>8. IsFiniteSet(Held(conn', a)) /\ Cardinality(Held(conn', a)) = Cardinality(Held(conn, a)) - 1
  BY <1>6, <1>7, FS_RemoveElement
<1>9. Cardinality(Held(conn', a)) \in Nat
  BY <1>8, FS_CardinalityType
<1> HIDE DEF a
<1> DEFINE m == active[a]
           left == Cardinality(Held(conn', a))
<1>10. m \in Nat /\ left \in Nat /\ left = m - 1
  BY <1>4, <1>7, <1>8, <1>9
<1>11. (IF m <= 1 THEN 0 ELSE m - 1) = left
  BY <1>10
<1>11a. active' = [active EXCEPT ![a] = left]
  BY <1>0, <1>11 DEF a, m
<1> HIDE DEF m, left
<1>12. /\ active' \in [IPs -> Nat] /\ active'[a] = left
       /\ \A ip \in IPs : ip # a => active'[ip] = active[ip]
  BY <1>4, <1>10, <1>11a
<1>13. MaxConns > 0 => active'[a] <= MaxConns
  <2>1. MaxConns \in Nat
    BY DEF LimitAssumption
  <2> QED BY <2>1, <1>7, <1>10, <1>12 DEF m
<1>14. GameSlots'
  <2> SUFFICES ASSUME NEW ip \in IPs
               PROVE  /\ IsFiniteSet(Held(conn', ip))
                      /\ active'[ip] = Cardinality(Held(conn', ip))
                      /\ MaxConns > 0 => active'[ip] <= MaxConns
    BY DEF GameSlots
  <2>1. CASE ip = a
    BY <2>1, <1>8, <1>12, <1>13 DEF left
  <2>2. CASE ip # a
    BY <2>2, <1>5, <1>12 DEF GameInv, GameSlots
  <2> QED BY <2>1, <2>2
<1>15. GameTypes' /\ GameStreams'
  BY <1>2, <1>3, <1>12 DEF GameInv, GameTypes, GameStreams
<1> QED BY <1>14, <1>15 DEF GameInv

LEMMA FrameAnswers ==
  ASSUME NEW raw
  PROVE  Frame(raw) \in {"more", "ok", "bad"}
BY DEF Frame

LEMMA ReadFacts ==
  ASSUME ProtocolAssumption, GameInv, NEW c \in Conns, conn[c].at # "new"
  PROVE  /\ conn[c].stream \in Streams /\ conn[c].n \in 0..Len(conn[c].stream)
         /\ Read(c) = SubSeq(conn[c].stream, 1, conn[c].n)
         /\ Read(c) \in Seq(Byte) /\ Len(Read(c)) = conn[c].n
<1>1. conn[c] \in Session /\ Sound(conn[c])
  BY InSession
<1>2. conn[c].stream \in Streams /\ conn[c].n \in Nat /\ conn[c].n <= Len(conn[c].stream)
  BY <1>1 DEF Session, Sound
<1>3. Len(conn[c].stream) \in Nat
  BY <1>2, StreamFacts
<1>4. conn[c].n \in 0..Len(conn[c].stream)
  BY <1>2, <1>3
<1> QED BY <1>2, <1>4, StreamFacts DEF Read

\* What the proxy reads of the handshake is a beginning of the stream; it goes
\* on to the dial when the parser took it.
LEMMA ReadHandshakeKeeps ==
  ASSUME ProtocolAssumption, GameInv, NEW c \in Conns, ReadHandshake(c)
  PROVE  GameInv'
<1> DEFINE n == conn[c].n + Wanted(Read(c))
           f == Frame(SubSeq(conn[c].stream, 1, n))
           at == CASE f = "more" -> "read" [] f = "ok" -> "dial" [] f = "bad" -> "abusing"
           t == [conn[c] EXCEPT !.n = n, !.at = at]
<1>0. /\ conn[c].at = "read" /\ conn[c].at # "new" /\ conn[c] \in Session /\ Sound(conn[c])
      /\ conn[c].stream \in Streams /\ conn[c].n \in 0..Len(conn[c].stream)
      /\ Read(c) \in Seq(Byte)
  BY InSession, ReadFacts DEF ReadHandshake
<1>1. conn' = [conn EXCEPT ![c] = t] /\ n <= Len(conn[c].stream) /\ UNCHANGED active
  <2>1. /\ conn' = [conn EXCEPT ![c].n = n, ![c].at = at]
        /\ n <= Len(conn[c].stream) /\ rest' = rest
    BY Zenon DEF ReadHandshake
  <2> HIDE DEF n, at
  <2>2. conn' = [conn EXCEPT ![c] = t]
    BY <2>1
  <2> QED BY <2>1, <2>2 DEF rest
<1>2. Wanted(Read(c)) \in Nat
  BY <1>0, VarIntType DEF Wanted, Read1, Byte
<1>3. n \in Nat /\ conn[c].n <= n /\ conn[c].n \in Nat
  <2> DEFINE w == Wanted(Read(c))
             m == conn[c].n
  <2>1. w \in Nat /\ m \in Nat
    BY <1>2, <1>0 DEF Session
  <2> HIDE DEF w, m
  <2>2. m + w \in Nat /\ m <= m + w
    BY <2>1
  <2> QED BY <2>1, <2>2 DEF w, m
<1>n. n = conn[c].n + Wanted(SubSeq(conn[c].stream, 1, conn[c].n))
  BY ReadFacts DEF ReadHandshake
<1> HIDE DEF n
<1>4. f \in {"more", "ok", "bad"}
  BY FrameAnswers
<1>5. /\ f = "ok" => conn[c].stream \in Handshakes
      /\ f = "more" => Fresh(conn[c].stream, n)
  BY <1>n, <1>0, <1>1, HandshakeReads DEF Sound, Early
<1> HIDE DEF f
<1>6. /\ at \in {"read", "dial", "abusing"}
      /\ at = "dial" => conn[c].stream \in Handshakes
      /\ at = "read" => Fresh(conn[c].stream, n)
  BY <1>4, <1>5
<1> HIDE DEF at
<1>7. t \in Session
  BY <1>0, <1>3, <1>6 DEF Session, Places
<1>8. /\ t.n = n /\ t.at = at /\ t.stream = conn[c].stream /\ t.up = conn[c].up
      /\ t.ip = conn[c].ip /\ t.server = "none"
  <2>1. conn[c].server = "none"
    BY <1>0 DEF Sound, Early
  <2> QED BY <1>0, <2>1 DEF Session
<1> HIDE DEF t
<1>9. Len(conn[c].up) \in Nat
  BY <1>0 DEF Session
<1>10. Sound(t)
  BY <1>0, <1>1, <1>3, <1>6, <1>8, <1>9 DEF Sound, Early
<1>11. Turns(c, t)
  BY <1>0, <1>1, <1>6, <1>7, <1>8, <1>10 DEF Turns, Holding
<1> QED BY <1>1, <1>11, TurnKeeps

LEMMA DialKeeps ==
  ASSUME GameInv, NEW c \in Conns, Dial(c)
  PROVE  GameInv'
<1> DEFINE t == [conn[c] EXCEPT !.at = "replay", !.server = "open"]
<1>0. /\ conn[c].at = "dial" /\ conn[c].at # "new" /\ conn[c] \in Session /\ Sound(conn[c])
      /\ UNCHANGED active
  BY InSession DEF Dial, rest
<1>1. CASE conn' = [conn EXCEPT ![c].at = "replay", ![c].server = "open"]
  <2>1. t \in Session
    BY <1>0 DEF Session, Places
  <2>2. /\ conn' = [conn EXCEPT ![c] = t]
        /\ t.n = conn[c].n /\ t.at = "replay" /\ t.stream = conn[c].stream
        /\ t.up = conn[c].up /\ t.ip = conn[c].ip
    BY <1>0, <1>1 DEF Session
  <2> HIDE DEF t
  <2>3. Turns(c, t)
    BY <1>0, <2>1, <2>2 DEF Turns, Sound, Early, Holding
  <2> QED BY <1>0, <2>3, TurnKeeps
<1>2. CASE Goto(c, "release")
  <2>1. /\ "release" \in Places \ {"dial", "replay", "splice", "closeup"}
        /\ "release" \notin Early
        /\ "release" \in Holding <=> conn[c].at \in Holding
    BY <1>0 DEF Places, Early, Holding
  <2> QED BY <1>0, <1>2, <2>1, PlaceKeeps
<1> QED BY <1>1, <1>2 DEF Dial

\* The replay passes on what was read, or a beginning of it.
LEMMA ReplayKeeps ==
  ASSUME ProtocolAssumption, GameInv, NEW c \in Conns, Replay(c)
  PROVE  GameInv'
<1> DEFINE s == conn[c].stream
           n == conn[c].n
           r == Read(c)
<1>0. /\ conn[c].at = "replay" /\ conn[c].at # "new" /\ conn[c] \in Session /\ Sound(conn[c])
      /\ s \in Streams /\ n \in 0..Len(s) /\ r = SubSeq(s, 1, n)
      /\ r \in Seq(Byte) /\ Len(r) = n /\ UNCHANGED active
  BY InSession, ReadFacts DEF Replay, rest
<1>1. Len(s) \in Nat /\ n \in Nat /\ n <= Len(s) /\ s \in Handshakes
  BY <1>0, StreamFacts DEF Sound
<1>2. CASE conn' = [conn EXCEPT ![c].at = "splice", ![c].up = r,
                                ![c].out = "run", ![c].back = "run"]
  <2> DEFINE t == [conn[c] EXCEPT !.at = "splice", !.up = r, !.out = "run", !.back = "run"]
  <2>0. conn' = [conn EXCEPT ![c] = t]
    BY <1>2
  <2> HIDE DEF r
  <2>1. t \in Session
    BY <1>0 DEF Session, Places, Pipe
  <2>2. /\ t.n = n /\ t.at = "splice" /\ t.stream = s /\ t.up = r /\ t.ip = conn[c].ip
    BY <1>0 DEF Session
  <2> HIDE DEF t, n, s
  <2>3. Sound(t)
    BY <1>0, <1>1, <2>2 DEF Sound, Early
  <2>4. Turns(c, t)
    BY <1>0, <2>0, <2>1, <2>2, <2>3 DEF Turns, Holding
  <2> QED BY <1>0, <2>4, TurnKeeps
<1>3. CASE /\ conn[c].server = "closed"
           /\ \E k \in 0..(Len(r) - 1) :
                conn' = [conn EXCEPT ![c].at = "closeup", ![c].up = SubSeq(r, 1, k)]
  <2>1. PICK k \in 0..(Len(r) - 1) :
                conn' = [conn EXCEPT ![c].at = "closeup", ![c].up = SubSeq(r, 1, k)]
    BY <1>3
  <2> DEFINE u == SubSeq(r, 1, k)
             t == [conn[c] EXCEPT !.at = "closeup", !.up = u]
  <2>2. k \in 0..n /\ k \in 0..Len(s) /\ k \in Nat
    <3>1. Len(s) \in Nat /\ n \in Nat /\ n <= Len(s) /\ k \in 0..(n - 1)
      BY <1>0, <1>1, <2>1
    <3> QED BY <3>1
  <2>3. u = SubSeq(s, 1, k)
    BY <1>0, <2>2, Shorter
  <2>4. u \in Seq(Byte) /\ Len(u) = k
    BY <1>0, <2>2, <2>3, StreamFacts
  <2>5. conn' = [conn EXCEPT ![c] = t]
    BY <2>1
  <2> HIDE DEF u, r
  <2>6. t \in Session
    BY <1>0, <2>4 DEF Session, Places
  <2>7. /\ t.n = n /\ t.at = "closeup" /\ t.stream = s /\ t.up = u /\ t.ip = conn[c].ip
        /\ t.server = "closed"
    BY <1>0, <1>3 DEF Session
  <2> HIDE DEF t, n, s
  <2>8. Sound(t)
    BY <1>0, <1>1, <2>2, <2>3, <2>4, <2>7 DEF Sound, Early
  <2>9. Turns(c, t)
    BY <1>0, <2>5, <2>6, <2>7, <2>8 DEF Turns, Holding
  <2> QED BY <1>0, <2>9, TurnKeeps
<1> QED BY <1>2, <1>3 DEF Replay, Replayed

\* A byte copied is the next one the client sent.
LEMMA CopyOutKeeps ==
  ASSUME ProtocolAssumption, GameInv, NEW c \in Conns, CopyOut(c)
  PROVE  GameInv'
<1> DEFINE s == conn[c].stream
           n == conn[c].n
           u == Append(conn[c].up, s[n + 1])
           t == [conn[c] EXCEPT !.n = n + 1, !.up = u]
<1>0. /\ conn[c].at \in {"splice", "closeup"} /\ conn[c].at # "new" /\ conn[c].server = "open"
      /\ n < Len(s) /\ UNCHANGED active
      /\ conn[c] \in Session /\ Sound(conn[c]) /\ s \in Streams /\ n \in 0..Len(s)
  BY InSession, ReadFacts DEF CopyOut, rest
<1>1. conn' = [conn EXCEPT ![c] = t]
  BY DEF CopyOut
<1>2. Len(s) \in Nat /\ n \in Nat /\ n \in 0..(Len(s) - 1) /\ n + 1 \in 0..Len(s)
  BY <1>0, StreamFacts
<1>3. conn[c].up = SubSeq(s, 1, n) /\ s \in Handshakes /\ t.at \notin Early
  BY <1>0 DEF Sound, Early, Session
<1>4. u = SubSeq(s, 1, n + 1)
  BY <1>0, <1>2, <1>3, AppendNext
<1>5. u \in Seq(Byte) /\ Len(u) = n + 1
  BY <1>0, <1>2, <1>4, StreamFacts
<1> HIDE DEF u
<1>6. t \in Session
  <2> DEFINE m == n + 1
  <2>1. m \in Nat
    BY <1>2
  <2> HIDE DEF m
  <2>2. [conn[c] EXCEPT !.n = m, !.up = u] \in Session
    BY <1>0, <1>5, <2>1 DEF Session
  <2> QED BY <2>2 DEF m
<1>7. /\ t.n = n + 1 /\ t.at = conn[c].at /\ t.stream = s /\ t.up = u /\ t.ip = conn[c].ip
  BY <1>0 DEF Session
<1> HIDE DEF t, n, s
<1>8. Sound(t)
  BY <1>2, <1>3, <1>4, <1>5, <1>7 DEF Sound
<1>9. Turns(c, t)
  BY <1>1, <1>6, <1>7, <1>8 DEF Turns
<1> QED BY <1>0, <1>9, TurnKeeps

LEMMA EndOutKeeps ==
  ASSUME ProtocolAssumption, GameInv, NEW c \in Conns, EndOut(c)
  PROVE  GameInv'
<1> DEFINE n == conn[c].n
<1>0. conn[c].at # "new" /\ UNCHANGED active
  <2>1. conn[c].out = "run" /\ rest' = rest
    BY Zenon DEF EndOut
  <2>2. conn[c].at = "new" => conn[c].out = "off"
    BY DEF GameInv, GameTypes, Session, Places, NoConn
  <2> QED BY <2>1, <2>2 DEF rest
<1>1. conn[c] \in Session /\ Sound(conn[c]) /\ conn[c].stream \in Streams
      /\ n \in 0..Len(conn[c].stream)
  BY <1>0, InSession, ReadFacts
<1>2. Len(conn[c].stream) \in Nat /\ n \in Nat
  BY <1>1, StreamFacts
<1>3. CASE conn' = [conn EXCEPT ![c].out = "send"]
  <2> DEFINE t == [conn[c] EXCEPT !.out = "send"]
  <2>1. t \in Session
    BY <1>1 DEF Session, Pipe
  <2>2. /\ conn' = [conn EXCEPT ![c] = t]
        /\ t.n = conn[c].n /\ t.at = conn[c].at /\ t.stream = conn[c].stream
        /\ t.up = conn[c].up /\ t.ip = conn[c].ip /\ t.server = conn[c].server
    BY <1>1, <1>3 DEF Session
  <2> HIDE DEF t
  <2>3. Turns(c, t)
    BY <1>1, <2>1, <2>2 DEF Turns, Sound
  <2> QED BY <1>0, <2>3, TurnKeeps
<1>4. CASE /\ conn[c].server = "closed" \/ UpClosed(c)
           /\ conn[c].n < Len(conn[c].stream)
           /\ conn' = [conn EXCEPT ![c].out = "send", ![c].n = @ + 1]
  <2> DEFINE t == [conn[c] EXCEPT !.out = "send", !.n = n + 1]
  <2>1. t \in Session
    <3> DEFINE m == n + 1
    <3>1. m \in Nat
      BY <1>2
    <3> HIDE DEF m
    <3>2. [conn[c] EXCEPT !.out = "send", !.n = m] \in Session
      BY <1>1, <3>1 DEF Session, Pipe
    <3> QED BY <3>2 DEF m
  <2>2. /\ conn' = [conn EXCEPT ![c] = t]
        /\ t.n = n + 1 /\ t.at = conn[c].at /\ t.stream = conn[c].stream
        /\ t.up = conn[c].up /\ t.ip = conn[c].ip /\ t.server = conn[c].server
    BY <1>1, <1>4 DEF Session
  <2>3. Len(conn[c].up) \in Nat /\ Len(conn[c].up) <= n /\ n + 1 <= Len(conn[c].stream)
    <3>1. Len(conn[c].up) \in Nat
      BY <1>1 DEF Session
    <3>2. Len(conn[c].up) <= n
      BY <1>1 DEF Sound
    <3> QED BY <1>2, <1>4, <3>1, <3>2
  <2>4. /\ ~(conn[c].at \in {"splice", "closeup"} /\ conn[c].server = "open")
        /\ conn[c].at \notin Early
    BY <1>1, <1>4 DEF UpClosed, Sound, Early
  <2> HIDE DEF t
  <2>5. Sound(t)
    BY <1>1, <1>2, <2>2, <2>3, <2>4 DEF Sound
  <2>6. Turns(c, t)
    BY <2>1, <2>2, <2>5 DEF Turns
  <2> QED BY <1>0, <2>6, TurnKeeps
<1> QED BY <1>3, <1>4 DEF EndOut

\* The steps that touch neither what was read nor what was passed on.
LEMMA QuietKeeps ==
  ASSUME GameInv, NEW c \in Conns, conn[c].at # "new", NEW t \in Session,
         conn' = [conn EXCEPT ![c] = t], UNCHANGED active,
         t.n = conn[c].n, t.stream = conn[c].stream, t.up = conn[c].up, t.ip = conn[c].ip,
         t.server = conn[c].server \/ (conn[c].server = "open" /\ t.server = "closed"),
         t.at = conn[c].at \/ (conn[c].at = "splice" /\ t.at = "closeup")
  PROVE  GameInv'
<1>1. conn[c] \in Session /\ Sound(conn[c])
  BY InSession
<1>2. Sound(t)
  BY <1>1 DEF Sound, Early
<1>3. Turns(c, t)
  BY <1>2 DEF Turns, Holding
<1> QED BY <1>3, TurnKeeps

LEMMA ReportsKeep ==
  ASSUME GameInv, NEW c \in Conns,
         \/ EndBack(c) \/ SendOut(c) \/ SendBack(c) \/ AwaitDone(c)
         \/ ClientEnds(c) \/ ServerEnds(c)
  PROVE  GameInv'
<1>0. conn[c].at # "new" /\ UNCHANGED active
  BY DEF EndBack, SendOut, SendBack, AwaitDone, ClientEnds,
     ServerEnds, rest, GameInv, GameTypes, Session, Places, NoConn
<1>1. conn[c] \in Session /\ Sound(conn[c])
  BY <1>0, InSession
<1>2. CASE EndBack(c)
  <2> DEFINE t == [conn[c] EXCEPT !.back = "send"]
  <2>1. t \in Session /\ conn' = [conn EXCEPT ![c] = t]
    BY <1>1, <1>2 DEF Session, Pipe, EndBack
  <2> QED BY <1>0, <1>1, <2>1, QuietKeeps DEF Session
<1>3. CASE SendOut(c)
  <2> DEFINE t == [conn[c] EXCEPT !.out = "ended", !.done = @ + 1]
  <2>0. conn' = [conn EXCEPT ![c] = t]
    BY <1>3 DEF SendOut
  <2>1. t \in Session
    <3> DEFINE m == conn[c].done + 1
    <3>1. m \in Nat
      BY <1>1 DEF Session
    <3> HIDE DEF m
    <3>2. [conn[c] EXCEPT !.out = "ended", !.done = m] \in Session
      BY <1>1, <3>1 DEF Session, Pipe
    <3> QED BY <3>2 DEF m
  <2> QED BY <1>0, <1>1, <2>0, <2>1, QuietKeeps DEF Session
<1>4. CASE SendBack(c)
  <2> DEFINE t == [conn[c] EXCEPT !.back = "ended", !.done = @ + 1]
  <2>0. conn' = [conn EXCEPT ![c] = t]
    BY <1>4 DEF SendBack
  <2>1. t \in Session
    <3> DEFINE m == conn[c].done + 1
    <3>1. m \in Nat
      BY <1>1 DEF Session
    <3> HIDE DEF m
    <3>2. [conn[c] EXCEPT !.back = "ended", !.done = m] \in Session
      BY <1>1, <3>1 DEF Session, Pipe
    <3> QED BY <3>2 DEF m
  <2> QED BY <1>0, <1>1, <2>0, <2>1, QuietKeeps DEF Session
<1>5. CASE AwaitDone(c)
  <2> DEFINE t == [conn[c] EXCEPT !.at = "closeup", !.done = @ - 1]
  <2>0. conn' = [conn EXCEPT ![c] = t] /\ conn[c].at = "splice" /\ conn[c].done > 0
    BY <1>5 DEF AwaitDone
  <2>1. t \in Session
    <3> DEFINE m == conn[c].done - 1
    <3>1. m \in Nat
      BY <1>1, <2>0 DEF Session
    <3> HIDE DEF m
    <3>2. [conn[c] EXCEPT !.at = "closeup", !.done = m] \in Session
      BY <1>1, <3>1 DEF Session, Places
    <3> QED BY <3>2 DEF m
  <2> QED BY <1>0, <1>1, <2>0, <2>1, QuietKeeps DEF Session
<1>6. CASE ClientEnds(c)
  <2> DEFINE t == [conn[c] EXCEPT !.fin = TRUE]
  <2>1. t \in Session /\ conn' = [conn EXCEPT ![c] = t]
    BY <1>1, <1>6 DEF Session, ClientEnds
  <2> QED BY <1>0, <1>1, <2>1, QuietKeeps DEF Session
<1>7. CASE ServerEnds(c)
  <2> DEFINE t == [conn[c] EXCEPT !.server = "closed"]
  <2>1. t \in Session /\ conn' = [conn EXCEPT ![c] = t] /\ conn[c].server = "open"
    BY <1>1, <1>7 DEF Session, ServerEnds
  <2> QED BY <1>0, <1>1, <2>1, QuietKeeps DEF Session
<1> QED BY <1>2, <1>3, <1>4, <1>5, <1>6, <1>7

LEMMA GameStarts ==
  ASSUME LimitAssumption, ProxyInit
  PROVE  GameInv
<1>1. conn = [c \in Conns |-> NoConn] /\ active = [ip \in IPs |-> 0]
  BY DEF ProxyInit
<1>2. \A ip \in IPs : Held(conn, ip) = {}
  BY <1>1 DEF Held, Holding, NoConn
<1>3. GameSlots
  <2>1. MaxConns \in Nat
    BY DEF LimitAssumption
  <2> QED BY <1>1, <1>2, <2>1, FS_EmptySet DEF GameSlots
<1> QED BY <1>1, <1>3 DEF GameInv, GameTypes, GameStreams

LEMMA GameStep ==
  ASSUME ProtocolAssumption, LimitAssumption, GameInv, [ProxyNext]_proxyVars
  PROVE  GameInv'
<1>1. ASSUME NEW c \in Conns, Handle(c)
      PROVE  GameInv'
  BY <1>1, ChecksKeep, AcquireKeeps, DialKeeps, ReplayKeeps, ReportsKeep, ReleaseKeeps
     DEF Handle
<1>2. ASSUME NEW c \in Conns, Pipes(c)
      PROVE  GameInv'
  BY <1>2, EndOutKeeps, ReportsKeep DEF Pipes
<1>3. CASE UNCHANGED <<active, conn>>
  BY <1>3 DEF GameInv, GameTypes, GameSlots, GameStreams
<1>4. CASE BansChange \/ Shutdown \/ UNCHANGED proxyVars
  BY <1>3, <1>4 DEF BansChange, Shutdown, proxyVars
<1> QED
  BY <1>1, <1>2, <1>4, AcceptKeeps, ReadHandshakeKeeps, CopyOutKeeps, ReportsKeep DEF ProxyNext

LEMMA GameInvariant ==
  ASSUME ProtocolAssumption, LimitAssumption
  PROVE  ProxySpec => []GameInv
<1>1. ProxyInit => GameInv
  BY GameStarts
<1>2. GameInv /\ [ProxyNext]_proxyVars => GameInv'
  BY GameStep
<1> QED BY <1>1, <1>2, PTL DEF ProxySpec

\* The counts the code keeps and the cap: an IP's count is the number of its
\* handlers between acquire and the deferred release, whatever way out they
\* take, and is never above max_conns_per_ip.
THEOREM SlotsAreHeld == ProxySpec => []SlotsHeld
<1>1. GameInv => SlotsHeld
  <2>1. \A ip \in IPs : Holders(ip) = Held(conn, ip)
    BY Zenon DEF Holders, Held, Holding
  <2> QED BY <2>1, LimitAssumption DEF GameInv, GameSlots, SlotsHeld, LimitAssumption
<1>2. ProxySpec => []GameInv
  BY GameInvariant, ProtocolAssumption, LimitAssumption
<1> QED BY <1>1, <1>2, PTL DEF SlotsHeld

LEMMA NothingMisread ==
  ASSUME ProtocolAssumption
  PROVE  Misread = {}
<1>1. \A p \in Payloads : p \in Seq(Byte)
  BY DEF ProtocolAssumption, Byte
<1>2. \A p \in Payloads : Parses(p) = IsHandshake(p)
  <2>1. \A p : Parses(p) \in BOOLEAN /\ IsHandshake(p) \in BOOLEAN
    BY DEF Parses, IsHandshake
  <2>2. \A p \in Payloads : Parses(p) <=> IsHandshake(p)
    BY <1>1, ParserIsRight
  <2> QED BY <2>1, <2>2
<1> QED BY <1>2 DEF Misread

\* readHandshake takes exactly the packets the protocol calls a handshake,
\* whatever the bytes are and wherever the body is cut off, and nothing beyond
\* the packet.  So the game server sees what the client sent, from its first
\* byte and without a gap, and nothing unless the client began with a
\* handshake; a session in progress passes on all that was read.
THEOREM UpstreamIsTheClient == ProxySpec => []UpstreamSeesClient
<1> USE ProtocolAssumption, LimitAssumption
<1>1. GameInv => UpstreamSeesClient
  <2> SUFFICES ASSUME GameInv, NEW c \in Conns, conn[c] # NoConn
               PROVE  /\ IsPrefix(conn[c].up, Read(c))
                      /\ conn[c].up # <<>> => conn[c].stream \in Handshakes
                      /\ conn[c].at = "splice" /\ conn[c].server = "open"
                            => conn[c].up = Read(c)
    BY NothingMisread DEF UpstreamSeesClient
  <2>1. conn[c] \in Session /\ Sound(conn[c]) /\ conn[c].at # "new"
    BY DEF GameInv, GameTypes, GameStreams, Session, Places
  <2> DEFINE s == conn[c].stream
             n == conn[c].n
             u == conn[c].up
             r == Read(c)
  <2>2. /\ s \in Streams /\ n \in 0..Len(s) /\ r = SubSeq(s, 1, n) /\ Len(r) = n
        /\ n \in Nat /\ Len(u) \in Nat /\ Len(u) <= n /\ u = SubSeq(s, 1, Len(u))
    BY <2>1, ReadFacts DEF Session, Sound
  <2>3. Len(u) \in 0..n
    BY <2>2
  <2>4. SubSeq(r, 1, Len(u)) = u
    BY <2>2, <2>3, Shorter
  <2>5. IsPrefix(u, r)
    BY <2>2, <2>4 DEF IsPrefix
  <2>6. conn[c].at = "splice" /\ conn[c].server = "open" => u = r
    BY <2>1, <2>2 DEF Sound
  <2> QED BY <2>1, <2>5, <2>6 DEF Sound
<1> QED BY <1>1, GameInvariant, PTL DEF UpstreamSeesClient


----------------------------------------------------------------------------
(* The fingerprints of connections. *)

Prints == {NoPrint} \cup {Marks(h) : h \in Hellos}
Handshake == [at : {"hello", "fill", "serving", "served", "closed", "gone"}, addr : Addrs,
              hello : Hellos, took : TLSConns \cup {NoHolder}]
Started(k) == k.at # "new"
Live(k) == k.at \notin {"new", "gone"}

PrintTypes ==
    /\ pending \in [Addrs -> TLSConns \cup {NoHolder}]
    /\ holder \in [TLSConns -> Prints]
    /\ tls \in [TLSConns -> {NotYet} \cup Handshake]
    /\ seen \in [TLSConns -> Prints]
    /\ mixed \subseteq TLSConns

\* A holder in the map is that of an unfinished connection of the address.
PrintOwned ==
    \A a \in Addrs :
        pending[a] # NoHolder => Live(tls[pending[a]]) /\ tls[pending[a]].addr = a

\* Two unfinished connections of one address have met.
PrintMet ==
    \A c, d \in TLSConns :
        c # d /\ Live(tls[c]) /\ Live(tls[d]) /\ tls[c].addr = tls[d].addr => c \in mixed

\* One that met nobody finds its own holder in the map, ...
PrintHello ==
    \A c \in TLSConns \ mixed : tls[c].at = "hello" => pending[tls[c].addr] = c

\* ... and whoever takes the holder of another has met it.
PrintFill ==
    \A c \in TLSConns : tls[c].at = "fill" =>
        /\ tls[c].took \in TLSConns
        /\ Started(tls[tls[c].took]) /\ tls[tls[c].took].addr = tls[c].addr
        /\ tls[c].took = c \/ (c \in mixed /\ tls[c].took \in mixed)

\* p, if it is a fingerprint, is c's own, or that of a connection of c's address
\* that is in m with c.
Told(f, m, c, p) ==
    p # NoPrint =>
        /\ Started(f[c])
        /\ \E d \in TLSConns : /\ Started(f[d]) /\ f[d].addr = f[c].addr
                               /\ d = c \/ {c, d} \subseteq m
                               /\ p = Marks(f[d].hello)

PrintTold ==
    \A c \in TLSConns :
        /\ Told(tls, mixed, c, holder[c])
        /\ Told(tls, mixed, c, seen[c])
        /\ c \notin mixed /\ tls[c].at \in {"serving", "served"} => holder[c] # NoPrint

PrintInv ==
    PrintTypes /\ PrintOwned /\ PrintMet /\ PrintHello /\ PrintFill /\ PrintTold

\* What a step leaves of a connection that was started.
Lasts(f, g) ==
    \A d \in TLSConns : Started(f[d]) =>
        Started(g[d]) /\ g[d].addr = f[d].addr /\ g[d].hello = f[d].hello

LEMMA ToldLasts ==
  ASSUME NEW f, NEW g, Lasts(f, g), NEW m, NEW n, m \subseteq n,
         NEW c \in TLSConns, NEW p, Told(f, m, c, p)
  PROVE  Told(g, n, c, p)
<1> SUFFICES ASSUME p # NoPrint
             PROVE  /\ Started(g[c])
                    /\ \E d \in TLSConns : /\ Started(g[d]) /\ g[d].addr = g[c].addr
                                           /\ d = c \/ {c, d} \subseteq n
                                           /\ p = Marks(g[d].hello)
  BY DEF Told
<1>1. PICK d \in TLSConns : /\ Started(f[d]) /\ f[d].addr = f[c].addr
                            /\ d = c \/ {c, d} \subseteq m
                            /\ p = Marks(f[d].hello)
  BY DEF Told
<1>2. Started(f[c])
  BY DEF Told
<1>3. /\ Started(g[d]) /\ g[d].addr = f[d].addr /\ g[d].hello = f[d].hello
      /\ Started(g[c]) /\ g[c].addr = f[c].addr /\ g[c].hello = f[c].hello
  BY <1>1, <1>2 DEF Lasts
<1>4. d = c \/ {c, d} \subseteq n
  BY <1>1
<1> QED BY <1>1, <1>3, <1>4

LEMMA StartedType ==
  ASSUME PrintInv, NEW c \in TLSConns, Started(tls[c])
  PROVE  tls[c] \in Handshake
BY DEF PrintInv, PrintTypes, Started, NotYet

LEMMA PrintStarts ==
  ASSUME CollectorInit
  PROVE  PrintInv
<1>1. PrintTypes
  BY DEF CollectorInit, PrintTypes, Prints
<1>2. \A c \in TLSConns : tls[c].at = "new"
  BY DEF CollectorInit, NotYet
<1>3. PrintOwned /\ PrintMet /\ PrintHello /\ PrintFill
  BY <1>2 DEF CollectorInit, PrintOwned, PrintMet, PrintHello, PrintFill, Live
<1>4. PrintTold
  BY <1>2 DEF CollectorInit, PrintTold, Told
<1> QED BY <1>1, <1>3, <1>4 DEF PrintInv

\* A new connection of an address meets the unfinished ones of it.
LEMMA AcceptKeepsPrints ==
  ASSUME PrintAssumption, PrintInv, NEW c \in TLSConns, ConnContext(c)
  PROVE  PrintInv'
<1>1. PICK a \in Addrs, h \in Hellos :
          /\ tls' = [tls EXCEPT ![c] = [at |-> "hello", addr |-> a, hello |-> h,
                                        took |-> NoHolder]]
          /\ pending' = [pending EXCEPT ![a] = c]
          /\ mixed' = IF Unfinished(a) = {} THEN mixed
                      ELSE mixed \cup {c} \cup Unfinished(a)
  BY DEF ConnContext
<1> DEFINE t == [at |-> "hello", addr |-> a, hello |-> h, took |-> NoHolder]
<1>2. tls[c].at = "new" /\ UNCHANGED <<holder, seen>>
  BY DEF ConnContext, NotYet
<1>3. t \in Handshake /\ t.at = "hello" /\ t.addr = a
  BY DEF Handshake
<1>4. tls' = [tls EXCEPT ![c] = t]
  BY <1>1
<1> HIDE DEF t
<1>5. \A d \in TLSConns : tls'[d] = IF d = c THEN t ELSE tls[d]
  BY <1>4 DEF PrintInv, PrintTypes
<1>6. \A b \in Addrs : pending'[b] = IF b = a THEN c ELSE pending[b]
  BY <1>1 DEF PrintInv, PrintTypes
<1>7. /\ mixed \subseteq mixed'
      /\ \A d \in TLSConns : Live(tls[d]) /\ tls[d].addr = a => {c, d} \subseteq mixed'
  BY <1>1 DEF Unfinished, Live
<1>8. PrintTypes'
  <2>1. Unfinished(a) \subseteq TLSConns
    BY DEF Unfinished
  <2> QED BY <1>1, <1>2, <1>3, <1>4, <2>1 DEF PrintInv, PrintTypes
<1>9. PrintOwned'
  BY <1>2, <1>3, <1>5, <1>6 DEF PrintInv, PrintTypes, PrintOwned, Live
<1>10. PrintMet'
  BY <1>3, <1>5, <1>7 DEF PrintInv, PrintMet, Live
<1>11. PrintHello'
  <2> SUFFICES ASSUME NEW d \in TLSConns, d \notin mixed', tls'[d].at = "hello"
               PROVE  pending'[tls'[d].addr] = d
    BY DEF PrintHello
  <2>1. CASE d = c
    BY <2>1, <1>3, <1>5, <1>6
  <2>2. CASE d # c
    <3>1. tls'[d] = tls[d] /\ d \notin mixed
      BY <2>2, <1>5, <1>7
    <3>2. tls[d] \in Handshake /\ Live(tls[d])
      BY <3>1, StartedType DEF Started, Live
    <3>3. tls[d].addr # a /\ tls[d].addr \in Addrs
      BY <3>2, <1>7 DEF Handshake
    <3> QED BY <3>1, <3>3, <1>6 DEF PrintInv, PrintHello
  <2> QED BY <2>1, <2>2
<1>12. PrintFill'
  BY <1>2, <1>3, <1>5, <1>7 DEF PrintInv, PrintFill, Started
<1>13. Lasts(tls, tls')
  BY <1>2, <1>5 DEF Lasts, Started
<1>14. PrintTold'
  <2> SUFFICES ASSUME NEW d \in TLSConns
               PROVE  /\ Told(tls', mixed', d, holder[d])
                      /\ Told(tls', mixed', d, seen[d])
                      /\ d \notin mixed' /\ tls'[d].at \in {"serving", "served"}
                            => holder[d] # NoPrint
    BY <1>2 DEF PrintTold
  <2>1. Told(tls, mixed, d, holder[d]) /\ Told(tls, mixed, d, seen[d])
    BY DEF PrintInv, PrintTold
  <2>2. Told(tls', mixed', d, holder[d]) /\ Told(tls', mixed', d, seen[d])
    BY <1>7, <1>13, <2>1, ToldLasts
  <2>3. d \notin mixed' /\ tls'[d].at \in {"serving", "served"} => holder[d] # NoPrint
    BY <1>3, <1>5, <1>7 DEF PrintInv, PrintTold
  <2> QED BY <2>2, <2>3
<1> QED BY <1>8, <1>9, <1>10, <1>11, <1>12, <1>14 DEF PrintInv

\* The other steps start no connection: c becomes t, which has its address and
\* hello, and who has met stays so.
Moves(c, t) ==
    /\ tls' = [tls EXCEPT ![c] = t]
    /\ t \in Handshake /\ t.addr = tls[c].addr /\ t.hello = tls[c].hello
    /\ Live(tls[c]) /\ UNCHANGED mixed

LEMMA MoveFacts ==
  ASSUME PrintInv, NEW c \in TLSConns, NEW t, Moves(c, t)
  PROVE  /\ tls' \in [TLSConns -> {NotYet} \cup Handshake]
         /\ \A d \in TLSConns : tls'[d] = IF d = c THEN t ELSE tls[d]
         /\ Started(t) /\ tls[c] \in Handshake
         /\ Lasts(tls, tls')
         /\ PrintMet'
<1>1. /\ tls' \in [TLSConns -> {NotYet} \cup Handshake]
      /\ \A d \in TLSConns : tls'[d] = IF d = c THEN t ELSE tls[d]
  BY DEF Moves, PrintInv, PrintTypes
<1>2. Started(t) /\ Started(tls[c])
  BY DEF Moves, Handshake, Started, Live
<1>3. Lasts(tls, tls')
  BY <1>1, <1>2 DEF Moves, Lasts
<1>4. PrintMet'
  BY <1>1 DEF Moves, PrintInv, PrintMet, Live
<1> QED BY <1>1, <1>2, <1>3, <1>4, StartedType

LEMMA TakeKeepsPrints ==
  ASSUME PrintAssumption, PrintInv, NEW c \in TLSConns, Take(c)
  PROVE  PrintInv'
<1> DEFINE a == tls[c].addr
           p == pending[a]
           t == [tls[c] EXCEPT !.took = p, !.at = IF p = NoHolder THEN "serving" ELSE "fill"]
<1>1. tls[c].at = "hello" /\ Live(tls[c]) /\ UNCHANGED <<holder, seen, mixed>>
  BY DEF Take, Live
<1>2. tls[c] \in Handshake /\ a \in Addrs /\ p \in TLSConns \cup {NoHolder}
  BY <1>1, StartedType DEF Started, Handshake, PrintInv, PrintTypes
<1>3. tls' = [tls EXCEPT ![c] = t] /\ pending' = [pending EXCEPT ![a] = NoHolder]
  BY DEF Take
<1>4. /\ t \in Handshake /\ t.addr = a /\ t.hello = tls[c].hello /\ t.took = p
      /\ t.at = IF p = NoHolder THEN "serving" ELSE "fill"
  BY <1>2 DEF Handshake
<1> HIDE DEF t
<1>5. Moves(c, t)
  BY <1>1, <1>3, <1>4 DEF Moves
<1>6. /\ tls' \in [TLSConns -> {NotYet} \cup Handshake]
      /\ \A d \in TLSConns : tls'[d] = IF d = c THEN t ELSE tls[d]
      /\ Lasts(tls, tls') /\ PrintMet'
  BY <1>5, MoveFacts
<1>7. \A b \in Addrs : pending'[b] = IF b = a THEN NoHolder ELSE pending[b]
  BY <1>3 DEF PrintInv, PrintTypes
<1>8. PrintTypes'
  BY <1>1, <1>3, <1>6 DEF PrintInv, PrintTypes
<1>9. PrintOwned'
  <2>0. Live(t)
    BY <1>4 DEF Live
  <2> SUFFICES ASSUME NEW b \in Addrs, pending'[b] # NoHolder
               PROVE  Live(tls'[pending'[b]]) /\ tls'[pending'[b]].addr = b
    BY DEF PrintOwned
  <2>1. pending'[b] = pending[b] /\ pending[b] \in TLSConns
    BY <1>7 DEF PrintInv, PrintTypes
  <2>2. Live(tls[pending[b]]) /\ tls[pending[b]].addr = b
    BY <2>1 DEF PrintInv, PrintOwned
  <2> QED BY <2>0, <2>1, <2>2, <1>4, <1>6
<1>10. PrintHello'
  <2> SUFFICES ASSUME NEW d \in TLSConns, d \notin mixed, tls'[d].at = "hello"
               PROVE  pending'[tls'[d].addr] = d
    BY <1>1 DEF PrintHello
  <2>1. d # c /\ tls'[d] = tls[d]
    BY <1>4, <1>6
  <2>2. tls[d] \in Handshake /\ Live(tls[d])
    BY <2>1, StartedType DEF Started, Live
  <2>3. tls[d].addr # a /\ tls[d].addr \in Addrs
    BY <2>1, <2>2, <1>1 DEF Handshake, PrintInv, PrintMet
  <2> QED BY <2>1, <2>3, <1>7 DEF PrintInv, PrintHello
<1>11. PrintFill'
  <2> SUFFICES ASSUME NEW d \in TLSConns, tls'[d].at = "fill"
               PROVE  /\ tls'[d].took \in TLSConns
                      /\ Started(tls'[tls'[d].took])
                      /\ tls'[tls'[d].took].addr = tls'[d].addr
                      /\ tls'[d].took = d \/ (d \in mixed /\ tls'[d].took \in mixed)
    BY <1>1 DEF PrintFill
  <2>1. CASE d = c
    <3>1. p # NoHolder /\ p \in TLSConns /\ tls'[d] = t
      BY <2>1, <1>2, <1>4, <1>6
    <3>2. Live(tls[p]) /\ tls[p].addr = a
      BY <1>2, <3>1 DEF PrintInv, PrintOwned
    <3>3. Started(tls'[p]) /\ tls'[p].addr = a
      BY <3>1, <3>2, <1>6 DEF Lasts, Live, Started
    <3>4. p = c \/ (c \in mixed /\ p \in mixed)
      BY <3>1, <3>2, <1>1 DEF PrintInv, PrintMet
    <3> QED BY <2>1, <3>1, <3>3, <3>4, <1>4
  <2>2. CASE d # c
    <3>1. tls'[d] = tls[d]
      BY <2>2, <1>6
    <3>2. /\ tls[d].took \in TLSConns /\ Started(tls[tls[d].took])
          /\ tls[tls[d].took].addr = tls[d].addr
          /\ tls[d].took = d \/ (d \in mixed /\ tls[d].took \in mixed)
      BY <3>1 DEF PrintInv, PrintFill
    <3> QED BY <3>1, <3>2, <1>6 DEF Lasts
  <2> QED BY <2>1, <2>2
<1>12. PrintTold'
  <2> SUFFICES ASSUME NEW d \in TLSConns
               PROVE  /\ Told(tls', mixed, d, holder[d])
                      /\ Told(tls', mixed, d, seen[d])
                      /\ d \notin mixed /\ tls'[d].at \in {"serving", "served"}
                            => holder[d] # NoPrint
    BY <1>1 DEF PrintTold
  <2>1. Told(tls', mixed, d, holder[d]) /\ Told(tls', mixed, d, seen[d])
    BY <1>6, ToldLasts DEF PrintInv, PrintTold
  <2>2. d \notin mixed /\ tls'[d].at \in {"serving", "served"} => holder[d] # NoPrint
    <3>1. CASE d = c
      <4>1. c \notin mixed => p = c
        BY <1>1 DEF PrintInv, PrintHello
      <4>2. c # NoHolder
        BY DEF PrintAssumption
      <4> QED BY <3>1, <4>1, <4>2, <1>4, <1>6
    <3>2. CASE d # c
      BY <3>2, <1>6 DEF PrintInv, PrintTold
    <3> QED BY <3>1, <3>2
  <2> QED BY <2>1, <2>2
<1> QED BY <1>6, <1>8, <1>9, <1>10, <1>11, <1>12 DEF PrintInv

\* The holder that is filled in is the connection's own, or one it has met.
LEMMA FillKeepsPrints ==
  ASSUME PrintAssumption, PrintInv, NEW c \in TLSConns, Fill(c)
  PROVE  PrintInv'
<1> DEFINE w == tls[c].took
           p == Marks(tls[c].hello)
           t == [tls[c] EXCEPT !.at = "serving"]
<1>1. tls[c].at = "fill" /\ Live(tls[c]) /\ Started(tls[c])
      /\ UNCHANGED <<pending, seen, mixed>>
  BY DEF Fill, Live, Started
<1>2. tls[c] \in Handshake
  BY <1>1, StartedType
<1>3. tls' = [tls EXCEPT ![c] = t] /\ holder' = [holder EXCEPT ![w] = p]
  BY DEF Fill
<1>4. /\ t \in Handshake /\ t.addr = tls[c].addr /\ t.hello = tls[c].hello
      /\ t.at = "serving"
  BY <1>2 DEF Handshake
<1> HIDE DEF t
<1>5. Moves(c, t)
  BY <1>1, <1>3, <1>4 DEF Moves
<1>6. /\ tls' \in [TLSConns -> {NotYet} \cup Handshake]
      /\ \A d \in TLSConns : tls'[d] = IF d = c THEN t ELSE tls[d]
      /\ Lasts(tls, tls') /\ PrintMet'
  BY <1>5, MoveFacts
<1>7. /\ w \in TLSConns /\ Started(tls[w]) /\ tls[w].addr = tls[c].addr
      /\ w = c \/ (c \in mixed /\ w \in mixed)
  BY <1>1 DEF PrintInv, PrintFill
<1>8. p \in Prints /\ p # NoPrint
  BY <1>2 DEF Handshake, Prints, PrintAssumption
<1>9. \A d \in TLSConns : holder'[d] = IF d = w THEN p ELSE holder[d]
  BY <1>3 DEF PrintInv, PrintTypes
<1>10. PrintTypes'
  BY <1>1, <1>3, <1>6, <1>8 DEF PrintInv, PrintTypes
<1>11. PrintOwned'
  BY <1>1, <1>4, <1>6 DEF PrintInv, PrintTypes, PrintOwned, Live
<1>12. PrintHello'
  BY <1>1, <1>4, <1>6 DEF PrintInv, PrintHello
<1>13. PrintFill'
  <2> SUFFICES ASSUME NEW d \in TLSConns, tls'[d].at = "fill"
               PROVE  /\ tls'[d].took \in TLSConns
                      /\ Started(tls'[tls'[d].took])
                      /\ tls'[tls'[d].took].addr = tls'[d].addr
                      /\ tls'[d].took = d \/ (d \in mixed /\ tls'[d].took \in mixed)
    BY <1>1 DEF PrintFill
  <2>1. tls'[d] = tls[d]
    BY <1>4, <1>6
  <2>2. /\ tls[d].took \in TLSConns /\ Started(tls[tls[d].took])
        /\ tls[tls[d].took].addr = tls[d].addr
        /\ tls[d].took = d \/ (d \in mixed /\ tls[d].took \in mixed)
    BY <2>1 DEF PrintInv, PrintFill
  <2> QED BY <2>1, <2>2, <1>6 DEF Lasts
<1>14. PrintTold'
  <2> SUFFICES ASSUME NEW d \in TLSConns
               PROVE  /\ Told(tls', mixed, d, holder'[d])
                      /\ Told(tls', mixed, d, seen[d])
                      /\ d \notin mixed /\ tls'[d].at \in {"serving", "served"}
                            => holder'[d] # NoPrint
    BY <1>1 DEF PrintTold
  <2>1. Told(tls', mixed, d, holder[d]) /\ Told(tls', mixed, d, seen[d])
    BY <1>6, ToldLasts DEF PrintInv, PrintTold
  <2>2. Told(tls', mixed, w, p)
    <3>1. Told(tls, mixed, w, p)
      BY <1>1, <1>7 DEF Told
    <3> QED BY <3>1, <1>6, <1>7, ToldLasts
  <2>3. d \notin mixed /\ tls'[d].at \in {"serving", "served"} => holder'[d] # NoPrint
    BY <1>6, <1>7, <1>8, <1>9 DEF PrintInv, PrintTold
  <2> QED BY <1>9, <2>1, <2>2, <2>3
<1> QED BY <1>6, <1>10, <1>11, <1>12, <1>13, <1>14 DEF PrintInv

\* A request is told what the holder says; the other steps only end things.
LEMMA LateKeepsPrints ==
  ASSUME PrintAssumption, PrintInv, NEW c \in TLSConns,
         Request(c) \/ CloseSocket(c) \/ ClosedHook(c)
  PROVE  PrintInv'
<1> DEFINE at == CASE Request(c) -> "served"
                   [] ~Request(c) /\ CloseSocket(c) -> "closed"
                   [] OTHER -> "gone"
           t == [tls[c] EXCEPT !.at = at]
<1>1. /\ tls[c].at \in {"hello", "serving", "served", "closed"} /\ UNCHANGED <<mixed, holder>>
      /\ at \in {"served", "closed", "gone"} /\ tls' = [tls EXCEPT ![c] = t]
      /\ at = "served" => tls[c].at = "serving" /\ seen' = [seen EXCEPT ![c] = holder[c]]
      /\ at # "served" => UNCHANGED seen
      /\ at = "gone" => pending' = [pending EXCEPT ![tls[c].addr] = NoHolder]
      /\ at # "gone" => UNCHANGED pending
  BY DEF Request, CloseSocket, ClosedHook
<1> HIDE DEF at
<1>2. Live(tls[c]) /\ Started(tls[c]) /\ tls[c] \in Handshake
  BY <1>1, StartedType DEF Live, Started
<1>3. t \in Handshake /\ t.addr = tls[c].addr /\ t.hello = tls[c].hello /\ t.at = at
  BY <1>1, <1>2 DEF Handshake
<1>4. tls' = [tls EXCEPT ![c] = t]
  BY <1>1
<1> HIDE DEF t
<1>5. Moves(c, t)
  BY <1>1, <1>2, <1>3 DEF Moves
<1>6. /\ tls' \in [TLSConns -> {NotYet} \cup Handshake]
      /\ \A d \in TLSConns : tls'[d] = IF d = c THEN t ELSE tls[d]
      /\ Lasts(tls, tls') /\ PrintMet'
  BY <1>5, MoveFacts
<1>7. tls[c].addr \in Addrs
  BY <1>2 DEF Handshake
<1>8. /\ pending' \in [Addrs -> TLSConns \cup {NoHolder}]
      /\ \A b \in Addrs : pending'[b] = IF at = "gone" /\ b = tls[c].addr THEN NoHolder
                                        ELSE pending[b]
  BY <1>1, <1>7 DEF PrintInv, PrintTypes
<1>9. /\ seen' \in [TLSConns -> Prints]
      /\ \A d \in TLSConns : seen'[d] \in {seen[d], holder[d]}
  BY <1>1 DEF PrintInv, PrintTypes
<1>10. PrintTypes'
  BY <1>1, <1>6, <1>8, <1>9 DEF PrintInv, PrintTypes
<1>11. PrintOwned'
  <2> SUFFICES ASSUME NEW b \in Addrs, pending'[b] # NoHolder
               PROVE  Live(tls'[pending'[b]]) /\ tls'[pending'[b]].addr = b
    BY DEF PrintOwned
  <2>1. pending'[b] = pending[b] /\ pending[b] \in TLSConns
    BY <1>8 DEF PrintInv, PrintTypes
  <2>2. Live(tls[pending[b]]) /\ tls[pending[b]].addr = b
    BY <2>1 DEF PrintInv, PrintOwned
  <2>3. pending[b] = c => at # "gone"
    BY <2>1, <2>2, <1>8
  <2>4. at # "gone" => Live(t)
    BY <1>1, <1>3 DEF Live
  <2> QED BY <2>1, <2>2, <2>3, <2>4, <1>3, <1>6
<1>12. PrintHello'
  <2> SUFFICES ASSUME NEW d \in TLSConns, d \notin mixed, tls'[d].at = "hello"
               PROVE  pending'[tls'[d].addr] = d
    BY <1>1 DEF PrintHello
  <2>1. d # c /\ tls'[d] = tls[d]
    BY <1>1, <1>3, <1>6
  <2>2. tls[d] \in Handshake /\ Live(tls[d])
    BY <2>1, StartedType DEF Started, Live
  <2>3. tls[d].addr # tls[c].addr /\ tls[d].addr \in Addrs
    BY <2>1, <2>2, <1>2 DEF Handshake, PrintInv, PrintMet
  <2> QED BY <2>1, <2>3, <1>8 DEF PrintInv, PrintHello
<1>13. PrintFill'
  <2> SUFFICES ASSUME NEW d \in TLSConns, tls'[d].at = "fill"
               PROVE  /\ tls'[d].took \in TLSConns
                      /\ Started(tls'[tls'[d].took])
                      /\ tls'[tls'[d].took].addr = tls'[d].addr
                      /\ tls'[d].took = d \/ (d \in mixed /\ tls'[d].took \in mixed)
    BY <1>1 DEF PrintFill
  <2>1. tls'[d] = tls[d]
    BY <1>1, <1>3, <1>6
  <2>2. /\ tls[d].took \in TLSConns /\ Started(tls[tls[d].took])
        /\ tls[tls[d].took].addr = tls[d].addr
        /\ tls[d].took = d \/ (d \in mixed /\ tls[d].took \in mixed)
    BY <2>1 DEF PrintInv, PrintFill
  <2> QED BY <2>1, <2>2, <1>6 DEF Lasts
<1>14. PrintTold'
  <2> SUFFICES ASSUME NEW d \in TLSConns
               PROVE  /\ Told(tls', mixed, d, holder[d])
                      /\ Told(tls', mixed, d, seen'[d])
                      /\ d \notin mixed /\ tls'[d].at \in {"serving", "served"}
                            => holder[d] # NoPrint
    BY <1>1 DEF PrintTold
  <2>1. Told(tls', mixed, d, holder[d]) /\ Told(tls', mixed, d, seen[d])
    BY <1>6, ToldLasts DEF PrintInv, PrintTold
  <2>2. Told(tls', mixed, d, seen'[d])
    BY <1>9, <2>1
  <2>3. d \notin mixed /\ tls'[d].at \in {"serving", "served"} => holder[d] # NoPrint
    BY <1>1, <1>3, <1>6 DEF PrintInv, PrintTold
  <2> QED BY <2>1, <2>2, <2>3
<1> QED BY <1>6, <1>10, <1>11, <1>12, <1>13, <1>14 DEF PrintInv

LEMMA PrintInvariant ==
  ASSUME PrintAssumption
  PROVE  CollectorSpec => []PrintInv
<1>1. CollectorInit => PrintInv
  BY PrintStarts
<1>2. PrintInv /\ [CollectorNext]_collectorVars => PrintInv'
  <2>1. ASSUME PrintInv, UNCHANGED <<pending, holder, tls, seen, mixed>>
        PROVE  PrintInv'
    BY <2>1 DEF PrintInv, PrintTypes, PrintOwned, PrintMet, PrintHello, PrintFill, PrintTold
  <2>2. ASSUME PrintInv, UNCHANGED collectorVars
        PROVE  PrintInv'
    BY <2>1, <2>2 DEF collectorVars
  <2>3. ASSUME PrintInv, NEW c \in TLSConns, Reset(c)
        PROVE  PrintInv'
    BY <2>1, <2>3 DEF Reset
  <2> QED BY <2>2, <2>3, AcceptKeepsPrints, TakeKeepsPrints, FillKeepsPrints, LateKeepsPrints
          DEF CollectorNext
<1> QED BY <1>1, <1>2, PTL DEF CollectorSpec

\* The collector's map holds unfinished connections only, so it does not grow
\* with the connections that come and go; and a served connection that was
\* never unfinished together with another of its address has its fingerprint.
THEOREM PendingIsOwned == CollectorSpec => []PendingOwned
<1>1. PrintInv => PendingOwned
  <2> SUFFICES ASSUME PrintInv
               PROVE  PendingOwned
    OBVIOUS
  <2>1. \A c \in TLSConns \ mixed : tls[c].at = "serving" => holder[c] # NoPrint
    BY DEF PrintInv, PrintTold
  <2>2. \A a \in Addrs : pending[a] # NoHolder => pending[a] \in Unfinished(a)
    BY DEF PrintInv, PrintTypes, PrintOwned, Unfinished, Live
  <2> QED BY <2>1, <2>2 DEF PendingOwned
<1>2. CollectorSpec => []PrintInv
  BY PrintInvariant, PrintAssumption
<1> QED BY <1>1, <1>2, PTL DEF PendingOwned

\* A request is told the fingerprint of its own connection, or of one of its
\* address that was unfinished together with another, as its own was
\* (FromContext).
THEOREM PrintIsOwn == CollectorSpec => []OwnPrint
<1>1. PrintInv => OwnPrint
  <2> SUFFICES ASSUME PrintInv, NEW c \in Answered
               PROVE  \E d \in TLSConns :
                          /\ tls[d].at # "new" /\ tls[d].addr = tls[c].addr
                          /\ d = c \/ {c, d} \subseteq mixed
                          /\ seen[c] = Marks(tls[d].hello)
    BY DEF OwnPrint
  <2>1. c \in TLSConns /\ seen[c] # NoPrint
    BY DEF Answered
  <2>2. Told(tls, mixed, c, seen[c])
    BY <2>1 DEF PrintInv, PrintTold
  <2> QED BY <2>1, <2>2 DEF Told, Started
<1>2. CollectorSpec => []PrintInv
  BY PrintInvariant, PrintAssumption
<1> QED BY <1>1, <1>2, PTL

----------------------------------------------------------------------------
(* The security monitor. *)

Counters == {"total", "blocked", "challenged"}
Reading == [Counters -> Nat]

LEMMA FieldFacts ==
    /\ Names = Counters /\ Len(Fields) = 3 /\ DOMAIN Fields = 1..3
    /\ Fields[1] = "total" /\ Fields[2] = "blocked" /\ Fields[3] = "challenged"
BY DEF Names, Fields, Range, Counters

\* Where a counter is in a snapshot.
At(f) == IF f = "total" THEN 1 ELSE IF f = "blocked" THEN 2 ELSE 3

LEMMA FieldAt ==
    \A f \in Counters : At(f) \in 1..3 /\ Fields[At(f)] = f
BY FieldFacts DEF Counters, At

\* The samples' values of one counter, as a function of their number.
Column(l, f) == [i \in DOMAIN l |-> l[i][f]]

LEMMA ColumnMore ==
    ASSUME NEW l \in Seq(Reading), NEW s \in Reading, NEW f \in Counters
    PROVE  /\ Sum(Column(Append(l, s), f), DOMAIN Append(l, s))
                 = s[f] + Sum(Column(l, f), DOMAIN l)
           /\ Sum(Column(l, f), DOMAIN l) \in Int
<1> DEFINE n == Len(l)
           m == Append(l, s)
           S == 1..n
<1>1. /\ n \in Nat /\ DOMAIN l = S /\ DOMAIN m = S \cup {n + 1} /\ n + 1 \notin S
      /\ m[n + 1] = s /\ \A i \in S : m[i] = l[i] /\ l[i] \in Reading
  OBVIOUS
<1>f. IsFiniteSet(S)
  BY <1>1, FS_Interval
<1> HIDE DEF n, m, S
<1>2. /\ \A i \in S : Column(m, f)[i] = Column(l, f)[i]
      /\ \A i \in S \cup {n + 1} : Column(m, f)[i] \in Int
      /\ Column(m, f)[n + 1] = s[f]
  BY <1>1 DEF Column, Reading
<1>3. /\ Sum(Column(m, f), S \cup {n + 1}) = Column(m, f)[n + 1] + Sum(Column(l, f), S)
      /\ Sum(Column(l, f), S) \in Int
  <2>1. OneMore(Column(m, f), Column(l, f), S, n + 1)
    BY <1>1, <1>2, <1>f DEF OneMore
  <2> QED BY <2>1, SumMore
<1> QED BY <1>1, <1>2, <1>3 DEF m
Total(l, f) == Sum(Column(l, f), DOMAIN l)

MonTypes ==
    /\ counter \in Reading /\ prev \in Reading /\ base \in Reading
    /\ read \in Seq(Nat) /\ Len(read) \in 0..3
    /\ started \in BOOLEAN
    /\ log \in Seq(Reading)

\* Each counter was loaded after it was last sampled, and only grows.
MonOrder ==
    \A f \in Counters :
        /\ prev[f] <= counter[f]
        /\ At(f) <= Len(read) => prev[f] <= read[At(f)] /\ read[At(f)] <= counter[f]

Booked(b, l, p) == \A f \in Counters : b[f] + Total(l, f) = p[f]

MonInv ==
    /\ MonTypes
    /\ MonOrder
    /\ IF started THEN Booked(base, log, prev) ELSE log = <<>>
    /\ ring = Newest(log, CapN)

\* A list that keeps its newest entries, and one more entry.
LEMMA NewestMore ==
    ASSUME NEW S, NEW l \in Seq(S), NEW x \in S, NEW cap \in Nat \ {0}
    PROVE  Keep(Newest(l, cap), x, cap) = Newest(Append(l, x), cap)
<1> DEFINE n == Len(l)
           m == Append(l, x)
<1>1. /\ n \in Nat /\ m \in Seq(S) /\ Len(m) = n + 1 /\ l \in Seq(S)
      /\ \A i \in 1..n : m[i] = l[i]
      /\ m[n + 1] = x
  OBVIOUS
<1>2. CASE n < cap
  <2>1. Newest(l, cap) = l /\ Newest(m, cap) = m
    BY <1>1, <1>2 DEF Newest
  <2>2. ~(Len(l) >= cap)
    BY <1>1, <1>2
  <2> QED BY <2>1, <2>2 DEF Keep
<1>3. CASE n >= cap
  <2> DEFINE q == Newest(l, cap)
             k == Append(Tail(q), x)
             r == SubSeq(m, n + 1 - cap + 1, n + 1)
  <2>1. q \in Seq(S) /\ Len(q) = cap /\ \A i \in 1..cap : q[i] = l[n - cap + i]
    <3>1. CASE n = cap
      <4>1. q = l
        BY <1>1, <3>1 DEF Newest
      <4> QED BY <1>1, <3>1, <4>1
    <3>2. CASE n > cap
      <4>1. q = SubSeq(l, n - cap + 1, n)
        BY <3>2 DEF Newest
      <4>2. n - cap + 1 \in 1..n /\ n \in 1..n /\ n - (n - cap + 1) + 1 = cap
        BY <1>1, <3>2
      <4> HIDE DEF n, q
      <4>3. /\ q \in Seq(S) /\ Len(q) = cap
            /\ \A i \in 1..cap : q[i] = l[(n - cap + 1) + i - 1]
        BY <1>1, <4>1, <4>2 DEF n
      <4>4. \A i \in 1..cap : (n - cap + 1) + i - 1 = n - cap + i
        BY <1>1
      <4> QED BY <4>3, <4>4
    <3> QED BY <1>1, <1>3, <3>1, <3>2
  <2> HIDE DEF q
  <2>2. Keep(q, x, cap) = k
    BY <2>1 DEF Keep
  <2>3. Newest(m, cap) = r
    BY <1>1, <1>3 DEF Newest
  <2>4. /\ Tail(q) \in Seq(S) /\ Len(Tail(q)) = cap - 1
        /\ \A i \in 1..(cap - 1) : Tail(q)[i] = q[i + 1]
    BY <2>1
  <2>5. k \in Seq(S) /\ Len(k) = cap /\ \A i \in 1..cap : k[i] = m[n - cap + 1 + i]
    <3>1. k \in Seq(S) /\ Len(k) = cap /\ k[cap] = x
      BY <2>4
    <3>2. ASSUME NEW i \in 1..(cap - 1) PROVE k[i] = m[n - cap + 1 + i]
      <4>1. k[i] = q[i + 1] /\ i + 1 \in 1..cap
        BY <2>4
      <4>2. q[i + 1] = l[n - cap + (i + 1)] /\ n - cap + (i + 1) \in 1..n
        BY <1>1, <1>3, <2>1, <4>1
      <4>3. n - cap + (i + 1) = n - cap + 1 + i
        BY <1>1
      <4> QED BY <1>1, <4>1, <4>2, <4>3
    <3>3. k[cap] = m[n - cap + 1 + cap]
      BY <1>1, <3>1
    <3>4. \A i \in 1..cap : i \in 1..(cap - 1) \/ i = cap
      OBVIOUS
    <3> QED BY <3>1, <3>2, <3>3, <3>4
  <2>6. r \in Seq(S) /\ Len(r) = cap /\ \A i \in 1..cap : r[i] = m[n - cap + 1 + i]
    <3> DEFINE a == n + 1 - cap + 1
               b == n + 1
    <3>1. a \in 1..Len(m) /\ b \in 1..Len(m) /\ b - a + 1 = cap
      BY <1>1, <1>3
    <3> HIDE DEF a, b, m
    <3>2. /\ SubSeq(m, a, b) \in Seq(S) /\ Len(SubSeq(m, a, b)) = cap
          /\ \A i \in 1..cap : SubSeq(m, a, b)[i] = m[a + i - 1]
      BY <1>1, <3>1
    <3>3. \A i \in 1..cap : a + i - 1 = n - cap + 1 + i
      BY <1>1 DEF a
    <3> QED BY <3>2, <3>3 DEF a, b
  <2> HIDE DEF k, r
  <2>7. k = r
    BY <2>5, <2>6, SeqEqual
  <2> QED BY <2>2, <2>3, <2>7 DEF q
<1> QED BY <1>1, <1>2, <1>3

LEMMA LoadedAt ==
    ASSUME MonTypes, Len(read) = 3
    PROVE  Loaded \in Reading /\ \A f \in Counters : Loaded[f] = read[At(f)]
<1>1. ASSUME NEW f \in Counters
      PROVE  (CHOOSE i \in DOMAIN Fields : Fields[i] = f) = At(f)
  <2>1. At(f) \in DOMAIN Fields /\ Fields[At(f)] = f
    BY FieldAt, FieldFacts
  <2>2. \A i \in DOMAIN Fields : Fields[i] = f => i = At(f)
    BY FieldFacts DEF Counters, At
  <2> QED BY <2>1, <2>2
<1>0. read \in Seq(Nat) /\ Len(read) = 3
  BY DEF MonTypes
<1>2. \A f \in Counters : read[At(f)] \in Nat
  BY <1>0, FieldAt
<1>3. Loaded = [f \in Counters |-> read[CHOOSE i \in DOMAIN Fields : Fields[i] = f]]
  BY FieldFacts DEF Loaded
<1> QED BY <1>1, <1>2, <1>3 DEF Reading

LEMMA MonStarts == MonitorInit => MonInv
<1> SUFFICES ASSUME MonitorInit PROVE MonInv
  OBVIOUS
<1>1. Zero \in Reading /\ \A f \in Counters : Zero[f] = 0
  BY FieldFacts DEF Zero, Reading
<1>e. /\ <<>> \in Seq(Nat) /\ Len(<<>>) \in 0..3 /\ <<>> \in Seq(Reading)
  OBVIOUS
<1>2. MonTypes
  BY <1>1, <1>e DEF MonitorInit, MonTypes
<1>3. MonOrder
  BY <1>1, FieldAt DEF MonitorInit, MonOrder
<1>4. ring = Newest(log, CapN)
  <2>1. ring = <<>> /\ log = <<>>
    BY DEF MonitorInit
  <2>2. Newest(<<>>, CapN) = <<>>
    BY DEF Newest
  <2> QED BY <2>1, <2>2
<1> QED BY <1>2, <1>3, <1>4 DEF MonInv, MonitorInit

LEMMA MonStep ==
    ASSUME ParamAssumption, MonInv, [MonitorNext]_monitorVars
    PROVE  MonInv'
<1>0. /\ counter \in Reading /\ prev \in Reading /\ base \in Reading
      /\ read \in Seq(Nat) /\ Len(read) \in 0..3 /\ started \in BOOLEAN /\ log \in Seq(Reading)
      /\ MonTypes /\ MonOrder /\ ring = Newest(log, CapN)
      /\ IF started THEN Booked(base, log, prev) ELSE log = <<>>
  BY DEF MonInv, MonTypes
<1>t. \A f \in Counters : /\ counter[f] \in Nat /\ prev[f] \in Nat /\ base[f] \in Nat
                       /\ At(f) \in 1..3 /\ (At(f) <= Len(read) => read[At(f)] \in Nat)
  <2>1. \A q \in Seq(Nat) : \A i \in 1..3 : i <= Len(q) => q[i] \in Nat
    OBVIOUS
  <2>2. \A r \in Reading : \A f \in Counters : r[f] \in Nat
    BY DEF Reading
  <2>3. read \in Seq(Nat) /\ counter \in Reading /\ prev \in Reading /\ base \in Reading
    BY <1>0
  <2>4. \A i \in 1..3 : i <= Len(read) => read[i] \in Nat
    BY <2>1, <2>3
  <2>5. \A f \in Counters : At(f) \in 1..3
    BY FieldAt
  <2>6. \A f \in Counters : counter[f] \in Nat /\ prev[f] \in Nat /\ base[f] \in Nat
    BY <2>2, <2>3
  <2> QED BY <2>4, <2>5, <2>6
<1>k. ASSUME UNCHANGED <<prev, base, started, ring, log>>, MonTypes', MonOrder'
      PROVE  MonInv'
  BY <1>0, <1>k DEF MonInv
<1>1. ASSUME NEW g \in Counters, Bump(g) PROVE MonInv'
  <2>1. /\ counter' = [counter EXCEPT ![g] = @ + 1]
        /\ UNCHANGED <<read, prev, base, started, ring, log>>
    BY <1>1 DEF Bump, monitor
  <2> DEFINE x == counter[g] + 1
  <2>2. x \in Nat /\ counter[g] <= x
    BY <1>t
  <2> HIDE DEF x
  <2>3. counter' \in Reading /\ \A f \in Counters : counter'[f] = IF f = g THEN x ELSE counter[f]
    BY <1>0, <2>1, <2>2 DEF x, Reading
  <2>4. \A f \in Counters : counter'[f] \in Nat /\ counter[f] <= counter'[f]
    BY <1>t, <2>2, <2>3
  <2>5. MonTypes'
    BY <1>0, <2>1, <2>3 DEF MonTypes
  <2>6. MonOrder'
    <3> SUFFICES ASSUME NEW f \in Counters
                 PROVE  /\ prev'[f] <= counter'[f]
                        /\ At(f) <= Len(read') => prev'[f] <= read'[At(f)] /\ read'[At(f)] <= counter'[f]
      BY DEF MonOrder
    <3> DEFINE y == counter'[f]
    <3>1. y \in Nat /\ counter[f] <= y
      BY <2>4
    <3> HIDE DEF y
    <3>2. /\ prev[f] <= counter[f]
          /\ At(f) <= Len(read) => prev[f] <= read[At(f)] /\ read[At(f)] <= counter[f]
      BY <1>0 DEF MonOrder
    <3>3. /\ prev[f] <= y
          /\ At(f) <= Len(read) => prev[f] <= read[At(f)] /\ read[At(f)] <= y
      BY <1>t, <3>1, <3>2
    <3> QED BY <2>1, <3>3 DEF y
  <2> QED BY <1>k, <2>1, <2>5, <2>6
<1>2. ASSUME Load PROVE MonInv'
  <2> DEFINE n == Len(read) + 1
             v == counter[Fields[n]]
             q == Append(read, v)
  <2>1. /\ read' = q /\ Len(read) < 3
        /\ UNCHANGED <<counter, prev, base, started, ring, log>>
    BY <1>2, FieldFacts DEF Load, monitor
  <2>2. n \in 1..3 /\ Fields[n] \in Counters /\ At(Fields[n]) = n
    BY <1>0, <2>1, FieldFacts DEF Counters, At
  <2>3. v \in Nat
    BY <1>t, <2>2
  <2>4. q \in Seq(Nat) /\ Len(q) = n /\ q[n] = v /\ \A i \in 1..Len(read) : q[i] = read[i]
    BY <1>0, <2>3
  <2>5. MonTypes'
    BY <1>0, <2>1, <2>2, <2>4 DEF MonTypes
  <2>6. ASSUME NEW f \in Counters
        PROVE  /\ prev[f] <= counter[f]
               /\ At(f) <= Len(q) => prev[f] <= q[At(f)] /\ q[At(f)] <= counter[f]
    <3>1. /\ prev[f] <= counter[f]
          /\ At(f) <= Len(read) => prev[f] <= read[At(f)] /\ read[At(f)] <= counter[f]
      BY <1>0 DEF MonOrder
    <3>2. CASE At(f) = n
      <4>1. f = Fields[n]
        BY <3>2, FieldAt
      <4> QED BY <1>t, <2>4, <3>1, <3>2, <4>1
    <3>3. CASE At(f) # n
      <4> HIDE DEF q
      <4>1. At(f) <= Len(q) => At(f) \in 1..Len(read)
        <5> DEFINE i == At(f)
        <5>1. i \in 1..3 /\ Len(read) \in Nat /\ Len(q) = Len(read) + 1 /\ i # Len(read) + 1
          BY <1>0, <1>t, <2>4, <3>3
        <5>2. i <= Len(read) + 1 => i \in 1..Len(read)
          BY <5>1
        <5> HIDE DEF i
        <5> QED BY <5>1, <5>2 DEF i
      <4>2. At(f) \in 1..Len(read) => At(f) <= Len(read) /\ q[At(f)] = read[At(f)]
        BY <1>0, <2>4
      <4> QED BY <3>1, <4>1, <4>2
    <3> QED BY <3>2, <3>3
  <2> HIDE DEF q
  <2>7. MonOrder'
    BY <2>1, <2>6 DEF MonOrder
  <2> QED BY <1>k, <2>1, <2>5, <2>7
<1>3. ASSUME Len(read) = 3, prev' = Loaded, read' = <<>>, counter' = counter
      PROVE  prev' \in Reading /\ MonOrder'
  <2>1. Loaded \in Reading /\ \A f \in Counters : Loaded[f] = read[At(f)]
    BY <1>0, <1>3, LoadedAt
  <2>2. \A f \in Counters : read[At(f)] <= counter[f]
    BY <1>0, <1>3, <1>t DEF MonOrder
  <2>3. \A f \in Counters : ~(At(f) <= Len(<<>>))
    BY <1>t
  <2> QED BY <1>3, <2>1, <2>2, <2>3 DEF MonOrder
<1>4. ASSUME SeedTick PROVE MonInv'
  <2>1. /\ Len(read) = 3 /\ ~started /\ started' = TRUE /\ prev' = Loaded
        /\ base' = Loaded /\ read' = <<>> /\ UNCHANGED <<counter, ring, log>>
    BY <1>4, FieldFacts DEF SeedTick
  <2>2. prev' \in Reading /\ MonOrder' /\ base' = prev'
    BY <1>3, <2>1
  <2>3. MonTypes'
    BY <1>0, <2>1, <2>2 DEF MonTypes
  <2>4. log = <<>> /\ \A f : Total(<<>>, f) = 0
    BY <1>0, <2>1, SumNone DEF Total, Column
  <2>5. \A b \in Reading : Booked(b, <<>>, b)
    BY <2>4 DEF Booked, Reading
  <2>6. Booked(base', log', prev')
    BY <2>1, <2>2, <2>4, <2>5
  <2> QED BY <1>0, <2>1, <2>2, <2>3, <2>6 DEF MonInv
<1>5. ASSUME Tick PROVE MonInv'
  <2> DEFINE s == SampleOf(Loaded, prev)
             c == Loaded
  <2>1. /\ Len(read) = 3 /\ started /\ UNCHANGED <<counter, started, base>>
        /\ prev' = c /\ read' = <<>> /\ ring' = Keep(ring, s, CapN)
        /\ log' = Append(log, s)
    BY <1>5, FieldFacts DEF Tick
  <2>2. prev' \in Reading /\ MonOrder'
    BY <1>3, <2>1
  <2>3. c \in Reading /\ \A f \in Counters : c[f] = read[At(f)]
    BY <1>0, <2>1, LoadedAt
  <2> HIDE DEF c
  <2>4. \A f \in Counters : c[f] \in Nat /\ prev[f] <= c[f]
    <3>1. \A f \in Counters : At(f) <= Len(read)
      BY <2>1, FieldAt
    <3>2. \A f \in Counters : c[f] \in Nat
      BY <2>3 DEF Reading
    <3>3. \A f \in Counters : prev[f] <= read[At(f)]
      BY <1>0, <3>1 DEF MonOrder
    <3> QED BY <2>3, <3>2, <3>3
  <2>5. s = [f \in Counters |-> NonNeg(c[f] - prev[f])]
    BY FieldFacts DEF SampleOf, c
  <2>6. s \in Reading /\ \A f \in Counters : s[f] = c[f] - prev[f]
    BY <1>t, <2>4, <2>5 DEF NonNeg, Reading
  <2> HIDE DEF s
  <2>7. MonTypes'
    <3>1. log' \in Seq(Reading)
      BY <1>0, <2>1, <2>6
    <3> QED BY <1>0, <2>1, <2>2, <3>1 DEF MonTypes
  <2>8. Booked(base, Append(log, s), c)
    <3> SUFFICES ASSUME NEW f \in Counters PROVE base[f] + Total(Append(log, s), f) = c[f]
      BY DEF Booked
    <3>1. Total(Append(log, s), f) = s[f] + Total(log, f) /\ Total(log, f) \in Int
      BY <1>0, <2>6, ColumnMore DEF Total
    <3>2. base[f] + Total(log, f) = prev[f]
      BY <1>0, <2>1 DEF Booked
    <3>3. s[f] = c[f] - prev[f] /\ c[f] \in Nat /\ prev[f] \in Nat /\ base[f] \in Nat
      BY <1>t, <2>4, <2>6
    <3> QED BY <3>1, <3>2, <3>3
  <2>9. Booked(base', log', prev')
    BY <2>1, <2>8
  <2>10. ring' = Newest(log', CapN)
    <3>1. CapN \in Nat \ {0}
      BY DEF ParamAssumption
    <3>2. Keep(Newest(log, CapN), s, CapN) = Newest(Append(log, s), CapN)
      BY <1>0, <2>6, <3>1, NewestMore
    <3> QED BY <1>0, <2>1, <3>2
  <2> QED BY <2>1, <2>2, <2>7, <2>9, <2>10 DEF MonInv
<1>6. CASE UNCHANGED monitorVars
  <2>1. UNCHANGED <<counter, read, prev, base, started, ring, log>>
    BY <1>6 DEF monitorVars, monitor
  <2>2. MonTypes' /\ MonOrder'
    BY <1>0, <2>1 DEF MonTypes, MonOrder
  <2> QED BY <1>k, <2>1, <2>2
<1> QED BY <1>1, <1>2, <1>4, <1>5, <1>6, FieldFacts DEF MonitorNext

\* No request falls between two samples, whenever each counter is loaded: the
\* samples add up to what was counted since the first snapshot, for any number
\* of them, and the ring holds the newest.
THEOREM SamplesAddUp == MonitorSpec => []NothingLost
<1> USE ParamAssumption
<1>1. MonitorInit => MonInv
  BY MonStarts
<1>2. MonInv /\ [MonitorNext]_monitorVars => MonInv'
  BY MonStep
<1>3. MonInv => NothingLost
  <2> SUFFICES ASSUME MonInv
               PROVE  NothingLost
    OBVIOUS
  <2>1. \A f : FoldFunction(+, 0, Column(log, f)) = Total(log, f)
    <3> SUFFICES ASSUME NEW f
                 PROVE  FoldFunction(+, 0, Column(log, f)) = Total(log, f)
      OBVIOUS
    <3> DEFINE d == Column(log, f)
    <3>1. DOMAIN d = DOMAIN log
      BY DEF Column
    <3> HIDE DEF d
    <3>2. FoldFunction(+, 0, d) = Sum(d, DOMAIN d)
      BY FoldIs
    <3> QED BY <3>1, <3>2 DEF Total, d
  <2>2. started => \A f \in Counters :
           base[f] + FoldFunction(+, 0, [i \in DOMAIN log |-> log[i][f]]) = prev[f]
    BY <2>1 DEF MonInv, Booked, Column
  <2> QED BY <2>2, FieldFacts DEF MonInv, NothingLost
<1> QED BY <1>1, <1>2, <1>3, PTL DEF MonitorSpec, NothingLost

\* Episodes of a log, said of the log alone.
HotOf(l) == {t \in 2..(Len(l) + 1) : Mitigated(l[t - 1]) >= AttackBlocked}
StartsOf(l) == {s \in HotOf(l) : HotOf(l) \cap (s - CloseTicks)..(s - 1) = {}}
IsLast(l, s, t) ==
    /\ t \in HotOf(l) /\ t >= s
    /\ (s + 1)..t \cap StartsOf(l) = {}
    /\ \A u \in HotOf(l) : u > t => (s + 1)..u \cap StartsOf(l) # {}

LEMMA ParamFacts ==
    ASSUME ParamAssumption
    PROVE  /\ CapN \in Nat \ {0} /\ EventCap \in Nat \ {0}
           /\ AttackBlocked \in Nat \ {0} /\ CloseTicks \in Nat \ {0}
BY DEF ParamAssumption

LEMMA SampleFacts ==
    ASSUME NEW s \in Reading
    PROVE  Mitigated(s) \in Nat /\ s.total \in Nat
BY DEF Reading, Counters, Mitigated

LEMMA HotFacts ==
    ASSUME NEW l \in Seq(Reading)
    PROVE  /\ HotOf(l) \subseteq 2..(Len(l) + 1) /\ StartsOf(l) \subseteq HotOf(l)
           /\ \A t \in HotOf(l) : t \in Nat /\ t >= 2 /\ t <= Len(l) + 1
           /\ Len(l) \in Nat
BY DEF HotOf, StartsOf

\* One more sample.
LEMMA HotMore ==
    ASSUME NEW l \in Seq(Reading), NEW x \in Reading
    PROVE  HotOf(Append(l, x)) =
              HotOf(l) \cup (IF Mitigated(x) >= AttackBlocked THEN {Len(l) + 2} ELSE {})
<1> DEFINE m == Append(l, x)
           n == Len(l)
<1>1. n \in Nat /\ Len(m) = n + 1 /\ m[n + 1] = x /\ \A i \in 1..n : m[i] = l[i]
  OBVIOUS
<1> HIDE DEF m, n
<1>2. ASSUME NEW t PROVE t \in HotOf(m) <=> t \in HotOf(l) \/ (t = n + 2 /\ Mitigated(x) >= AttackBlocked)
  <2>1. CASE t = n + 2
    <3>1. t \in 2..(Len(m) + 1) /\ t - 1 = n + 1 /\ t \notin 2..(n + 1)
      BY <1>1, <2>1
    <3> QED BY <1>1, <2>1, <3>1 DEF HotOf, n
  <2>2. CASE t \in 2..(n + 1)
    <3>1. t \in 2..(Len(m) + 1) /\ t - 1 \in 1..n /\ t # n + 2
      BY <1>1, <2>2
    <3>2. m[t - 1] = l[t - 1]
      BY <1>1, <3>1
    <3> QED BY <2>2, <3>1, <3>2 DEF HotOf, n
  <2>3. CASE t \notin 2..(n + 2)
    <3>1. t \notin 2..(Len(m) + 1) /\ t \notin 2..(n + 1) /\ t # n + 2
      BY <1>1, <2>3
    <3> QED BY <3>1 DEF HotOf, n
  <2>4. t \in 2..(n + 2) => t = n + 2 \/ t \in 2..(n + 1)
    BY <1>1
  <2> QED BY <2>1, <2>2, <2>3, <2>4
<1> QED BY <1>2 DEF m, n

LEMMA StartsMore ==
    ASSUME ParamAssumption, NEW l \in Seq(Reading), NEW x \in Reading
    PROVE  StartsOf(Append(l, x)) =
              StartsOf(l) \cup
              (IF /\ Mitigated(x) >= AttackBlocked
                  /\ HotOf(l) \cap (Len(l) + 2 - CloseTicks)..(Len(l) + 1) = {}
               THEN {Len(l) + 2} ELSE {})
<1> DEFINE m == Append(l, x)
           n == Len(l)
           H == HotOf(l)
           K == HotOf(m)
<1>1. /\ n \in Nat /\ CloseTicks \in Nat
      /\ \A t \in H : t \in Nat /\ t <= n + 1
      /\ K = H \cup (IF Mitigated(x) >= AttackBlocked THEN {n + 2} ELSE {})
  BY ParamFacts, HotFacts, HotMore
<1> HIDE DEF m, n, H, K
<1>2. \A s \in H : K \cap (s - CloseTicks)..(s - 1) = H \cap (s - CloseTicks)..(s - 1)
  <2>1. \A s \in H : n + 2 \notin (s - CloseTicks)..(s - 1)
    BY <1>1
  <2> QED BY <1>1, <2>1
<1>3. K \cap (n + 2 - CloseTicks)..(n + 1) = H \cap (n + 2 - CloseTicks)..(n + 1)
  <2>1. n + 2 \notin (n + 2 - CloseTicks)..(n + 1)
    BY <1>1
  <2> QED BY <1>1, <2>1
<1>4. n + 2 - 1 = n + 1 /\ n + 2 \notin H
  BY <1>1
<1>5. StartsOf(m) = {s \in K : K \cap (s - CloseTicks)..(s - 1) = {}}
      /\ StartsOf(l) = {s \in H : H \cap (s - CloseTicks)..(s - 1) = {}}
  BY DEF StartsOf, K, H
<1>6. ASSUME NEW s
      PROVE  s \in StartsOf(m) <=>
                \/ s \in StartsOf(l)
                \/ /\ s = n + 2 /\ Mitigated(x) >= AttackBlocked
                   /\ H \cap (n + 2 - CloseTicks)..(n + 1) = {}
  <2>1. CASE s \in H
    BY <1>1, <1>2, <1>4, <1>5, <2>1
  <2>2. CASE s = n + 2
    BY <1>1, <1>3, <1>4, <1>5, <2>2
  <2>3. CASE s \notin H /\ s # n + 2
    BY <1>1, <1>5, <2>3
  <2> QED BY <2>1, <2>2, <2>3
<1> QED BY <1>6 DEF m, n, H

\* A calm sample changes neither.
LEMMA CalmMore ==
    ASSUME ParamAssumption, NEW l \in Seq(Reading), NEW x \in Reading,
           ~(Mitigated(x) >= AttackBlocked)
    PROVE  /\ HotOf(Append(l, x)) = HotOf(l) /\ StartsOf(Append(l, x)) = StartsOf(l)
           /\ Len(l) \in Nat /\ Len(Append(l, x)) = Len(l) + 1
<1>1. HotOf(Append(l, x)) = HotOf(l)
  BY HotMore
<1>2. StartsOf(Append(l, x)) = StartsOf(l)
  BY StartsMore
<1> QED BY <1>1, <1>2

\* The last hot tick of an episode stays the last, unless the episode goes on.
LEMMA LastKept ==
    ASSUME ParamAssumption, NEW l \in Seq(Reading), NEW x \in Reading,
           NEW s \in StartsOf(l), NEW t, IsLast(l, s, t),
           \/ ~(Mitigated(x) >= AttackBlocked)
           \/ \E r \in StartsOf(Append(l, x)) : r > s
    PROVE  IsLast(Append(l, x), s, t)
<1> DEFINE m == Append(l, x)
           n == Len(l)
<1>1. /\ n \in Nat /\ \A u \in HotOf(l) : u \in Nat /\ u <= n + 1
      /\ HotOf(m) = HotOf(l) \cup (IF Mitigated(x) >= AttackBlocked THEN {n + 2} ELSE {})
      /\ StartsOf(l) \subseteq StartsOf(m) /\ StartsOf(m) \subseteq StartsOf(l) \cup {n + 2}
      /\ s \in Nat /\ t \in Nat /\ t <= n + 1 /\ StartsOf(m) \subseteq HotOf(m)
  BY HotFacts, HotMore, StartsMore DEF IsLast, StartsOf
<1> HIDE DEF m, n
<1>2. t \in HotOf(m) /\ t >= s /\ (s + 1)..t \cap StartsOf(m) = {}
  <2>1. n + 2 \notin (s + 1)..t
    BY <1>1
  <2> QED BY <1>1, <2>1 DEF IsLast
<1>3. ASSUME NEW u \in HotOf(m), u > t PROVE (s + 1)..u \cap StartsOf(m) # {}
  <2>1. CASE u \in HotOf(l)
    BY <1>1, <1>3, <2>1 DEF IsLast
  <2>2. CASE u \notin HotOf(l)
    <3>1. u = n + 2 /\ Mitigated(x) >= AttackBlocked
      BY <1>1, <2>2
    <3>2. PICK r \in StartsOf(m) : r > s
      BY <3>1 DEF m
    <3>3. r \in Nat /\ r <= n + 2
      BY <1>1
    <3>4. r \in (s + 1)..u
      BY <1>1, <3>1, <3>2, <3>3
    <3> QED BY <3>2, <3>4
  <2> QED BY <2>1, <2>2
<1> QED BY <1>2, <1>3 DEF IsLast, m

\* What an episode's ticks s..k say of it.
Event == [start : Nat, end : Nat, peakReqs : Nat, peakMitigated : Nat, totalMitigated : Int]
Part(l, s, k) == [i \in 1..(k - s + 1) |-> Mitigated(l[s + i - 2])]
Tells(l, e, s, k) ==
    /\ e.start = s
    /\ \A t \in s..k : l[t - 1].total <= e.peakReqs /\ Mitigated(l[t - 1]) <= e.peakMitigated
    /\ \E t \in s..k : l[t - 1].total = e.peakReqs
    /\ \E t \in s..k : Mitigated(l[t - 1]) = e.peakMitigated
    /\ e.totalMitigated = Sum(Part(l, s, k), 1..(k - s + 1))

\* A finished episode, and the one that runs, c ticks after its last hot one.
Done(l, e) ==
    /\ e \in Event /\ e.start \in StartsOf(l)
    /\ \E t : /\ IsLast(l, e.start, t) /\ e.end = t + CloseTicks
              /\ e.end <= Len(l) + 1 /\ Tells(l, e, e.start, e.end)
Runs(l, e, c) ==
    /\ e \in Event /\ e.end = 0 /\ e.start \in StartsOf(l)
    /\ \A s \in StartsOf(l) : s <= e.start
    /\ c \in Nat /\ c < CloseTicks
    /\ IsLast(l, e.start, Len(l) + 1 - c)
    /\ Tells(l, e, e.start, Len(l) + 1)

\* What was said of ticks before the new one stays true.
LEMMA TellsKept ==
    ASSUME NEW l \in Seq(Reading), NEW x \in Reading, NEW s \in Nat, s >= 2,
           NEW k \in Nat, k <= Len(l) + 1, NEW e, Tells(l, e, s, k)
    PROVE  Tells(Append(l, x), e, s, k)
<1> DEFINE m == Append(l, x)
           n == Len(l)
<1>1. n \in Nat /\ \A i \in 1..n : m[i] = l[i]
  OBVIOUS
<1> HIDE DEF m, n
<1>2. \A t \in s..k : m[t - 1] = l[t - 1]
  <2>1. \A t \in s..k : t - 1 \in 1..n
    BY <1>1 DEF n
  <2> QED BY <1>1, <2>1
<1>3. \A i \in 1..(k - s + 1) : m[s + i - 2] = l[s + i - 2]
  <2>1. \A i \in 1..(k - s + 1) : s + i - 2 \in 1..n
    BY <1>1 DEF n
  <2> QED BY <1>1, <2>1
<1>4. Part(m, s, k) = Part(l, s, k)
  BY <1>3 DEF Part
<1> QED BY <1>2, <1>4 DEF Tells, m

LEMMA DoneKept ==
    ASSUME ParamAssumption, NEW l \in Seq(Reading), NEW x \in Reading,
           NEW e, Done(l, e),
           \/ ~(Mitigated(x) >= AttackBlocked)
           \/ \E r \in StartsOf(Append(l, x)) : r > e.start
    PROVE  Done(Append(l, x), e)
<1>1. PICK t : /\ IsLast(l, e.start, t) /\ e.end = t + CloseTicks
               /\ e.end <= Len(l) + 1 /\ Tells(l, e, e.start, e.end)
  BY DEF Done
<1>2. /\ e \in Event /\ e.start \in StartsOf(l) /\ e.start \in Nat /\ e.start >= 2
      /\ e.end \in Nat /\ Len(l) \in Nat /\ Len(Append(l, x)) = Len(l) + 1
  BY HotFacts DEF Done, Event
<1>3. IsLast(Append(l, x), e.start, t)
  BY <1>1, <1>2, LastKept
<1>4. Tells(Append(l, x), e, e.start, e.end)
  BY <1>1, <1>2, TellsKept
<1>5. e.start \in StartsOf(Append(l, x))
  BY <1>2, StartsMore
<1>6. e.end <= Len(Append(l, x)) + 1
  BY <1>1, <1>2
<1> QED BY <1>1, <1>2, <1>3, <1>4, <1>5, <1>6 DEF Done

\* An episode of one tick, and one tick more of an episode.
LEMMA TellsOne ==
    ASSUME NEW l \in Seq(Reading), NEW x \in Reading, NEW e, NEW k, k = Len(l) + 2,
           e.start = k, e.peakReqs = x.total,
           e.peakMitigated = Mitigated(x), e.totalMitigated = Mitigated(x)
    PROVE  Tells(Append(l, x), e, k, k)
<1> DEFINE m == Append(l, x)
<1>1. k \in Nat /\ m[k - 1] = x /\ k - k + 1 = 1
  OBVIOUS
<1>2. x.total \in Nat /\ Mitigated(x) \in Nat
  BY SampleFacts
<1> HIDE DEF m
<1>3. k..k = {k} /\ 1..1 = {} \cup {1}
  BY <1>1
<1> DEFINE p == Part(m, k, k)
<1>4. p[1] = Mitigated(x)
  <2>1. 1 \in 1..(k - k + 1) /\ k + 1 - 2 = k - 1
    BY <1>1
  <2> QED BY <1>1, <2>1 DEF Part
<1> HIDE DEF p
<1>5. Sum(p, 1..1) = Mitigated(x)
  <2> DEFINE z == {}
  <2>0. OneMore(p, p, z, 1)
    BY <1>2, <1>4, FS_EmptySet DEF OneMore
  <2>2. Sum(p, z) = 0 /\ 1..1 = z \cup {1}
    BY <1>3, SumNone
  <2> HIDE DEF z
  <2>1. Sum(p, z \cup {1}) = p[1] + Sum(p, z)
    BY <2>0, SumMore
  <2>3. Sum(p, 1..1) = p[1] + 0
    BY <2>1, <2>2
  <2> QED BY <1>2, <1>4, <2>3
<1> QED BY <1>1, <1>2, <1>3, <1>5 DEF Tells, p, m

LEMMA TellsMore ==
    ASSUME NEW l \in Seq(Reading), NEW x \in Reading, NEW s \in Nat, s >= 2, s <= Len(l) + 1,
           NEW e \in Event, Tells(l, e, s, Len(l) + 1),
           NEW f, f.start = e.start, f.peakReqs = Larger(e.peakReqs, x.total),
           f.peakMitigated = Larger(e.peakMitigated, Mitigated(x)),
           f.totalMitigated = e.totalMitigated + Mitigated(x)
    PROVE  Tells(Append(l, x), f, s, Len(l) + 2)
<1> DEFINE m == Append(l, x)
           n == Len(l)
           k == n + 2
<1>1. n \in Nat /\ m[n + 1] = x /\ \A i \in 1..n : m[i] = l[i] /\ l[i] \in Reading
  OBVIOUS
<1>2. /\ x.total \in Nat /\ Mitigated(x) \in Nat
      /\ e.peakReqs \in Nat /\ e.peakMitigated \in Nat /\ e.totalMitigated \in Int
  BY SampleFacts DEF Event
<1>0. Tells(l, e, s, n + 1) /\ s <= n + 1
  OBVIOUS
<1> HIDE DEF m, n
<1>3. \A t \in s..k : t \in s..(n + 1) \/ t = k
  BY <1>1
<1>4. \A t \in s..(n + 1) : t \in s..k /\ m[t - 1] = l[t - 1] /\ t - 1 \in 1..n
  <2>1. \A t \in s..(n + 1) : t \in s..k /\ t - 1 \in 1..n
    BY <1>1
  <2> QED BY <1>1, <2>1
<1>5. k \in s..k /\ m[k - 1] = x
  <2>1. k \in s..k /\ k - 1 = n + 1
    BY <1>0, <1>1
  <2> QED BY <1>1, <2>1
<1>6. ASSUME NEW t \in s..k
      PROVE  m[t - 1].total <= f.peakReqs /\ Mitigated(m[t - 1]) <= f.peakMitigated
  <2>1. CASE t = k
    BY <1>2, <1>5, <2>1 DEF Larger
  <2>2. CASE t \in s..(n + 1)
    <3> DEFINE y == l[t - 1]
    <3>1. m[t - 1] = y /\ y \in Reading
      BY <1>1, <1>4, <2>2
    <3>2. y.total <= e.peakReqs /\ Mitigated(y) <= e.peakMitigated
      BY <1>0, <2>2 DEF Tells
    <3> HIDE DEF y
    <3>3. y.total \in Nat /\ Mitigated(y) \in Nat
      BY <3>1, SampleFacts
    <3> QED BY <1>2, <3>1, <3>2, <3>3 DEF Larger
  <2> QED BY <1>3, <2>1, <2>2
<1>7. \E t \in s..k : m[t - 1].total = f.peakReqs
  <2>1. f.peakReqs = x.total \/ f.peakReqs = e.peakReqs
    BY DEF Larger
  <2>2. \E t \in s..(n + 1) : l[t - 1].total = e.peakReqs
    BY <1>0 DEF Tells
  <2> QED BY <1>4, <1>5, <2>1, <2>2
<1>8. \E t \in s..k : Mitigated(m[t - 1]) = f.peakMitigated
  <2>1. f.peakMitigated = Mitigated(x) \/ f.peakMitigated = e.peakMitigated
    BY DEF Larger
  <2>2. \E t \in s..(n + 1) : Mitigated(l[t - 1]) = e.peakMitigated
    BY <1>0 DEF Tells
  <2> QED BY <1>4, <1>5, <2>1, <2>2
<1>9. f.totalMitigated = Sum(Part(m, s, k), 1..(k - s + 1))
  <2> DEFINE a == (n + 1) - s + 1
             S == 1..a
             b == k - s + 1
             p == Part(m, s, k)
             q == Part(l, s, n + 1)
  <2>1. a \in Nat /\ b = a + 1 /\ 1..b = S \cup {b} /\ b \notin S /\ IsFiniteSet(S)
    <3>1. a \in Nat /\ b = a + 1
      BY <1>0, <1>1
    <3> HIDE DEF a, b
    <3>2. 1..b = 1..a \cup {b} /\ b \notin 1..a
      BY <3>1
    <3>3. IsFiniteSet(1..a)
      BY <3>1, FS_Interval
    <3> QED BY <3>1, <3>2, <3>3
  <2>2. \A i \in S : /\ p[i] = Mitigated(m[s + i - 2]) /\ q[i] = Mitigated(l[s + i - 2])
                     /\ s + i - 2 \in 1..n
    <3>1. \A i \in S : i \in 1..b /\ i \in 1..a /\ s + i - 2 \in 1..n
      BY <1>0, <1>1
    <3> QED BY <3>1 DEF Part
  <2>3. p[b] = Mitigated(x)
    <3>1. b \in 1..b /\ s + b - 2 = n + 1
      BY <1>0, <1>1
    <3>2. p[b] = Mitigated(m[s + b - 2])
      BY <3>1 DEF Part
    <3> QED BY <1>1, <3>1, <3>2
  <2> HIDE DEF p, q, S
  <2>4. \A i \in S : p[i] = q[i] /\ p[i] \in Int
    BY <1>1, <2>2, SampleFacts
  <2> HIDE DEF b
  <2>8. OneMore(p, q, S, b)
    BY <1>2, <2>1, <2>3, <2>4 DEF OneMore
  <2>5. Sum(p, S \cup {b}) = p[b] + Sum(q, S) /\ Sum(q, S) \in Int
    BY <2>8, SumMore
  <2>6. e.totalMitigated = Sum(q, S)
    BY <1>0 DEF Tells, q, S
  <2>9. Sum(p, 1..b) = p[b] + Sum(q, S)
    BY <2>1, <2>5
  <2>7. Sum(p, 1..b) = e.totalMitigated + Mitigated(x)
    BY <1>2, <2>3, <2>5, <2>6, <2>9
  <2> QED BY <2>7 DEF p, b
<1> QED BY <1>0, <1>6, <1>7, <1>8, <1>9 DEF Tells, m, n

\* The tale of the finished episodes that start at S, oldest first, of which
\* the monitor keeps the newest.
Tale(l, S, full) ==
    /\ full \in Seq(Event) /\ IsFiniteSet(S) /\ Len(full) = Cardinality(S)
    /\ \A i \in 1..Len(full) : /\ full[i].start \in S /\ Done(l, full[i])
                               /\ Cardinality({u \in S : u <= full[i].start}) = i
Archive(l, S, ev) == \E full : Tale(l, S, full) /\ ev = Newest(full, EventCap)

\* No hot tick is near enough for a new one to belong to it.
Quiet(l) == HotOf(l) \cap (Len(l) + 2 - CloseTicks)..(Len(l) + 1) = {}
Ended(l, s) == \E t : IsLast(l, s, t) /\ t + CloseTicks <= Len(l) + 1
Running(att, e) == IF att THEN {e.start} ELSE {}

\* What detect knows: the running episode, or that there is none; every other
\* one has ended, and is in the tale.
Knows(l, att, e, c, ev) ==
    /\ IF att THEN Runs(l, e, c) ELSE Quiet(l)
    /\ \A s \in StartsOf(l) \ Running(att, e) : Ended(l, s)
    /\ Archive(l, StartsOf(l) \ Running(att, e), ev)

LEMMA ArchiveKept ==
    ASSUME ParamAssumption, NEW l \in Seq(Reading), NEW x \in Reading,
           NEW S, NEW ev, Archive(l, S, ev),
           \A s \in S : \/ ~(Mitigated(x) >= AttackBlocked)
                        \/ \E r \in StartsOf(Append(l, x)) : r > s
    PROVE  Archive(Append(l, x), S, ev)
<1>1. PICK full : Tale(l, S, full) /\ ev = Newest(full, EventCap)
  BY DEF Archive
<1>2. ASSUME NEW i \in 1..Len(full) PROVE Done(Append(l, x), full[i])
  <2>1. full[i].start \in S /\ Done(l, full[i])
    BY <1>1 DEF Tale
  <2> QED BY <2>1, DoneKept
<1>3. Tale(Append(l, x), S, full)
  BY <1>1, <1>2 DEF Tale
<1> QED BY <1>1, <1>3 DEF Archive

LEMMA ArchiveMore ==
    ASSUME ParamAssumption, NEW l, NEW S \in SUBSET Nat, NEW ev, Archive(l, S, ev),
           NEW e, Done(l, e), \A s \in S : s < e.start
    PROVE  Archive(l, S \cup {e.start}, Keep(ev, e, EventCap))
<1>1. PICK full : Tale(l, S, full) /\ ev = Newest(full, EventCap)
  BY DEF Archive
<1> DEFINE n == Len(full)
           more == Append(full, e)
           b == e.start
           R == S \cup {b}
<1>2. /\ full \in Seq(Event) /\ IsFiniteSet(S) /\ n = Cardinality(S) /\ n \in Nat
      /\ e \in Event /\ b \in Nat /\ b \notin S /\ \A s \in S : s \in Nat /\ s < b
  BY <1>1 DEF Tale, Done, Event
<1>3. /\ more \in Seq(Event) /\ Len(more) = n + 1 /\ more[n + 1] = e
      /\ \A i \in 1..n : more[i] = full[i]
  BY <1>2
<1>4. IsFiniteSet(R) /\ Cardinality(R) = n + 1
  BY <1>2, FS_AddElement
<1>5. ASSUME NEW i \in 1..n
      PROVE  /\ more[i].start \in R /\ Done(l, more[i])
             /\ Cardinality({u \in R : u <= more[i].start}) = i
  <2>1. /\ full[i].start \in S /\ Done(l, full[i])
        /\ Cardinality({u \in S : u <= full[i].start}) = i
    BY <1>1 DEF Tale
  <2>2. ~(b <= full[i].start)
    <3> DEFINE a == full[i].start
    <3>1. a \in Nat /\ b \in Nat /\ a < b
      BY <1>2, <2>1
    <3> HIDE DEF a, b
    <3>2. ~(b <= a)
      BY <3>1
    <3> QED BY <3>2 DEF a
  <2>3. {u \in R : u <= full[i].start} = {u \in S : u <= full[i].start}
    BY <2>2
  <2> QED BY <1>3, <2>1, <2>3
<1>6. more[n + 1].start \in R /\ Done(l, more[n + 1])
  BY <1>3
<1>7. {u \in R : u <= b} = R
  <2>1. b \in Nat /\ \A s \in S : s \in Nat /\ s < b
    BY <1>2
  <2> HIDE DEF b
  <2>2. \A u \in R : u <= b
    BY <2>1
  <2> HIDE DEF R
  <2> QED BY <2>2
<1>8. Cardinality({u \in R : u <= more[n + 1].start}) = n + 1
  BY <1>3, <1>4, <1>7
<1> HIDE DEF more, R, n
<1>9. \A i \in 1..(n + 1) : i \in 1..n \/ i = n + 1
  BY <1>2
<1>10. Tale(l, R, more)
  BY <1>3, <1>4, <1>5, <1>6, <1>8, <1>9 DEF Tale
<1>11. Keep(ev, e, EventCap) = Newest(more, EventCap)
  BY <1>1, <1>2, NewestMore, ParamFacts DEF more
<1> QED BY <1>10, <1>11 DEF Archive, R

\* Starts that are not the last one keep their last hot tick.
LEMMA EndedKept ==
    ASSUME ParamAssumption, NEW l \in Seq(Reading), NEW x \in Reading,
           NEW s \in StartsOf(l), Ended(l, s),
           \/ ~(Mitigated(x) >= AttackBlocked)
           \/ \E r \in StartsOf(Append(l, x)) : r > s
    PROVE  Ended(Append(l, x), s)
<1>1. PICK t : IsLast(l, s, t) /\ t + CloseTicks <= Len(l) + 1
  BY DEF Ended
<1>2. IsLast(Append(l, x), s, t)
  BY <1>1, LastKept
<1>3. Len(Append(l, x)) = Len(l) + 1 /\ Len(l) \in Nat /\ t \in Nat /\ CloseTicks \in Nat
  BY <1>1, HotFacts, ParamFacts DEF IsLast
<1>4. t + CloseTicks <= Len(Append(l, x)) + 1
  BY <1>1, <1>3
<1> QED BY <1>2, <1>4 DEF Ended

\* A sample that opens an episode.
LEMMA KnowsOpened ==
    ASSUME ParamAssumption, NEW l \in Seq(Reading), NEW x \in Reading,
           NEW e, NEW c, NEW ev, Knows(l, FALSE, e, c, ev),
           Mitigated(x) >= AttackBlocked,
           NEW f \in Event, f.start = Len(l) + 2, f.end = 0, f.peakReqs = x.total,
           f.peakMitigated = Mitigated(x), f.totalMitigated = Mitigated(x)
    PROVE  Knows(Append(l, x), TRUE, f, 0, ev)
<1> DEFINE m == Append(l, x)
           k == Len(l) + 2
<1>1. /\ Len(l) \in Nat /\ k \in Nat /\ Len(m) + 1 = k /\ CloseTicks \in Nat \ {0}
      /\ HotOf(m) = HotOf(l) \cup {k} /\ StartsOf(l) \subseteq HotOf(l)
      /\ \A u \in HotOf(l) : u \in Nat /\ u < k
  BY HotFacts, HotMore, ParamFacts
<1>2. StartsOf(m) = StartsOf(l) \cup {k}
  BY StartsMore DEF Knows, Quiet
<1>3. \A s \in StartsOf(l) : Ended(l, s)
  BY DEF Knows, Running
<1>4. Archive(l, StartsOf(l), ev)
  <2>1. StartsOf(l) \ Running(FALSE, e) = StartsOf(l)
    BY DEF Running
  <2> QED BY <2>1 DEF Knows
<1>5. \A s \in StartsOf(l) : s \in Nat /\ s < k /\ s # k
  BY <1>1
<1>6. StartsOf(m) \ Running(TRUE, f) = StartsOf(l)
  BY <1>2, <1>5 DEF Running
<1>7. Tells(m, f, k, k)
  BY TellsOne
<1> HIDE DEF m
<1>8. IsLast(m, k, k)
  <2>1. k >= k /\ (k + 1)..k = {}
    BY <1>1
  <2>2. \A u \in HotOf(m) : ~(u > k)
    BY <1>1
  <2> QED BY <1>1, <2>1, <2>2 DEF IsLast
<1> HIDE DEF k
<1>9. \A s \in StartsOf(l) : \E r \in StartsOf(m) : r > s
  BY <1>1, <1>2, <1>5
<1>10. Archive(m, StartsOf(l), ev)
  BY <1>4, <1>9, ArchiveKept DEF m
<1>11. \A s \in StartsOf(l) : Ended(m, s)
  BY <1>3, <1>9, EndedKept DEF m
<1>12. Runs(m, f, 0)
  <2>1. f.start = k /\ k \in StartsOf(m) /\ \A s \in StartsOf(m) : s <= k
    BY <1>1, <1>2, <1>5 DEF k
  <2>2. Len(m) + 1 - 0 = k /\ Len(m) + 1 = k
    BY <1>1
  <2>3. 0 \in Nat /\ 0 < CloseTicks
    BY <1>1
  <2> QED BY <1>7, <1>8, <2>1, <2>2, <2>3 DEF Runs
<1> QED BY <1>6, <1>10, <1>11, <1>12 DEF Knows, m

\* A calm sample while there is no episode.
LEMMA KnowsQuiet ==
    ASSUME ParamAssumption, NEW l \in Seq(Reading), NEW x \in Reading,
           NEW e, NEW c, NEW ev, Knows(l, FALSE, e, c, ev),
           ~(Mitigated(x) >= AttackBlocked)
    PROVE  Knows(Append(l, x), FALSE, e, c, ev)
<1> DEFINE m == Append(l, x)
<1>1. /\ Len(l) \in Nat /\ Len(m) = Len(l) + 1 /\ CloseTicks \in Nat \ {0}
      /\ HotOf(m) = HotOf(l) /\ StartsOf(m) = StartsOf(l)
      /\ \A u \in HotOf(l) : u \in Nat /\ u <= Len(l) + 1
  BY HotFacts, CalmMore, ParamFacts
<1>2. StartsOf(l) \ Running(FALSE, e) = StartsOf(l)
  BY DEF Running
<1>3. Quiet(l) /\ Archive(l, StartsOf(l), ev) /\ \A s \in StartsOf(l) : Ended(l, s)
  BY <1>2 DEF Knows
<1>4. Archive(m, StartsOf(l), ev)
  BY <1>3, ArchiveKept
<1>5. \A s \in StartsOf(l) : Ended(m, s)
  BY <1>3, EndedKept
<1> HIDE DEF m
<1>6. Quiet(m)
  <2>1. \A u \in HotOf(l) : u \in (Len(m) + 2 - CloseTicks)..(Len(m) + 1)
                               => u \in (Len(l) + 2 - CloseTicks)..(Len(l) + 1)
    BY <1>1
  <2> QED BY <1>1, <1>3, <2>1 DEF Quiet
<1> QED BY <1>1, <1>2, <1>4, <1>5, <1>6 DEF Knows, m

\* f is e with the sample x of the next tick.
Follows(f, e, x) ==
    /\ f \in Event /\ f.start = e.start /\ f.peakReqs = Larger(e.peakReqs, x.total)
    /\ f.peakMitigated = Larger(e.peakMitigated, Mitigated(x))
    /\ f.totalMitigated = e.totalMitigated + Mitigated(x)

LEMMA FollowsTells ==
    ASSUME NEW l \in Seq(Reading), NEW x \in Reading, NEW e, NEW c, Runs(l, e, c),
           NEW f, Follows(f, e, x)
    PROVE  /\ Tells(Append(l, x), f, f.start, Len(l) + 2)
           /\ f.start = e.start /\ f.start \in Nat
<1>1. /\ e \in Event /\ e.start \in Nat /\ e.start >= 2 /\ e.start <= Len(l) + 1
      /\ Tells(l, e, e.start, Len(l) + 1)
  BY HotFacts DEF Runs
<1>2. /\ f.start = e.start /\ f.peakReqs = Larger(e.peakReqs, x.total)
      /\ f.peakMitigated = Larger(e.peakMitigated, Mitigated(x))
      /\ f.totalMitigated = e.totalMitigated + Mitigated(x)
  BY DEF Follows
<1>3. Tells(Append(l, x), f, e.start, Len(l) + 2)
  BY <1>1, <1>2, TellsMore
<1> QED BY <1>1, <1>2, <1>3

\* A hot sample in an episode.
LEMMA KnowsHot ==
    ASSUME ParamAssumption, NEW l \in Seq(Reading), NEW x \in Reading,
           NEW e, NEW c, NEW ev, Knows(l, TRUE, e, c, ev),
           Mitigated(x) >= AttackBlocked, NEW f, Follows(f, e, x), f.end = 0
    PROVE  Knows(Append(l, x), TRUE, f, 0, ev)
<1> DEFINE m == Append(l, x)
           k == Len(l) + 2
           s == e.start
           t == Len(l) + 1 - c
<1>1. /\ Len(l) \in Nat /\ k \in Nat /\ Len(m) + 1 = k /\ CloseTicks \in Nat \ {0}
      /\ HotOf(m) = HotOf(l) \cup {k} /\ StartsOf(l) \subseteq HotOf(l)
      /\ \A u \in HotOf(l) : u \in Nat /\ u < k
  BY HotFacts, HotMore, ParamFacts
<1>2. /\ Runs(l, e, c) /\ s \in StartsOf(l) /\ \A r \in StartsOf(l) : r <= s
      /\ c \in Nat /\ c < CloseTicks /\ IsLast(l, s, t)
  BY DEF Knows, Runs
<1>3. StartsOf(m) = StartsOf(l)
  <2>1. t \in HotOf(l) /\ t \in (Len(l) + 2 - CloseTicks)..(Len(l) + 1)
    BY <1>1, <1>2 DEF IsLast
  <2> QED BY <2>1, StartsMore
<1>4. f \in Event /\ f.start = s /\ s \in Nat /\ s < k /\ Tells(m, f, f.start, k)
  BY <1>1, <1>2, FollowsTells DEF Follows
<1>5. Running(TRUE, e) = Running(TRUE, f) /\ Running(TRUE, f) = {s}
  BY <1>4 DEF Running
<1>6. /\ Archive(l, StartsOf(l) \ {s}, ev)
      /\ \A r \in StartsOf(l) \ {s} : Ended(l, r)
  BY <1>5 DEF Knows
<1> HIDE DEF m, k, s, t
<1>7. \A r \in StartsOf(l) \ {s} : \E q \in StartsOf(m) : q > r
  <2>1. \A r \in StartsOf(l) \ {s} : s > r
    BY <1>1, <1>2, <1>4
  <2> QED BY <1>2, <1>3, <2>1
<1>8. Archive(m, StartsOf(l) \ {s}, ev)
  BY <1>6, <1>7, ArchiveKept DEF m
<1>9. \A r \in StartsOf(l) \ {s} : Ended(m, r)
  BY <1>6, <1>7, EndedKept DEF m
<1>10. IsLast(m, s, k)
  <2>1. k \in HotOf(m) /\ k >= s
    BY <1>1, <1>4
  <2>2. (s + 1)..k \cap StartsOf(m) = {}
    <3>1. \A r \in StartsOf(l) : r \in Nat /\ r <= s
      BY <1>1, <1>2
    <3>2. \A r \in StartsOf(l) : r \notin (s + 1)..k
      BY <1>4, <3>1
    <3> QED BY <1>3, <3>2
  <2>3. \A u \in HotOf(m) : ~(u > k)
    BY <1>1
  <2> QED BY <2>1, <2>2, <2>3 DEF IsLast
<1>11. Runs(m, f, 0)
  <2>1. Len(m) + 1 - 0 = k
    BY <1>1
  <2>2. 0 \in Nat /\ 0 < CloseTicks
    BY <1>1
  <2> QED BY <1>1, <1>2, <1>3, <1>4, <1>10, <2>1, <2>2 DEF Runs
<1> QED BY <1>3, <1>5, <1>8, <1>9, <1>11 DEF Knows, m

\* A calm one, of which there have not been enough.
LEMMA KnowsCalm ==
    ASSUME ParamAssumption, NEW l \in Seq(Reading), NEW x \in Reading,
           NEW e, NEW c, NEW ev, Knows(l, TRUE, e, c, ev),
           ~(Mitigated(x) >= AttackBlocked), c + 1 < CloseTicks,
           NEW f, Follows(f, e, x), f.end = 0
    PROVE  Knows(Append(l, x), TRUE, f, c + 1, ev)
<1> DEFINE m == Append(l, x)
           k == Len(l) + 2
           s == e.start
           t == Len(l) + 1 - c
<1>1. /\ Len(l) \in Nat /\ Len(m) + 1 = k
      /\ HotOf(m) = HotOf(l) /\ StartsOf(m) = StartsOf(l)
  BY CalmMore
<1>2. /\ Runs(l, e, c) /\ s \in StartsOf(l) /\ \A r \in StartsOf(l) : r <= s
      /\ c \in Nat /\ IsLast(l, s, t)
  BY DEF Knows, Runs
<1>3. f \in Event /\ f.start = s /\ Tells(m, f, f.start, k)
  BY <1>2, FollowsTells DEF Follows
<1>4. Running(TRUE, e) = {s} /\ Running(TRUE, f) = {s}
  BY <1>3 DEF Running
<1>5. /\ Archive(l, StartsOf(l) \ {s}, ev)
      /\ \A r \in StartsOf(l) \ {s} : Ended(l, r)
  BY <1>4 DEF Knows
<1>6. Archive(m, StartsOf(l) \ {s}, ev)
  BY <1>5, ArchiveKept
<1>7. \A r \in StartsOf(l) \ {s} : Ended(m, r)
  BY <1>5, EndedKept
<1>8. IsLast(m, s, t)
  BY <1>2, LastKept
<1> HIDE DEF m, s
<1>9. Len(m) + 1 - (c + 1) = t /\ c + 1 \in Nat
  BY <1>1, <1>2
<1> HIDE DEF k, t
<1>10. Runs(m, f, c + 1)
  BY <1>1, <1>2, <1>3, <1>8, <1>9 DEF Runs
<1> QED BY <1>1, <1>4, <1>6, <1>7, <1>10 DEF Knows, m

\* The calm sample that ends the episode, which joins the tale.
LEMMA KnowsEnd ==
    ASSUME ParamAssumption, NEW l \in Seq(Reading), NEW x \in Reading,
           NEW e, NEW c, NEW ev, Knows(l, TRUE, e, c, ev),
           ~(Mitigated(x) >= AttackBlocked), c + 1 >= CloseTicks,
           NEW f, Follows(f, e, x), f.end = Len(l) + 2, NEW g, NEW d
    PROVE  Knows(Append(l, x), FALSE, g, d, Keep(ev, f, EventCap))
<1> DEFINE m == Append(l, x)
           k == Len(l) + 2
           s == e.start
           t == Len(l) + 1 - c
           S == StartsOf(l) \ {s}
<1>1. /\ Len(l) \in Nat /\ Len(m) + 1 = k /\ CloseTicks \in Nat \ {0}
      /\ HotOf(m) = HotOf(l) /\ StartsOf(m) = StartsOf(l) /\ StartsOf(l) \subseteq HotOf(l)
      /\ \A u \in HotOf(l) : u \in Nat
  BY HotFacts, CalmMore, ParamFacts
<1>2. /\ Runs(l, e, c) /\ s \in StartsOf(l) /\ \A r \in StartsOf(l) : r <= s
      /\ c \in Nat /\ c < CloseTicks /\ IsLast(l, s, t)
  BY DEF Knows, Runs
<1>c. c + 1 = CloseTicks
  BY <1>1, <1>2
<1>3. f \in Event /\ f.start = s /\ Tells(m, f, f.start, k)
  BY <1>2, FollowsTells DEF Follows
<1>4. Running(TRUE, e) = {s} /\ Running(FALSE, g) = {}
  BY DEF Running
<1>5. Archive(l, S, ev) /\ \A r \in S : Ended(l, r)
  BY <1>4 DEF Knows
<1>6. Archive(m, S, ev)
  BY <1>5, ArchiveKept
<1>7. \A r \in S : Ended(m, r)
  BY <1>5, EndedKept
<1>8. IsLast(m, s, t)
  BY <1>2, LastKept
<1>9. t + CloseTicks = k /\ k <= Len(m) + 1
  BY <1>1, <1>2, <1>c
<1>r. f.end = k
  OBVIOUS
<1> HIDE DEF m, s
<1>10. Done(m, f)
  BY <1>1, <1>2, <1>3, <1>8, <1>9, <1>r DEF Done
<1>11. Ended(m, s)
  BY <1>8, <1>9 DEF Ended
<1>12. Quiet(m)
  <2>1. ASSUME NEW u \in HotOf(m), u \in (Len(m) + 2 - CloseTicks)..(Len(m) + 1)
        PROVE  FALSE
    <3>1. u > t
      BY <1>1, <1>2, <1>c, <2>1
    <3>2. (s + 1)..u \cap StartsOf(m) # {}
      BY <1>8, <3>1 DEF IsLast
    <3>3. PICK r \in StartsOf(m) : r \in (s + 1)..u
      BY <3>2
    <3>4. r <= s /\ s \in Nat /\ r \in Nat
      BY <1>1, <1>2
    <3> QED BY <1>1, <3>3, <3>4
  <2> QED BY <2>1 DEF Quiet
<1>13. S \in SUBSET Nat /\ \A r \in S : r < f.start
  BY <1>1, <1>2, <1>3
<1>14. S \cup {f.start} = StartsOf(m) \ Running(FALSE, g)
  BY <1>1, <1>2, <1>3, <1>4
<1> HIDE DEF S, k, t
<1>15. Archive(m, S \cup {f.start}, Keep(ev, f, EventCap))
  BY <1>6, <1>10, <1>13, ArchiveMore
<1>16. \A r \in StartsOf(m) \ Running(FALSE, g) : Ended(m, r)
  BY <1>3, <1>7, <1>11, <1>14
<1>17. Archive(m, StartsOf(m) \ Running(FALSE, g), Keep(ev, f, EventCap))
  BY <1>14, <1>15
<1> QED BY <1>12, <1>16, <1>17 DEF Knows, m

EpInv ==
    /\ MonInv
    /\ now = IF started THEN Len(log) + 1 ELSE 0
    /\ inAttack \in BOOLEAN
    /\ Knows(log, inAttack, cur, calmTicks, events)

LEMMA EpStarts ==
    ASSUME ParamAssumption, MonitorInit
    PROVE  EpInv
<1>1. MonInv
  BY MonStarts
<1>2. /\ now = 0 /\ started = FALSE /\ inAttack = FALSE /\ log = <<>> /\ events = <<>>
  BY DEF MonitorInit
<1>3. HotOf(<<>>) = {} /\ StartsOf(<<>>) = {}
  <2>1. 2..(Len(<<>>) + 1) = {}
    OBVIOUS
  <2>2. HotOf(<<>>) = {}
    BY <2>1 DEF HotOf
  <2> QED BY <2>2 DEF StartsOf
<1>4. Archive(<<>>, {}, <<>>)
  <2>1. Newest(<<>>, EventCap) = <<>>
    BY ParamFacts DEF Newest
  <2>2. Tale(<<>>, {}, <<>>)
    <3>1. <<>> \in Seq(Event) /\ Len(<<>>) = 0 /\ 1..0 = {}
      OBVIOUS
    <3> QED BY <3>1, FS_EmptySet DEF Tale
  <2> QED BY <2>1, <2>2 DEF Archive
<1>5. \A e, c : Knows(<<>>, FALSE, e, c, <<>>)
  BY <1>3, <1>4 DEF Knows, Quiet, Running
<1> QED BY <1>1, <1>2, <1>5 DEF EpInv

LEMMA EpTick ==
    ASSUME ParamAssumption, EpInv, Tick
    PROVE  Knows(log', inAttack', cur', calmTicks', events')
<1> DEFINE x == SampleOf(Loaded, prev)
           t == now + 1
<1>0. /\ log' = Append(log, x)
      /\ IF inAttack THEN Track(x, t) ELSE Open(x, t)
      /\ started
  BY DEF Tick
<1>1. log \in Seq(Reading) /\ x \in Reading
  <2>1. MonInv' /\ log \in Seq(Reading)
    BY MonStep DEF EpInv, MonitorNext, MonInv, MonTypes
  <2>2. log' \in Seq(Reading)
    BY <2>1 DEF MonInv, MonTypes
  <2> HIDE DEF x
  <2>3. /\ Len(log) + 1 \in 1..Len(Append(log, x)) /\ Append(log, x)[Len(log) + 1] = x
    BY <2>1
  <2>4. Append(log, x) \in Seq(Reading)
    BY <1>0, <2>2
  <2>5. \A q \in Seq(Reading) : \A i \in 1..Len(q) : q[i] \in Reading
    OBVIOUS
  <2> QED BY <2>1, <2>3, <2>4, <2>5
<1>2. /\ t = Len(log) + 2 /\ t \in Nat /\ inAttack \in BOOLEAN
      /\ Knows(log, inAttack, cur, calmTicks, events)
  BY <1>0, <1>1 DEF EpInv
<1>3. x.total \in Nat /\ Mitigated(x) \in Nat
  BY <1>1, SampleFacts
<1> HIDE DEF x, t
<1>4. CASE ~inAttack /\ Mitigated(x) >= AttackBlocked
  <2> DEFINE f == [start |-> t, end |-> 0, peakReqs |-> x.total,
                   peakMitigated |-> Mitigated(x), totalMitigated |-> Mitigated(x)]
  <2>1. inAttack' = TRUE /\ cur' = f /\ calmTicks' = 0 /\ events' = events
    BY <1>0, <1>4 DEF Open
  <2>2. /\ f \in Event /\ f.start = Len(log) + 2 /\ f.end = 0 /\ f.peakReqs = x.total
        /\ f.peakMitigated = Mitigated(x) /\ f.totalMitigated = Mitigated(x)
    BY <1>2, <1>3 DEF Event
  <2>3. Knows(log, FALSE, cur, calmTicks, events)
    BY <1>2, <1>4
  <2> HIDE DEF f
  <2>4. Knows(Append(log, x), TRUE, f, 0, events)
    BY <1>1, <1>4, <2>2, <2>3, KnowsOpened
  <2> QED BY <1>0, <2>1, <2>4
<1>5. CASE ~inAttack /\ ~(Mitigated(x) >= AttackBlocked)
  <2>1. inAttack' = FALSE /\ cur' = cur /\ calmTicks' = calmTicks /\ events' = events
    BY <1>0, <1>2, <1>5 DEF Open
  <2>2. Knows(log, FALSE, cur, calmTicks, events)
    BY <1>2, <1>5
  <2>3. Knows(Append(log, x), FALSE, cur, calmTicks, events)
    BY <1>1, <1>5, <2>2, KnowsQuiet
  <2> QED BY <1>0, <2>1, <2>3
<1>6. CASE inAttack
  <2> DEFINE f == Tracked(cur, x)
             g == [f EXCEPT !.end = t]
             n == IF Mitigated(x) < AttackBlocked THEN calmTicks + 1 ELSE 0
  <2>1. Knows(log, TRUE, cur, calmTicks, events)
    BY <1>2, <1>6
  <2>2. cur \in Event /\ cur.end = 0 /\ calmTicks \in Nat
    BY <2>1 DEF Knows, Runs
  <2>3. f \in Event /\ f.end = 0 /\ Follows(f, cur, x)
    <3> DEFINE p == Larger(cur.peakReqs, x.total)
               q == Larger(cur.peakMitigated, Mitigated(x))
               r == cur.totalMitigated + Mitigated(x)
    <3>1. p \in Nat /\ q \in Nat /\ r \in Int
      BY <1>3, <2>2 DEF Event, Larger
    <3>2. f = [cur EXCEPT !.peakReqs = p, !.peakMitigated = q, !.totalMitigated = r]
      BY DEF Tracked
    <3> HIDE DEF p, q, r, f
    <3>3. /\ f \in Event /\ f.start = cur.start /\ f.end = 0 /\ f.peakReqs = p
          /\ f.peakMitigated = q /\ f.totalMitigated = r
      BY <2>2, <3>1, <3>2 DEF Event
    <3> QED BY <3>3 DEF Follows, p, q, r
  <2>4. /\ calmTicks' = n
        /\ IF n >= CloseTicks
           THEN events' = Keep(events, g, EventCap) /\ inAttack' = FALSE
           ELSE cur' = f /\ events' = events /\ inAttack' = inAttack
    BY <1>0, <1>6 DEF Track
  <2> HIDE DEF f
  <2>5. Follows(g, cur, x) /\ g.end = t
    BY <1>2, <2>3 DEF Follows, Event
  <2>6. AttackBlocked \in Nat /\ CloseTicks \in Nat \ {0}
    BY ParamFacts
  <2>7. CASE Mitigated(x) >= AttackBlocked
    <3>1. ~(Mitigated(x) < AttackBlocked)
      BY <1>3, <2>6, <2>7
    <3>2. n = 0 /\ ~(n >= CloseTicks)
      BY <2>6, <3>1
    <3> HIDE DEF g, n
    <3>3. Knows(Append(log, x), TRUE, f, 0, events)
      BY <1>1, <2>1, <2>3, <2>7, KnowsHot
    <3>4. inAttack' = TRUE /\ cur' = f /\ calmTicks' = 0 /\ events' = events
      BY <1>6, <2>4, <3>2
    <3> QED BY <1>0, <3>3, <3>4
  <2>8. CASE ~(Mitigated(x) >= AttackBlocked) /\ calmTicks + 1 < CloseTicks
    <3>1. Mitigated(x) < AttackBlocked
      BY <1>3, <2>6, <2>8
    <3>2. n = calmTicks + 1 /\ ~(n >= CloseTicks)
      BY <2>2, <2>6, <2>8, <3>1
    <3> HIDE DEF g, n
    <3>3. Knows(Append(log, x), TRUE, f, calmTicks + 1, events)
      BY <1>1, <2>1, <2>3, <2>8, KnowsCalm
    <3>4. inAttack' = TRUE /\ cur' = f /\ calmTicks' = calmTicks + 1 /\ events' = events
      BY <1>6, <2>4, <3>2
    <3> QED BY <1>0, <3>3, <3>4
  <2>9. CASE ~(Mitigated(x) >= AttackBlocked) /\ calmTicks + 1 >= CloseTicks
    <3>1. Mitigated(x) < AttackBlocked
      BY <1>3, <2>6, <2>9
    <3>2. n >= CloseTicks
      BY <2>9, <3>1
    <3> HIDE DEF g, n
    <3>3. Knows(Append(log, x), FALSE, cur', calmTicks', Keep(events, g, EventCap))
      BY <1>1, <1>2, <2>1, <2>5, <2>9, KnowsEnd
    <3>4. inAttack' = FALSE /\ events' = Keep(events, g, EventCap)
      BY <2>4, <3>2
    <3> QED BY <1>0, <3>3, <3>4
  <2>10. calmTicks + 1 < CloseTicks \/ calmTicks + 1 >= CloseTicks
    BY <2>2, <2>6
  <2> QED BY <2>7, <2>8, <2>9, <2>10
<1> QED BY <1>2, <1>4, <1>5, <1>6

LEMMA EpStep ==
    ASSUME ParamAssumption, EpInv, [MonitorNext]_monitorVars
    PROVE  EpInv'
<1>0. /\ MonInv /\ MonInv' /\ log \in Seq(Reading)
      /\ now = IF started THEN Len(log) + 1 ELSE 0
      /\ inAttack \in BOOLEAN /\ started \in BOOLEAN
      /\ Knows(log, inAttack, cur, calmTicks, events)
      /\ ~started => log = <<>>
  BY MonStep DEF EpInv, MonInv, MonTypes
<1>1. CASE UNCHANGED <<now, started, log, inAttack, cur, calmTicks, events>>
  BY <1>0, <1>1 DEF EpInv
<1>2. CASE SeedTick
  <2>1. /\ ~started /\ started' = TRUE /\ now' = now + 1
        /\ UNCHANGED <<log, inAttack, cur, calmTicks, events>>
    BY <1>2 DEF SeedTick
  <2>2. now' = Len(log') + 1
    BY <1>0, <2>1
  <2> QED BY <1>0, <2>1, <2>2 DEF EpInv
<1>3. CASE Tick
  <2>1. /\ started /\ started' = started /\ now' = now + 1
        /\ \E x : log' = Append(log, x)
    BY <1>3 DEF Tick
  <2>2. now' = Len(log') + 1
    BY <1>0, <2>1
  <2>3. inAttack' \in BOOLEAN
    BY <1>0, <1>3 DEF Tick, Track, Open
  <2> QED BY <1>0, <1>3, <2>1, <2>2, <2>3, EpTick DEF EpInv
<1>4. CASE \E f \in Names : Bump(f)
  BY <1>1, <1>4 DEF Bump, monitor
<1>5. CASE Load
  BY <1>1, <1>5 DEF Load, monitor
<1>6. CASE UNCHANGED monitorVars
  BY <1>1, <1>6 DEF monitorVars, monitor
<1> QED BY <1>2, <1>3, <1>4, <1>5, <1>6 DEF MonitorNext

LEMMA MaxIs ==
    ASSUME NEW S \in SUBSET Nat, NEW b \in S, \A y \in S : y <= b
    PROVE  Max(S) = b
<1>1. \A y \in S : b >= y
  OBVIOUS
<1>2. \A z \in S : (\A y \in S : z >= y) => z = b
  <2> SUFFICES ASSUME NEW z \in S, \A y \in S : z >= y
               PROVE  z = b
    OBVIOUS
  <2>1. z >= b /\ z <= b /\ z \in Nat /\ b \in Nat
    OBVIOUS
  <2> QED BY <2>1
<1> QED BY <1>1, <1>2 DEF Max

LEMMA SameHot ==
    ASSUME EpInv
    PROVE  Hot = HotOf(log) /\ Starts = StartsOf(log)
<1>1. CASE started
  <2>1. now = Len(log) + 1
    BY <1>1 DEF EpInv
  <2> QED BY <2>1 DEF Hot, Starts, HotOf, StartsOf
<1>2. CASE ~started
  <2>1. now = 0 /\ log = <<>>
    BY <1>2 DEF EpInv, MonInv
  <2>2. 2..now = {} /\ 2..(Len(log) + 1) = {}
    BY <2>1
  <2>3. Hot = {} /\ HotOf(log) = {}
    BY <2>2 DEF Hot, HotOf
  <2> QED BY <2>3 DEF Starts, StartsOf
<1> QED BY <1>1, <1>2

LEMMA LastIs ==
    ASSUME EpInv, NEW s \in StartsOf(log), NEW t, IsLast(log, s, t)
    PROVE  LastHot(s) = t
<1> DEFINE H == HotOf(log)
           P(v) == /\ v >= s /\ (s + 1)..v \cap StartsOf(log) = {}
                   /\ \A u \in H : u > v => (s + 1)..u \cap StartsOf(log) # {}
<1>1. LastHot(s) = CHOOSE v \in H : P(v)
  BY SameHot DEF LastHot
<1>2. t \in H /\ P(t)
  BY DEF IsLast
<1>3. ASSUME NEW v \in H, P(v) PROVE v = t
  <2>1. v \in Nat /\ t \in Nat
    BY <1>2, HotFacts DEF EpInv, MonInv, MonTypes
  <2>2. ~(v > t) /\ ~(t > v)
    BY <1>2, <1>3
  <2> QED BY <2>1, <2>2
<1> HIDE DEF P, H
<1> QED BY <1>1, <1>2, <1>3

\* The episode that starts at s, once it is known where it stops.
LEMMA EpisodeIs ==
    ASSUME EpInv, NEW s \in StartsOf(log), NEW k \in Nat, s <= k, k <= Len(log) + 1,
           NEW e \in Event, Tells(log, e, s, k),
           k = IF Closed(s) THEN LastHot(s) + CloseTicks ELSE now,
           e.end = IF Closed(s) THEN k ELSE 0
    PROVE  Episode(s) = e
<1> DEFINE span == {log[t - 1] : t \in s..k}
           A == {y.total : y \in span}
           B == {Mitigated(y) : y \in span}
           C == FoldFunction(+, 0, [i \in 1..(k - s + 1) |-> Mitigated(log[s + i - 2])])
<1>1. log \in Seq(Reading) /\ s \in Nat /\ s >= 2
  <2>1. log \in Seq(Reading)
    BY DEF EpInv, MonInv, MonTypes
  <2> QED BY <2>1, HotFacts
<1>2. Episode(s) = [start |-> s, end |-> IF Closed(s) THEN k ELSE 0,
                        peakReqs |-> Max(A), peakMitigated |-> Max(B),
                        totalMitigated |-> C]
  BY DEF Episode
<1>3. \A t \in s..k : /\ log[t - 1] \in Reading /\ log[t - 1].total \in Nat
                      /\ Mitigated(log[t - 1]) \in Nat
  <2>1. \A t \in s..k : t - 1 \in 1..Len(log)
    BY <1>1
  <2>2. \A t \in s..k : log[t - 1] \in Reading
    BY <1>1, <2>1
  <2> QED BY <2>2, SampleFacts
<1>4. Max(A) = e.peakReqs
  <2>1. A \in SUBSET Nat
    BY <1>3
  <2>2. e.peakReqs \in A /\ \A y \in A : y <= e.peakReqs
    BY DEF Tells
  <2> HIDE DEF A
  <2> QED BY <2>1, <2>2, MaxIs
<1>5. Max(B) = e.peakMitigated
  <2>1. B \in SUBSET Nat
    BY <1>3
  <2>2. e.peakMitigated \in B /\ \A y \in B : y <= e.peakMitigated
    BY DEF Tells
  <2> HIDE DEF B
  <2> QED BY <2>1, <2>2, MaxIs
<1>6. C = e.totalMitigated
  <2> DEFINE p == Part(log, s, k)
  <2>1. C = FoldFunction(+, 0, p) /\ DOMAIN p = 1..(k - s + 1)
    BY DEF Part
  <2>2. e.totalMitigated = Sum(p, 1..(k - s + 1))
    BY DEF Tells
  <2> HIDE DEF p, C
  <2>3. FoldFunction(+, 0, p) = Sum(p, DOMAIN p)
    BY FoldIs
  <2> QED BY <2>1, <2>2, <2>3
<1>7. e.start = s
  BY DEF Tells
<1> HIDE DEF A, B, C
<1>8. e = [start |-> e.start, end |-> e.end, peakReqs |-> e.peakReqs,
           peakMitigated |-> e.peakMitigated, totalMitigated |-> e.totalMitigated]
  BY DEF Event
<1> QED BY <1>2, <1>4, <1>5, <1>6, <1>7, <1>8

LEMMA EndedIs ==
    ASSUME ParamAssumption, EpInv, NEW s \in StartsOf(log)
    PROVE  /\ Ended(log, s) => Closed(s)
           /\ \A t : IsLast(log, s, t) /\ t + CloseTicks > Len(log) + 1 => ~Closed(s)
<1>1. started /\ now = Len(log) + 1 /\ Len(log) \in Nat
  <2>1. log \in Seq(Reading)
    BY DEF EpInv, MonInv, MonTypes
  <2>2. s \in Nat /\ s >= 2 /\ s <= Len(log) + 1
    BY <2>1, HotFacts
  <2>3. log # <<>>
    BY <2>2
  <2> QED BY <2>1, <2>3 DEF EpInv, MonInv
<1>2. Ended(log, s) => Closed(s)
  <2> SUFFICES ASSUME Ended(log, s) PROVE Closed(s)
    OBVIOUS
  <2>1. PICK t : IsLast(log, s, t) /\ t + CloseTicks <= Len(log) + 1
    BY DEF Ended
  <2> QED BY <1>1, <2>1, LastIs DEF Closed
<1>3. ASSUME NEW t, IsLast(log, s, t), t + CloseTicks > Len(log) + 1
      PROVE  ~Closed(s)
  <2>1. t \in Nat /\ CloseTicks \in Nat
    BY <1>3, HotFacts, ParamFacts DEF IsLast, EpInv, MonInv, MonTypes
  <2>2. ~(t + CloseTicks <= now)
    BY <1>1, <1>3, <2>1
  <2> QED BY <1>3, <2>2, LastIs DEF Closed
<1> QED BY <1>2, <1>3

\* The finished episodes, and the running one, are what the log says.
LEMMA DoneIs ==
    ASSUME ParamAssumption, EpInv, NEW e, Done(log, e)
    PROVE  Closed(e.start) /\ Episode(e.start) = e
<1> DEFINE s == e.start
<1>1. PICK t : /\ IsLast(log, s, t) /\ e.end = t + CloseTicks
               /\ e.end <= Len(log) + 1 /\ Tells(log, e, s, e.end)
  BY DEF Done
<1>2. e \in Event /\ s \in StartsOf(log)
  BY DEF Done
<1>3. log \in Seq(Reading)
  BY DEF EpInv, MonInv, MonTypes
<1>4. t \in Nat /\ s \in Nat /\ s <= t /\ CloseTicks \in Nat
  BY <1>1, <1>2, <1>3, HotFacts, ParamFacts DEF IsLast
<1> HIDE DEF s
<1>5. e.end \in Nat /\ s <= e.end
  BY <1>1, <1>4
<1>6. LastHot(s) = t
  BY <1>1, <1>2, LastIs
<1>7. Closed(s)
  <2>1. Ended(log, s)
    BY <1>1 DEF Ended
  <2> QED BY <1>2, <2>1, EndedIs
<1>8. Episode(s) = e
  BY <1>1, <1>2, <1>5, <1>6, <1>7, EpisodeIs
<1> QED BY <1>7, <1>8 DEF s

LEMMA RunsIs ==
    ASSUME ParamAssumption, EpInv, Runs(log, cur, calmTicks)
    PROVE  ~Closed(cur.start) /\ Episode(cur.start) = cur
<1> DEFINE s == cur.start
           t == Len(log) + 1 - calmTicks
           k == Len(log) + 1
<1>1. /\ cur \in Event /\ cur.end = 0 /\ s \in StartsOf(log)
      /\ calmTicks \in Nat /\ calmTicks < CloseTicks
      /\ IsLast(log, s, t) /\ Tells(log, cur, s, k)
  BY DEF Runs
<1>2. log \in Seq(Reading)
  BY DEF EpInv, MonInv, MonTypes
<1>3. s \in Nat /\ s >= 2 /\ s <= k /\ k \in Nat /\ CloseTicks \in Nat
  BY <1>1, <1>2, HotFacts, ParamFacts
<1>4. t + CloseTicks > k
  BY <1>1, <1>2, <1>3
<1>5. now = k
  <2>1. log # <<>>
    BY <1>3
  <2> QED BY <2>1 DEF EpInv, MonInv
<1>7. k <= Len(log) + 1
  BY <1>3
<1> HIDE DEF s, t
<1>6. ~Closed(s)
  BY <1>1, <1>4, EndedIs
<1> HIDE DEF k
<1>8. Episode(s) = cur
  BY <1>1, <1>3, <1>5, <1>6, <1>7, EpisodeIs
<1> QED BY <1>6, <1>8 DEF s

\* The number of starts up to one tells which one it is.
LEMMA CountTells ==
    ASSUME NEW S \in SUBSET Nat, IsFiniteSet(S), NEW a \in S, NEW b \in S,
           Cardinality({u \in S : u <= a}) = Cardinality({u \in S : u <= b})
    PROVE  a = b
<1> DEFINE To(v) == {u \in S : u <= v}
<1>1. \A v, w \in S : v <= w /\ Cardinality(To(v)) = Cardinality(To(w)) => v = w
  <2> SUFFICES ASSUME NEW v \in S, NEW w \in S, v <= w, Cardinality(To(v)) = Cardinality(To(w))
               PROVE  v = w
    OBVIOUS
  <2>0. \A u \in S : u <= v => u <= w
    <3>1. \A u \in S : u \in Nat
      OBVIOUS
    <3>2. v \in Nat /\ w \in Nat
      OBVIOUS
    <3> QED BY <3>1, <3>2
  <2>1. To(w) \in SUBSET S /\ To(v) \in SUBSET To(w)
    BY <2>0
  <2>2. w \in To(w) /\ (w \in To(v) => w <= v)
    OBVIOUS
  <2> HIDE DEF To
  <2>3. IsFiniteSet(To(w))
    BY <2>1, FS_Subset
  <2>4. To(v) = To(w)
    BY <2>1, <2>3, FS_Subset
  <2> QED BY <2>2, <2>4
<1>2. a <= b \/ b <= a
  OBVIOUS
<1>3. Cardinality(To(a)) = Cardinality(To(b))
  OBVIOUS
<1> HIDE DEF To
<1> QED BY <1>1, <1>2, <1>3

LEMMA ChronicleIs ==
    ASSUME ParamAssumption, EpInv, NEW S \in SUBSET StartsOf(log), NEW full,
           Tale(log, S, full)
    PROVE  Chronicle(S) = full
<1>1. /\ full \in Seq(Event) /\ IsFiniteSet(S) /\ Len(full) = Cardinality(S)
      /\ \A i \in 1..Len(full) : /\ full[i].start \in S /\ Done(log, full[i])
                                 /\ Cardinality({u \in S : u <= full[i].start}) = i
  BY DEF Tale
<1>2. S \in SUBSET Nat
  <2>1. log \in Seq(Reading)
    BY DEF EpInv, MonInv, MonTypes
  <2> QED BY <2>1, HotFacts
<1>4. ASSUME NEW i \in 1..Len(full) PROVE Nth(S, i) = full[i].start
  <2> DEFINE Is(s) == Cardinality({u \in S : u <= s}) = i
  <2>1. Nth(S, i) = CHOOSE s \in S : Is(s)
    BY DEF Nth
  <2>2. full[i].start \in S /\ Is(full[i].start)
    BY <1>1
  <2>3. \A s \in S : Is(s) => s = full[i].start
    <3> SUFFICES ASSUME NEW s \in S, Is(s)
                 PROVE  s = full[i].start
      OBVIOUS
    <3> DEFINE a == full[i].start
    <3>1. /\ a \in S /\ s \in S
          /\ Cardinality({u \in S : u <= s}) = Cardinality({u \in S : u <= a})
      BY <2>2
    <3> HIDE DEF a
    <3>2. s = a
      BY <1>1, <1>2, <3>1, CountTells
    <3> QED BY <3>2 DEF a
  <2> HIDE DEF Is
  <2> QED BY <2>1, <2>2, <2>3
<1>5. ASSUME NEW i \in 1..Len(full) PROVE Episode(Nth(S, i)) = full[i]
  BY <1>1, <1>4, DoneIs
<1>6. Chronicle(S) = [i \in 1..Len(full) |-> Episode(Nth(S, i))]
  BY <1>1 DEF Chronicle
<1>7. full = [i \in 1..Len(full) |-> full[i]]
  BY <1>1
<1> QED BY <1>5, <1>6, <1>7

LEMMA ChronicleOne ==
    ASSUME NEW a \in Nat
    PROVE  /\ Chronicle({}) = <<>>
           /\ Chronicle({a}) = <<Episode(a)>>
<1>2. Chronicle({}) = <<>>
  <2>1. Cardinality({}) = 0
    BY FS_EmptySet
  <2>2. Chronicle({}) = [i \in 1..0 |-> Episode(Nth({}, i))]
    BY <2>1 DEF Chronicle
  <2> QED BY <2>2
<1>3. Chronicle({a}) = <<Episode(a)>>
  <2>1. Cardinality({a}) = 1
    BY FS_Singleton
  <2>2. Nth({a}, 1) = a
    <3>1. {u \in {a} : u <= a} = {a}
      OBVIOUS
    <3>2. Cardinality({u \in {a} : u <= a}) = 1
      BY <2>1, <3>1
    <3>3. Nth({a}, 1) \in {a}
      BY <3>2 DEF Nth
    <3> QED BY <3>3
  <2>3. Chronicle({a}) = [i \in 1..1 |-> Episode(Nth({a}, i))]
    BY <2>1 DEF Chronicle
  <2>4. 1..1 = {1}
    OBVIOUS
  <2>5. [i \in 1..1 |-> Episode(Nth({a}, i))] = [i \in 1..1 |-> Episode(a)]
    BY <2>2, <2>4
  <2> DEFINE e == Episode(a)
  <2>6. Chronicle({a}) = [i \in 1..1 |-> e]
    BY <2>3, <2>5
  <2> HIDE DEF e
  <2>7. [i \in 1..1 |-> e] = <<e>>
    OBVIOUS
  <2> QED BY <2>6, <2>7 DEF e
<1> QED BY <1>2, <1>3

\* What the dashboard reports is what happened, for any number of samples and
\* whatever the ring has dropped: the newest EventCap finished episodes, each
\* with the start, end, peaks and total of its own samples, and the running one.
THEOREM EpisodesAreTold == MonitorSpec => []EventsAreEpisodes
<1> USE ParamAssumption
<1>1. MonitorInit => EpInv
  BY EpStarts
<1>2. EpInv /\ [MonitorNext]_monitorVars => EpInv'
  BY EpStep
<1>3. EpInv => EventsAreEpisodes
  <2> SUFFICES ASSUME EpInv
               PROVE  EventsAreEpisodes
    OBVIOUS
  <2> DEFINE L == StartsOf(log)
             R == Running(inAttack, cur)
  <2>1. /\ inAttack \in BOOLEAN
        /\ IF inAttack THEN Runs(log, cur, calmTicks) ELSE Quiet(log)
        /\ \A s \in L \ R : Ended(log, s)
        /\ Archive(log, L \ R, events)
    BY DEF EpInv, Knows
  <2>2. \A s \in L \ R : Closed(s)
    BY <2>1, EndedIs
  <2>3. inAttack => /\ R = {cur.start} /\ cur.start \in L /\ cur.start \in Nat
                    /\ ~Closed(cur.start) /\ Episode(cur.start) = cur
    <3> SUFFICES ASSUME inAttack
                 PROVE  /\ R = {cur.start} /\ cur.start \in L /\ cur.start \in Nat
                        /\ ~Closed(cur.start) /\ Episode(cur.start) = cur
      OBVIOUS
    <3>1. Runs(log, cur, calmTicks)
      BY <2>1
    <3>2. cur.start \in L /\ cur.start \in Nat
      BY <3>1 DEF Runs, Event
    <3> QED BY <3>1, <3>2, RunsIs DEF Running
  <2>4. ~inAttack => R = {}
    BY DEF Running
  <2>5. Starts = L
    BY SameHot
  <2> HIDE DEF L, R
  <2>6. {s \in Starts : Closed(s)} = L \ R
    BY <2>2, <2>3, <2>4, <2>5
  <2>7. {s \in Starts : ~Closed(s)} = R
    BY <2>2, <2>3, <2>4, <2>5
  <2>8. events = Newest(Chronicle(L \ R), EventCap)
    <3>1. PICK full : Tale(log, L \ R, full) /\ events = Newest(full, EventCap)
      BY <2>1 DEF Archive
    <3>2. L \ R \in SUBSET StartsOf(log)
      BY DEF L
    <3>3. Chronicle(L \ R) = full
      BY <3>1, <3>2, ChronicleIs
    <3> QED BY <3>1, <3>3
  <2>9. State = IF \A s \in Starts : Closed(s) THEN "normal" ELSE "under_attack"
    <3>1. CASE inAttack
      BY <2>3, <2>5, <3>1 DEF State
    <3>2. CASE ~inAttack
      BY <2>2, <2>4, <2>5, <3>2 DEF State
    <3> QED BY <3>1, <3>2
  <2>10. Chronicle(R) = IF inAttack THEN <<cur>> ELSE <<>>
    <3>1. CASE inAttack
      BY <2>3, <3>1, ChronicleOne
    <3>2. CASE ~inAttack
      <4>1. Chronicle({}) = <<>>
        BY ChronicleOne
      <4> QED BY <2>4, <3>2, <4>1
    <3> QED BY <2>1, <3>1, <3>2
  <2>11. Events = Chronicle(R) \o Reverse(events)
    BY <2>10 DEF Events
  <2> QED BY <2>6, <2>7, <2>8, <2>9, <2>11 DEF EventsAreEpisodes
<1> QED BY <1>1, <1>2, <1>3, PTL DEF MonitorSpec, EventsAreEpisodes

============================================================================
