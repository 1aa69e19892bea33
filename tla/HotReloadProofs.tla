-------------------------- MODULE HotReloadProofs --------------------------
(***************************************************************************)
(* What overlapping reloads and pushes cannot do, for any number of         *)
(* reloading goroutines, flips, configs, edits and pushes.                  *)
(***************************************************************************)
EXTENDS HotReload, TLAPS

\* A policy is recorded as applied after it was pushed: the version a push in
\* progress carries is not ahead of the control plane's.
VersionInv ==
    run[Agent].at \in {"build", "set", "swap", "close", "done"}
       => run[Agent].ver <= pushed.ver

TypeInv == TypeOK /\ VersionInv

\* A place in the reload closure carries the fields that belong to it.
LEMMA ProgressShape ==
    ASSUME NEW p \in Progress
    PROVE  /\ p.at \in {"idle", "load", "build", "set", "swap", "close", "done"}
           /\ p.at \in {"build", "done"} => p \in [at : {"build", "done"}, cfg : Configs, ver : Nat]
           /\ p.at \in {"set", "swap"} =>
                p \in [at : {"set", "swap"}, i : DOMAIN Components, lim : Nat,
                       cfg : Configs, ver : Nat]
           /\ p.at = "close" =>
                p \in [at : {"close"}, old : Nat, cfg : Configs, ver : Nat]
  BY DEF Progress, Idle

\* The type invariant of HotReload is inductive together with VersionInv.
LEMMA TypeInductive ==
    TypeInv /\ [Next]_vars => TypeInv'
<1> SUFFICES ASSUME TypeInv, [Next]_vars
             PROVE  TypeInv'
  OBVIOUS
<1> USE ConfigAssumption, BoundAssumption DEF TypeInv, TypeOK
<1>len. Len(Components) = 4 /\ DOMAIN Components = 1..4
  BY DEF Components
<1>agent. /\ Agent \in Runners /\ run[Agent] \in Progress
          /\ run[Agent].at \in {"build", "set", "swap", "close", "done"}
                => run[Agent].ver \in Nat
  BY ProgressShape DEF Runners
<1>idle. Idle \in Progress /\ [at |-> "load"] \in Progress /\ Idle.at = "idle"
  BY DEF Progress, Idle
<1>1. CASE EditFile
  BY <1>1 DEF EditFile, VersionInv, past
<1>2. CASE PushPolicy
  <2>1. PICK d \in Docs : pushed' = [ver |-> pushed.ver + 1, doc |-> d]
    BY <1>2 DEF PushPolicy
  <2>2. pushed.ver \in Nat /\ pushed'.ver = pushed.ver + 1
    BY <1>2, <2>1
  <2>3. pushed' \in [ver : Nat, doc : Docs \cup {StartConfig.shared}]
    BY <2>1, <2>2
  <2>4. VersionInv'
    BY <1>2, <1>agent, <2>2 DEF PushPolicy, VersionInv
  <2> QED
    BY <1>2, <2>2, <2>3, <2>4 DEF PushPolicy, past
<1>3. CASE WatchStat
  <2>1. run' \in [Runners -> Progress]
    BY <1>3, <1>idle DEF WatchStat
  <2>2. VersionInv'
    BY <1>3, <1>agent DEF WatchStat, VersionInv
  <2> QED
    BY <1>3, <2>1, <2>2 DEF WatchStat, past
<1>4. CASE \E r \in Reloaders : Trigger(r)
  BY <1>4 DEF Trigger, VersionInv, Progress, Runners
<1>5. CASE Fetch
  <2> DEFINE new == [at |-> "build", cfg |-> Overlay(StartConfig, pushed.doc),
                     ver |-> pushed.ver]
  <2>1. Overlay(StartConfig, pushed.doc) \in Configs
    <3>1. CASE pushed.doc \in Docs
      BY <3>1, OverlayAssumption
    <3>2. CASE pushed.doc = StartConfig.shared
      BY <3>2, ConfigAssumption DEF Overlay
    <3> QED
      BY <3>1, <3>2
  <2>2. new \in Progress
    BY <2>1 DEF Progress
  <2>3. run' = [run EXCEPT ![Agent] = new]
    BY <1>5 DEF Fetch
  <2>4. run' \in [Runners -> Progress] /\ run'[Agent] = new
    BY <2>2, <2>3, <1>agent
  <2>5. VersionInv'
    BY <1>5, <2>4 DEF Fetch, VersionInv
  <2> QED
    BY <1>5, <2>4, <2>5 DEF Fetch, past
<1>6. ASSUME NEW r \in Runners, Step(r)
      PROVE  TypeInv'
  <2>p. run[r] \in Progress
    OBVIOUS
  <2>1. CASE Load(r)
    <3>1. /\ file # Unreadable => [at |-> "build", cfg |-> file, ver |-> 0] \in Progress
          /\ r \in Reloaders
      BY <2>1 DEF Progress, Load
    <3>2. run' \in [Runners -> Progress]
      BY <2>1, <3>1, <1>idle DEF Load, Valid
    <3>3. VersionInv'
      BY <2>1, <1>agent, <1>idle DEF Load, VersionInv
    <3> QED
      BY <2>1, <3>2, <3>3 DEF Load
  <2>2. CASE Build(r)
    <3> DEFINE new == [at |-> "set", i |-> 1, lim |-> built',
                       cfg |-> run[r].cfg, ver |-> run[r].ver]
    <3>1. built' \in Nat /\ open' \in SUBSET Nat /\ leaked' \in SUBSET Nat
      BY <2>2 DEF Build
    <3>2. run[r].cfg \in Configs /\ run[r].ver \in Nat
      BY <2>2, <2>p, ProgressShape DEF Build
    <3>3. new \in Progress
      BY <3>1, <3>2, <1>len DEF Progress
    <3>4. run' = [run EXCEPT ![r] = new] \/ run' = [run EXCEPT ![r] = Idle]
      BY <2>2 DEF Build
    <3>5. run' \in [Runners -> Progress]
      BY <3>3, <3>4, <1>idle
    <3>6. VersionInv'
      BY <2>2, <3>4, <1>agent, <1>idle DEF Build, VersionInv
    <3> QED
      BY <2>2, <3>1, <3>5, <3>6 DEF Build
  <2>3. CASE SetComponent(r)
    BY <2>3, <2>p, <1>len, ProgressShape DEF SetComponent, VersionInv, Progress, past
  <2>4. CASE Swap(r)
    BY <2>4, <2>p, ProgressShape DEF Swap, VersionInv, Progress, Snapshots, Snapshot, Modes, past
  <2>5. CASE CloseOld(r)
    BY <2>5, <2>p, ProgressShape DEF CloseOld, VersionInv, Progress, past
  <2>6. CASE Finish(r)
    <3>1. run[r].cfg \in Configs /\ run[r].ver \in Nat
      BY <2>6, <2>p, ProgressShape DEF Finish
    <3>2. run' \in [Runners -> Progress]
      BY <2>6, <1>idle DEF Finish
    <3>3. VersionInv'
      BY <2>6, <1>agent, <1>idle DEF Finish, VersionInv
    <3>4. applied' \in 0..pushed.ver
      BY <2>6, <3>1 DEF Finish, VersionInv
    <3> QED
      BY <2>6, <3>1, <3>2, <3>3, <3>4 DEF Finish, past
  <2> QED
    BY <1>6, <2>1, <2>2, <2>3, <2>4, <2>5, <2>6 DEF Step
<1>7. CASE \E f \in Flippers : FlipLoad(f)
  BY <1>7 DEF FlipLoad, VersionInv, Snapshots, Modes, past
<1>8. CASE \E f \in Flippers : FlipStore(f)
  BY <1>8 DEF FlipStore, VersionInv, Snapshots, NoFlip
<1>9. CASE UNCHANGED vars
  BY <1>9 DEF vars, past, VersionInv
<1> QED
  BY <1>1, <1>2, <1>3, <1>4, <1>5, <1>6, <1>7, <1>8, <1>9 DEF Next


LEMMA TypeInit == Init => TypeInv
<1> SUFFICES ASSUME Init
             PROVE  TypeInv
  OBVIOUS
<1>1. /\ Agent \in Runners /\ Idle \in Progress /\ Idle.at = "idle"
      /\ Snapshot(StartConfig, 0) \in Snapshots
  BY ConfigAssumption, BoundAssumption
  DEF Runners, Progress, Idle, Snapshot, Snapshots, Modes
<1> QED
  BY <1>1, ConfigAssumption, BoundAssumption
  DEF Init, TypeInv, TypeOK, VersionInv, Components, NoFlip

\* Every variable of a reloading agent keeps its type; in particular the
\* watcher never notes a time the file does not have and the agent never
\* reports a policy version that was not pushed.
THEOREM TypeCorrect == Spec => []TypeOK
<1>1. TypeInv => TypeOK
  BY DEF TypeInv
<1> QED
  BY <1>1, TypeInit, TypeInductive, PTL DEF Spec

----------------------------------------------------------------------------
(* A rejected config leaves no trace. *)

\* What a reload past Build, a component, the snapshot or a flip in progress
\* holds did compile.
Compiled(cfg) == cfg \notin Uncompilable

CompiledInv ==
    /\ Compiled(snap.cfg)
    /\ \A i \in DOMAIN comp : Compiled(comp[i])
    /\ \A r \in Runners : run[r].at \in {"set", "swap"} => Compiled(run[r].cfg)
    /\ \A f \in Flippers : flip[f] # NoFlip => Compiled(flip[f].copy.cfg)

LEMMA CompiledInductive ==
    TypeInv /\ CompiledInv /\ [Next]_vars => CompiledInv'
<1> SUFFICES ASSUME TypeInv, CompiledInv, [Next]_vars
             PROVE  CompiledInv'
  OBVIOUS
<1>types. /\ run \in [Runners -> Progress]
          /\ comp \in [DOMAIN Components -> Configs]
          /\ snap \in Snapshots
          /\ flip \in [Flippers -> {NoFlip} \cup [at : {"loaded"}, copy : Snapshots]]
          /\ Idle.at = "idle" /\ NoFlip.at = "none"
  BY DEF TypeInv, TypeOK, Idle, NoFlip
<1>1. CASE EditFile \/ PushPolicy \/ UNCHANGED vars
  BY <1>1 DEF EditFile, PushPolicy, vars, CompiledInv
<1>2. CASE WatchStat
  BY <1>2, <1>types DEF WatchStat, CompiledInv
<1>3. CASE \E r \in Reloaders : Trigger(r)
  BY <1>3, <1>types DEF Trigger, CompiledInv
<1>4. CASE Fetch
  BY <1>4, <1>types DEF Fetch, CompiledInv
<1>5. ASSUME NEW r \in Runners, Step(r)
      PROVE  CompiledInv'
  <2>p. /\ run[r] \in Progress
        /\ run[r].at \in {"set", "swap"} =>
             run[r] \in [at : {"set", "swap"}, i : DOMAIN Components, lim : Nat,
                        cfg : Configs, ver : Nat]
    BY <1>types, ProgressShape
  <2>1. CASE Load(r)
    BY <2>1, <1>types DEF Load, CompiledInv
  <2>2. CASE Build(r)
    BY <2>2, <1>types DEF Build, Compiles, CompiledInv, Compiled
  <2>3. CASE SetComponent(r)
    <3>1. run'[r].cfg = run[r].cfg /\ \A s \in Runners \ {r} : run'[s] = run[s]
      BY <2>3, <2>p, <1>types DEF SetComponent
    <3>2. \A i \in DOMAIN comp' : comp'[i] = comp[i] \/ comp'[i] = run[r].cfg
      BY <2>3, <1>types DEF SetComponent
    <3>3. DOMAIN comp' = DOMAIN comp
      BY <2>3, <1>types DEF SetComponent
    <3> QED
      BY <2>3, <3>1, <3>2, <3>3 DEF SetComponent, CompiledInv
  <2>4. CASE Swap(r)
    BY <2>4, <1>types DEF Swap, Snapshot, CompiledInv
  <2>5. CASE CloseOld(r)
    BY <2>5, <1>types DEF CloseOld, CompiledInv
  <2>6. CASE Finish(r)
    BY <2>6, <1>types DEF Finish, CompiledInv
  <2> QED
    BY <1>5, <2>1, <2>2, <2>3, <2>4, <2>5, <2>6 DEF Step
<1>6. CASE \E f \in Flippers : FlipLoad(f)
  BY <1>6, <1>types DEF FlipLoad, CompiledInv, Snapshots
<1>7. CASE \E f \in Flippers : FlipStore(f)
  BY <1>7, <1>types DEF FlipStore, CompiledInv
<1> QED
  BY <1>1, <1>2, <1>3, <1>4, <1>5, <1>6, <1>7 DEF Next

\* A config that policy.Build rejects never reaches the snapshot in force nor
\* the components set beside it, from the file or from the control plane,
\* with any number of reloads, pushes and mode flips in progress.
THEOREM RejectedIsHarmless == Spec => []RejectedLeavesNoTrace
<1>1. Init => CompiledInv
  BY ConfigAssumption DEF Init, CompiledInv, Compiled, Snapshot, Idle, NoFlip
<1>2. CompiledInv => RejectedLeavesNoTrace
  BY DEF CompiledInv, Compiled, RejectedLeavesNoTrace
<1> QED
  BY <1>1, <1>2, TypeInit, TypeInductive, CompiledInductive, PTL DEF Spec

----------------------------------------------------------------------------
(* Ownership of limiters.  The argument: every open limiter has one owner,   *)
(* the snapshot in force or the reload that is to swap it in or to close it, *)
(* and Swap exchanges what the two own.  A flip that was overtaken puts a    *)
(* limiter back in force that a reload owns, so the argument ends there.     *)

\* The limiter a reload in progress is answerable for.
Owns(p) == IF p.at \in {"set", "swap"} THEN {p.lim}
           ELSE IF p.at = "close" THEN {p.old} ELSE {}

OwnerInv ==
    /\ snap.lim \in open
    /\ \A l \in open : l <= built
    /\ \A r \in Runners : Owns(run[r]) \subseteq open \ {snap.lim}
    /\ \A r, s \in Runners : r # s => Owns(run[r]) \cap Owns(run[s]) = {}

Overtaken == "flip" \in races

\* What has been overtaken stays so.
LEMMA RacesGrow == [Next]_vars => races \subseteq races'
<1> SUFFICES ASSUME [Next]_vars
             PROVE  races \subseteq races'
  OBVIOUS
<1>1. ASSUME NEW r \in Runners, Step(r)
      PROVE  races \subseteq races'
  BY <1>1 DEF Step, Load, Build, SetComponent, Swap, CloseOld, Finish, past
<1>2. ASSUME NEW f \in Flippers, FlipLoad(f) \/ FlipStore(f)
      PROVE  races \subseteq races'
  BY <1>2 DEF FlipLoad, FlipStore, past
<1> QED
  BY <1>1, <1>2 DEF Next, vars, EditFile, PushPolicy, WatchStat, Fetch, Trigger, past

LEMMA OwnerInductive ==
    TypeInv /\ (Overtaken \/ OwnerInv) /\ [Next]_vars => (Overtaken \/ OwnerInv)'
<1> SUFFICES ASSUME TypeInv, Overtaken \/ OwnerInv, [Next]_vars, ~Overtaken'
             PROVE  OwnerInv'
  OBVIOUS
<1>own. OwnerInv
  BY RacesGrow DEF Overtaken
<1>types. /\ run \in [Runners -> Progress]
          /\ built \in Nat /\ open \subseteq Nat /\ snap.lim \in Nat
  BY BoundAssumption DEF TypeInv, TypeOK, Snapshots
<1>none. /\ Owns(Idle) = {}
         /\ \A c, v, k : /\ Owns([at |-> "load"]) = {}
                         /\ Owns([at |-> "build", cfg |-> c, ver |-> v]) = {}
                         /\ Owns([at |-> "done", cfg |-> c, ver |-> v]) = {}
                         /\ Owns([at |-> "close", old |-> k, cfg |-> c, ver |-> v]) = {k}
                         /\ Owns([at |-> "set", i |-> 1, lim |-> k, cfg |-> c, ver |-> v]) = {k}
  BY DEF Owns, Idle
<1>1. CASE EditFile \/ PushPolicy \/ UNCHANGED vars
  BY <1>1, <1>own DEF EditFile, PushPolicy, vars, OwnerInv
\* A step that leaves snapshot and limiters alone and makes r own no more.
<1>quiet. ASSUME NEW r, UNCHANGED <<snap, open, built>>,
                 \A s \in Runners \ {r} : run'[s] = run[s],
                 r \in Runners => Owns(run'[r]) \subseteq Owns(run[r])
          PROVE  OwnerInv'
  <2>1. \A s \in Runners : Owns(run'[s]) \subseteq Owns(run[s])
    BY <1>quiet
  <2>2. \A s \in Runners : Owns(run'[s]) \subseteq open \ {snap.lim}
    BY <2>1, <1>own DEF OwnerInv
  <2>3. \A s, t \in Runners : s # t => Owns(run'[s]) \cap Owns(run'[t]) = {}
    BY <2>1, <1>own DEF OwnerInv
  <2> QED
    BY <1>quiet, <1>own, <2>2, <2>3 DEF OwnerInv
<1>2. CASE WatchStat
  <2>1. /\ UNCHANGED <<snap, open, built>>
        /\ \A s \in Runners \ {Watcher} : run'[s] = run[s]
        /\ Watcher \in Runners => run'[Watcher] = [at |-> "load"]
    BY <1>2, <1>types DEF WatchStat
  <2> QED
    BY <2>1, <1>none, <1>quiet
<1>3. ASSUME NEW r \in Reloaders, Trigger(r)
      PROVE  OwnerInv'
  <2>1. /\ UNCHANGED <<snap, open, built>>
        /\ \A s \in Runners \ {r} : run'[s] = run[s]
        /\ r \in Runners => run'[r] = [at |-> "load"]
    BY <1>3, <1>types DEF Trigger
  <2> QED
    BY <2>1, <1>none, <1>quiet
<1>4. CASE Fetch
  <2>1. /\ UNCHANGED <<snap, open, built>>
        /\ \A s \in Runners \ {Agent} : run'[s] = run[s]
        /\ Agent \in Runners => Owns(run'[Agent]) = {}
    BY <1>4, <1>types, <1>none DEF Fetch
  <2> QED
    BY <2>1, <1>quiet
<1>5. ASSUME NEW r \in Runners, Step(r)
      PROVE  OwnerInv'
  <2>p. run[r] \in Progress
    BY <1>types
  <2>o. /\ snap.lim \in open /\ \A l \in open : l <= built
        /\ \A s \in Runners : Owns(run[s]) \subseteq open \ {snap.lim}
        /\ \A s, t \in Runners : s # t => Owns(run[s]) \cap Owns(run[t]) = {}
    BY <1>own DEF OwnerInv
  <2>1. CASE Load(r)
    <3>1. /\ UNCHANGED <<snap, open, built>>
          /\ \A s \in Runners \ {r} : run'[s] = run[s]
          /\ Owns(run'[r]) = {}
      BY <2>1, <1>types, <1>none DEF Load
    <3> QED
      BY <3>1, <1>quiet
  <2>2. CASE Build(r)
    <3>1. /\ snap' = snap /\ built' \in {built, built + 1}
          /\ \A s \in Runners \ {r} : run'[s] = run[s]
      BY <2>2, <1>types DEF Build
    <3>2. \/ /\ built' = built + 1 /\ open' = open \cup {built'}
             /\ Owns(run'[r]) \in {{}, {built'}}
          \/ open' = open /\ Owns(run'[r]) = {}
      BY <2>2, <1>types, <1>none DEF Build
    <3>3. /\ built' \in Nat /\ built' >= built /\ open \subseteq open'
          /\ built' = built + 1 => built' \notin open
      BY <3>1, <3>2, <2>o, <1>types
    <3>4. snap'.lim \in open' /\ \A l \in open' : l <= built'
      BY <3>1, <3>2, <3>3, <2>o, <1>types
    <3>5. \A s \in Runners : Owns(run'[s]) \subseteq open' \ {snap'.lim}
      BY <3>1, <3>2, <3>3, <2>o
    <3>6. \A s, t \in Runners : s # t => Owns(run'[s]) \cap Owns(run'[t]) = {}
      BY <3>1, <3>2, <3>3, <2>o
    <3> QED
      BY <3>4, <3>5, <3>6 DEF OwnerInv
  <2>3. CASE SetComponent(r)
    <3>1. run'[r].at \in {"set", "swap"} /\ run'[r].lim = run[r].lim /\ run[r].at = "set"
      BY <2>3, <2>p, <1>types, ProgressShape DEF SetComponent
    <3>2. /\ UNCHANGED <<snap, open, built>>
          /\ \A s \in Runners \ {r} : run'[s] = run[s]
          /\ Owns(run'[r]) = Owns(run[r])
      BY <2>3, <3>1, <1>types DEF SetComponent, Owns
    <3> QED
      BY <3>2, <1>quiet
  <2>4. CASE Swap(r)
    <3>1. /\ UNCHANGED <<open, built>> /\ snap'.lim = run[r].lim
          /\ \A s \in Runners \ {r} : run'[s] = run[s]
          /\ Owns(run[r]) = {run[r].lim} /\ Owns(run'[r]) = {snap.lim}
      BY <2>4, <1>types, <1>none DEF Swap, Snapshot, Owns
    <3>2. snap'.lim \in open' /\ \A l \in open' : l <= built'
      BY <3>1, <2>o
    <3>3. \A s \in Runners : Owns(run'[s]) \subseteq open' \ {snap'.lim}
      BY <3>1, <2>o
    <3>4. \A s, t \in Runners : s # t => Owns(run'[s]) \cap Owns(run'[t]) = {}
      BY <3>1, <2>o
    <3> QED
      BY <3>2, <3>3, <3>4 DEF OwnerInv
  <2>5. CASE CloseOld(r)
    <3>1. /\ UNCHANGED <<snap, built>> /\ open' = open \ {run[r].old}
          /\ \A s \in Runners \ {r} : run'[s] = run[s]
          /\ Owns(run[r]) = {run[r].old} /\ Owns(run'[r]) = {}
      BY <2>5, <1>types, <1>none DEF CloseOld, Owns
    <3>2. snap'.lim \in open' /\ \A l \in open' : l <= built'
      BY <3>1, <2>o
    <3>3. \A s \in Runners : Owns(run'[s]) \subseteq open' \ {snap'.lim}
      BY <3>1, <2>o
    <3>4. \A s, t \in Runners : s # t => Owns(run'[s]) \cap Owns(run'[t]) = {}
      BY <3>1, <2>o
    <3> QED
      BY <3>2, <3>3, <3>4 DEF OwnerInv
  <2>6. CASE Finish(r)
    <3>1. /\ UNCHANGED <<snap, open, built>>
          /\ \A s \in Runners \ {r} : run'[s] = run[s]
          /\ Owns(run'[r]) = {}
      BY <2>6, <1>types, <1>none DEF Finish
    <3> QED
      BY <3>1, <1>quiet
  <2> QED
    BY <1>5, <2>1, <2>2, <2>3, <2>4, <2>5, <2>6 DEF Step
<1>6. CASE \E f \in Flippers : FlipLoad(f)
  BY <1>6, <1>own DEF FlipLoad, OwnerInv
<1>7. CASE \E f \in Flippers : FlipStore(f)
  <2>1. PICK f \in Flippers : FlipStore(f)
    BY <1>7
  <2>2. snap'.lim = snap.lim /\ UNCHANGED <<open, built, run>>
    BY <2>1 DEF FlipStore, Overtaken
  <2> QED
    BY <2>2, <1>own DEF OwnerInv
<1> QED
  BY <1>1, <1>2, <1>3, <1>4, <1>5, <1>6, <1>7 DEF Next

LEMMA OwnerInit == Init => OwnerInv
  BY BoundAssumption DEF Init, OwnerInv, Owns, Snapshot, Idle

\* With any number of reloads, pushes and mode flips overlapping, the limiters
\* of the snapshot in force are open, until a flip is overtaken by a reload.
THEOREM InForceStaysOpen == Spec => []InForceOpen
<1>1. (Overtaken \/ OwnerInv) => InForceOpen
  BY DEF Overtaken, OwnerInv, InForceOpen
<1> QED
  BY <1>1, TypeInit, TypeInductive, OwnerInit, OwnerInductive, PTL DEF Spec

----------------------------------------------------------------------------
\* No open limiter is without an owner, but those of failed builds.
LEMMA NoOrphanInductive ==
    TypeInv /\ NoOrphan /\ [Next]_vars => NoOrphan'
<1> SUFFICES ASSUME TypeInv, NoOrphan, [Next]_vars, ~Overtaken'
             PROVE  NoOrphan'
  BY DEF Overtaken, NoOrphan
<1>types. run \in [Runners -> Progress] /\ Idle.at = "idle"
  BY DEF TypeInv, TypeOK, Idle
<1>not. ~Overtaken
  BY RacesGrow DEF Overtaken
<1>1. CASE EditFile \/ PushPolicy \/ UNCHANGED vars
  BY <1>1, <1>not DEF EditFile, PushPolicy, vars, past, NoOrphan, Overtaken
<1>2. CASE WatchStat
  BY <1>2, <1>types, <1>not DEF WatchStat, NoOrphan, Overtaken, past
<1>3. CASE \E r \in Reloaders : Trigger(r)
  BY <1>3, <1>types, <1>not DEF Trigger, NoOrphan, Overtaken, past
<1>4. CASE Fetch
  BY <1>4, <1>types, <1>not DEF Fetch, NoOrphan, Overtaken, past
<1>5. ASSUME NEW r \in Runners, Step(r)
      PROVE  NoOrphan'
  <2>1. CASE Load(r)
    BY <2>1, <1>types, <1>not DEF Load, NoOrphan, Overtaken, past
  <2>2. CASE Build(r)
    BY <2>2, <1>types, <1>not DEF Build, Compiles, NoOrphan, Overtaken
  <2>3. CASE SetComponent(r)
    <3>p. run[r] \in [at : {"set", "swap"}, i : DOMAIN Components, lim : Nat,
                      cfg : Configs, ver : Nat]
      BY <2>3, <1>types, ProgressShape DEF SetComponent
    <3>1. run'[r].at \in {"set", "swap"} /\ run'[r].lim = run[r].lim /\ run[r].at = "set"
      BY <2>3, <3>p, <1>types DEF SetComponent
    <3>2. \A s \in Runners \ {r} : run'[s] = run[s]
      BY <2>3, <1>types DEF SetComponent
    <3> QED
      BY <2>3, <3>1, <3>2, <1>not DEF SetComponent, NoOrphan, Overtaken, past
  <2>4. CASE Swap(r)
    BY <2>4, <1>types, <1>not DEF Swap, Snapshot, NoOrphan, Overtaken, past
  <2>5. CASE CloseOld(r)
    BY <2>5, <1>types, <1>not DEF CloseOld, NoOrphan, Overtaken, past
  <2>6. CASE Finish(r)
    BY <2>6, <1>types, <1>not DEF Finish, NoOrphan, Overtaken, past
  <2> QED
    BY <1>5, <2>1, <2>2, <2>3, <2>4, <2>5, <2>6 DEF Step
<1>6. CASE \E f \in Flippers : FlipLoad(f)
  BY <1>6, <1>not DEF FlipLoad, NoOrphan, Overtaken, past
<1>7. CASE \E f \in Flippers : FlipStore(f)
  <2>1. PICK f \in Flippers : FlipStore(f)
    BY <1>7
  <2>2. snap'.lim = snap.lim /\ UNCHANGED <<open, run, leaked>>
    BY <2>1 DEF FlipStore, Overtaken
  <2> QED
    BY <2>2, <1>not DEF NoOrphan, Overtaken
<1> QED
  BY <1>1, <1>2, <1>3, <1>4, <1>5, <1>6, <1>7 DEF Next

\* Reloads do not leak collectors, whatever overlaps: one that runs is owned,
\* or a build that failed left it behind, until a flip is overtaken.
THEOREM ReloadsDoNotLeak == Spec => []NoOrphan
<1>1. Init => NoOrphan
  BY DEF Init, NoOrphan, Snapshot
<1> QED
  BY <1>1, TypeInit, TypeInductive, NoOrphanInductive, PTL DEF Spec

----------------------------------------------------------------------------
(* Agreement.  Until a policy is pushed or a race happens there is at most   *)
(* one reload past its Load, and it takes everything from the config in      *)
(* force to its own, component by component; a flip that is stored copied    *)
(* the snapshot it replaces.                                                 *)

Alone == pushed.ver = 0 /\ races = {}

Past(p) == p.at \notin {"idle", "load"}
Writing(p) == p.at \in {"set", "swap", "close", "done"}

OneReload ==
    /\ run[Agent] = Idle
    /\ \A r, s \in Reloaders : Past(run[r]) /\ Past(run[s]) => r = s

\* The components a reload has set, and those it has not.
SetSoFar ==
    /\ \A r \in Reloaders : run[r].at = "set" => \A j \in DOMAIN Components :
          comp[j] = IF j < run[r].i THEN run[r].cfg ELSE snap.cfg
    /\ \A r \in Reloaders : run[r].at \in {"swap", "close", "done"} =>
          \A j \in DOMAIN Components : comp[j] = run[r].cfg
    /\ \A r \in Reloaders : run[r].at \in {"close", "done"} => snap.cfg = run[r].cfg

AllAgree ==
    (\A r \in Reloaders : ~Writing(run[r])) =>
        /\ \A j \in DOMAIN Components : comp[j] = snap.cfg
        /\ current = snap.cfg

\* A limiter names the config it was built for.
FlipsAgree ==
    \A f \in Flippers : flip[f] # NoFlip =>
        /\ flip[f].copy.lim <= built
        /\ flip[f].copy.lim = snap.lim => flip[f].copy.cfg = snap.cfg
        /\ \A r \in Reloaders :
              run[r].at \in {"set", "swap"} => flip[f].copy.lim # run[r].lim

AgreeInv == OneReload /\ SetSoFar /\ AllAgree /\ FlipsAgree

LEMMA AloneBefore ==
    TypeInv /\ [Next]_vars /\ Alone' => Alone
<1> SUFFICES ASSUME TypeInv, [Next]_vars, Alone'
             PROVE  Alone
  OBVIOUS
<1>1. races = {}
  BY RacesGrow DEF Alone
<1>2. pushed.ver \in Nat /\ pushed'.ver = 0
  BY DEF TypeInv, TypeOK, Alone
<1>3. pushed' = pushed \/ PushPolicy
  BY DEF Next, vars, Step, EditFile, WatchStat, Fetch, Trigger, Load, Build, SetComponent, Swap,
     CloseOld, Finish, FlipLoad, FlipStore
<1>4. ~PushPolicy
  BY <1>2 DEF PushPolicy
<1> QED BY <1>1, <1>2, <1>3, <1>4 DEF Alone

LEMMA AgreeTypes ==
    ASSUME TypeInv
    PROVE  /\ run \in [Runners -> Progress] /\ Agent \in Runners /\ Reloaders \subseteq Runners
           /\ comp \in [DOMAIN Components -> Configs]
           /\ DOMAIN comp = 1..4 /\ DOMAIN Components = 1..4 /\ Len(Components) = 4
           /\ Idle.at = "idle" /\ NoFlip.at = "none"
           /\ flip \in [Flippers -> {NoFlip} \cup [at : {"loaded"}, copy : Snapshots]]
           /\ snap \in Snapshots /\ built \in Nat
  BY DEF TypeInv, TypeOK, Runners, Components, Idle, NoFlip

\* A step of reload r to p that leaves the snapshot and the flips alone.
Moved(r, p) ==
    /\ run' = [run EXCEPT ![r] = p]
    /\ UNCHANGED <<snap, flip>>

\* A reload that has yet to load its file does nothing to agreement.
LEMMA WaitingAgrees ==
    ASSUME TypeInv, AgreeInv, NEW r \in Reloaders, NEW p, Moved(r, p), p.at \in {"idle", "load"},
           run[r].at \in {"idle", "load", "build"}, UNCHANGED <<comp, current>>,
           built' \in {built, built + 1}
    PROVE  AgreeInv'
<1>t. /\ run \in [Runners -> Progress] /\ Agent \in Runners /\ Reloaders \subseteq Runners
      /\ Agent # r
  BY AgreeTypes, AgentAssumption
<1>1. \A s \in Runners : run'[s] = IF s = r THEN p ELSE run[s]
  BY <1>t DEF Moved
<1>2. OneReload'
  BY <1>t, <1>1 DEF AgreeInv, OneReload, Past
<1>3. SetSoFar'
  BY <1>t, <1>1 DEF AgreeInv, SetSoFar, Moved
<1>4. AllAgree'
  BY <1>t, <1>1 DEF AgreeInv, AllAgree, Writing, Moved
<1>5. FlipsAgree'
  <2> SUFFICES ASSUME NEW f \in Flippers, flip[f] # NoFlip
               PROVE  /\ flip[f].copy.lim <= built'
                      /\ flip[f].copy.lim = snap.lim => flip[f].copy.cfg = snap.cfg
                      /\ \A s \in Reloaders :
                            run'[s].at \in {"set", "swap"} => flip[f].copy.lim # run'[s].lim
    BY DEF FlipsAgree, Moved
  <2>1. flip[f].copy.lim \in Nat /\ built \in Nat /\ flip[f].copy.lim <= built
    BY AgreeTypes DEF Snapshots, AgreeInv, FlipsAgree
  <2>2. flip[f].copy.lim <= built'
    BY <2>1
  <2> QED BY <2>2, <1>t, <1>1 DEF AgreeInv, FlipsAgree
<1> QED BY <1>2, <1>3, <1>4, <1>5 DEF AgreeInv

\* The load that is alone: nobody is past it.
LEMMA LoadAgrees ==
    ASSUME TypeInv, AgreeInv, NEW r \in Reloaders, Load(r), races' = {}
    PROVE  AgreeInv'
<1>t. /\ run \in [Runners -> Progress] /\ Agent \in Runners /\ Reloaders \subseteq Runners
      /\ Agent # r
  BY AgreeTypes, AgentAssumption
<1>1. CASE ~Valid(file)
  BY <1>1, WaitingAgrees, AgreeTypes DEF Load, Moved
<1>2. CASE Valid(file)
  <2> DEFINE p == [at |-> "build", cfg |-> file, ver |-> 0]
  <2>1. run' = [run EXCEPT ![r] = p] /\ ~Overlapping(r)
        /\ UNCHANGED <<snap, flip, comp, current, built>> /\ run[r].at = "load"
    BY <1>2 DEF Load
  <2>2. \A s \in Runners : run'[s] = IF s = r THEN p ELSE run[s]
    BY <1>t, <2>1
  <2>3. p.at = "build" /\ \A s \in Reloaders \ {r} : ~Past(run[s])
    BY <2>1 DEF Overlapping, Past
  <2> HIDE DEF p
  <2>4. OneReload'
    BY <1>t, <2>2, <2>3 DEF AgreeInv, OneReload, Past
  <2>5. SetSoFar'
    BY <1>t, <2>1, <2>2, <2>3 DEF AgreeInv, SetSoFar
  <2>6. AllAgree'
    BY <1>t, <2>1, <2>2, <2>3 DEF AgreeInv, AllAgree, Writing
  <2>7. FlipsAgree'
    BY <1>t, <2>1, <2>2, <2>3 DEF AgreeInv, FlipsAgree
  <2> QED BY <2>4, <2>5, <2>6, <2>7 DEF AgreeInv
<1> QED BY <1>1, <1>2

\* A build has a limiter no flip can have copied.
LEMMA BuildAgrees ==
    ASSUME TypeInv, OwnerInv, AgreeInv, NEW r \in Reloaders, Build(r)
    PROVE  AgreeInv'
<1>t. /\ run \in [Runners -> Progress] /\ Agent \in Runners /\ Reloaders \subseteq Runners
      /\ Agent # r /\ run[r].at = "build" /\ UNCHANGED <<snap, flip, comp, current>>
      /\ built \in Nat /\ DOMAIN Components = 1..4
  BY AgreeTypes, AgentAssumption DEF Build
<1>1. CASE run' = [run EXCEPT ![r] = Idle]
  <2>1. built' \in {built, built + 1} /\ Moved(r, Idle)
    BY <1>1, <1>t DEF Build, Moved
  <2> QED BY <1>t, <2>1, WaitingAgrees, AgreeTypes
<1>2. CASE /\ built' = built + 1
           /\ run' = [run EXCEPT ![r] = [at |-> "set", i |-> 1, lim |-> built',
                                         cfg |-> run[r].cfg, ver |-> run[r].ver]]
  <2> DEFINE new == built + 1
             p == [at |-> "set", i |-> 1, lim |-> new, cfg |-> run[r].cfg, ver |-> run[r].ver]
  <2>1. run' = [run EXCEPT ![r] = p] /\ built' = new /\ new \in Nat
    BY <1>2, <1>t
  <2>2. p.at = "set" /\ p.i = 1 /\ p.lim = new
    OBVIOUS
  <2> HIDE DEF p
  <2>3. \A s \in Runners : run'[s] = IF s = r THEN p ELSE run[s]
    BY <1>t, <2>1
  <2>4. \A s \in Reloaders \ {r} : ~Past(run[s])
    BY <1>t DEF AgreeInv, OneReload, Past
  <2>5. OneReload'
    BY <1>t, <2>3, <2>4 DEF AgreeInv, OneReload, Past
  <2>6. \A j \in DOMAIN Components : comp[j] = snap.cfg
    BY <1>t, <2>4 DEF AgreeInv, AllAgree, Past, Writing
  <2>7. SetSoFar'
    <3>1. \A s \in Reloaders : run'[s].at \in {"set", "swap", "close", "done"} => s = r
      BY <1>t, <2>3, <2>4 DEF Past
    <3>2. \A j \in DOMAIN Components : ~(j < 1)
      BY <1>t
    <3> QED BY <1>t, <2>2, <2>3, <2>6, <3>1, <3>2 DEF SetSoFar
  <2>8. AllAgree'
    BY <1>t, <2>2, <2>3 DEF AllAgree, Writing
  <2>9. FlipsAgree'
    <3> SUFFICES ASSUME NEW f \in Flippers, flip[f] # NoFlip
                 PROVE  /\ flip[f].copy.lim <= new
                        /\ flip[f].copy.lim = snap.lim => flip[f].copy.cfg = snap.cfg
                        /\ \A s \in Reloaders :
                              run'[s].at \in {"set", "swap"} => flip[f].copy.lim # run'[s].lim
      BY <1>t, <2>1 DEF FlipsAgree
    <3>1. flip[f].copy.lim \in Nat /\ flip[f].copy.lim <= built
      BY AgreeTypes DEF Snapshots, AgreeInv, FlipsAgree
    <3>2. flip[f].copy.lim <= new /\ flip[f].copy.lim # new
      BY <1>t, <3>1
    <3> QED BY <1>t, <2>2, <2>3, <3>2 DEF AgreeInv, FlipsAgree
  <2> QED BY <2>5, <2>7, <2>8, <2>9 DEF AgreeInv
<1> QED BY <1>1, <1>2 DEF Build

\* One setter: its component goes over to the reload's config.
LEMMA SetAgrees ==
    ASSUME TypeInv, AgreeInv, NEW r \in Reloaders, SetComponent(r)
    PROVE  AgreeInv'
<1>t. /\ run \in [Runners -> Progress] /\ Agent \in Runners /\ Reloaders \subseteq Runners
      /\ Agent # r /\ run[r].at = "set" /\ UNCHANGED <<snap, flip, current, built>>
      /\ comp \in [DOMAIN Components -> Configs]
      /\ DOMAIN Components = 1..4 /\ Len(Components) = 4
  BY AgreeTypes, AgentAssumption DEF SetComponent
<1> DEFINE i == run[r].i
<1>1. run[r] \in [at : {"set", "swap"}, i : DOMAIN Components, lim : Nat,
                  cfg : Configs, ver : Nat]
  BY <1>t, ProgressShape
<1>2. i \in 1..4 /\ comp' = [comp EXCEPT ![i] = run[r].cfg]
  BY <1>t, <1>1 DEF SetComponent
<1>3. /\ run'[r].cfg = run[r].cfg /\ run'[r].lim = run[r].lim
      /\ IF i < 4 THEN run'[r].at = "set" /\ run'[r].i = i + 1 ELSE run'[r].at = "swap"
      /\ \A s \in Runners \ {r} : run'[s] = run[s]
  BY <1>t, <1>1 DEF SetComponent
<1>4. \A j \in 1..4 : comp'[j] = IF j = i THEN run[r].cfg ELSE comp[j]
  BY <1>t, <1>2
<1>5. \A j \in 1..4 : comp[j] = IF j < i THEN run[r].cfg ELSE snap.cfg
  BY <1>t DEF AgreeInv, SetSoFar
<1>6. \A j \in 1..4 : comp'[j] = IF j < i + 1 THEN run[r].cfg ELSE snap.cfg
  BY <1>2, <1>4, <1>5
<1>7. \A s \in Reloaders \ {r} : ~Past(run[s])
  BY <1>t DEF AgreeInv, OneReload, Past
<1>8. OneReload'
  BY <1>t, <1>3, <1>7 DEF AgreeInv, OneReload, Past
<1>9. SetSoFar'
  <2>1. \A s \in Reloaders : run'[s].at \in {"set", "swap", "close", "done"} => s = r
    BY <1>t, <1>3, <1>7 DEF Past
  <2>2. run'[r].at \in {"set", "swap"}
    BY <1>3
  <2>3. run'[r].at = "set" => \A j \in DOMAIN Components :
           comp'[j] = IF j < run'[r].i THEN run'[r].cfg ELSE snap'.cfg
    BY <1>t, <1>3, <1>6
  <2>4. run'[r].at = "swap" => \A j \in DOMAIN Components : comp'[j] = run'[r].cfg
    BY <1>t, <1>2, <1>3, <1>6
  <2> QED BY <2>1, <2>2, <2>3, <2>4 DEF SetSoFar
<1>10. AllAgree'
  BY <1>3 DEF AllAgree, Writing
<1>11. FlipsAgree'
  BY <1>t, <1>3 DEF AgreeInv, FlipsAgree
<1> QED BY <1>8, <1>9, <1>10, <1>11 DEF AgreeInv

\* The swap: everything set, the snapshot follows; no flip has its limiter.
LEMMA SwapAgrees ==
    ASSUME TypeInv, AgreeInv, NEW r \in Reloaders, Swap(r)
    PROVE  AgreeInv'
<1>t. /\ run \in [Runners -> Progress] /\ Agent \in Runners /\ Reloaders \subseteq Runners
      /\ Agent # r /\ run[r].at = "swap" /\ UNCHANGED <<flip, comp, current, built>>
  BY AgreeTypes, AgentAssumption DEF Swap
<1>1. /\ snap'.cfg = run[r].cfg /\ snap'.lim = run[r].lim
      /\ run'[r].at = "close" /\ run'[r].cfg = run[r].cfg
      /\ \A s \in Runners \ {r} : run'[s] = run[s]
  BY <1>t DEF Swap, Snapshot
<1>2. \A s \in Reloaders \ {r} : ~Past(run[s])
  BY <1>t DEF AgreeInv, OneReload, Past
<1>3. OneReload'
  BY <1>t, <1>1, <1>2 DEF AgreeInv, OneReload, Past
<1>4. SetSoFar'
  BY <1>t, <1>1, <1>2 DEF AgreeInv, SetSoFar, Past
<1>5. AllAgree'
  BY <1>1 DEF AllAgree, Writing
<1>6. FlipsAgree'
  BY <1>t, <1>1, <1>2 DEF AgreeInv, FlipsAgree, Past
<1> QED BY <1>3, <1>4, <1>5, <1>6 DEF AgreeInv

\* The end of a reload, which publishes the config that is in force by then.
LEMMA EndAgrees ==
    ASSUME TypeInv, AgreeInv, NEW r \in Reloaders, CloseOld(r) \/ Finish(r)
    PROVE  AgreeInv'
<1>t. /\ run \in [Runners -> Progress] /\ Agent \in Runners /\ Reloaders \subseteq Runners
      /\ Agent # r /\ run[r].at \in {"close", "done"}
      /\ UNCHANGED <<snap, flip, comp, built>> /\ Idle.at = "idle"
  BY AgreeTypes, AgentAssumption DEF CloseOld, Finish
<1>1. /\ \A s \in Runners \ {r} : run'[s] = run[s]
      /\ \/ run'[r].at = "done" /\ run'[r].cfg = run[r].cfg
         \/ run'[r].at = "idle" /\ current' = run[r].cfg
  BY <1>t DEF CloseOld, Finish
<1>2. snap.cfg = run[r].cfg /\ \A j \in DOMAIN Components : comp[j] = run[r].cfg
  BY <1>t DEF AgreeInv, SetSoFar
<1>3. \A s \in Reloaders \ {r} : ~Past(run[s])
  BY <1>t DEF AgreeInv, OneReload, Past
<1>4. OneReload'
  BY <1>t, <1>1, <1>3 DEF AgreeInv, OneReload, Past
<1>5. SetSoFar'
  BY <1>t, <1>1, <1>2, <1>3 DEF SetSoFar, Past
<1>6. AllAgree'
  BY <1>t, <1>1, <1>2 DEF AllAgree, Writing
<1>7. FlipsAgree'
  BY <1>t, <1>1 DEF AgreeInv, FlipsAgree
<1> QED BY <1>4, <1>5, <1>6, <1>7 DEF AgreeInv

\* A flip copies a snapshot whose limiter no reload is about to bring in, and
\* one that is stored alone puts back the config it replaces.
LEMMA FlipAgrees ==
    ASSUME TypeInv, OwnerInv, AgreeInv, NEW f \in Flippers,
           FlipLoad(f) \/ (FlipStore(f) /\ races' = {})
    PROVE  AgreeInv'
<1>t. /\ UNCHANGED <<run, comp, current, built>> /\ built \in Nat
      /\ flip \in [Flippers -> {NoFlip} \cup [at : {"loaded"}, copy : Snapshots]]
      /\ snap \in Snapshots /\ NoFlip.at = "none" /\ Reloaders \subseteq Runners
  BY AgreeTypes DEF FlipLoad, FlipStore, past
<1>1. snap'.cfg = snap.cfg /\ snap'.lim = snap.lim
  BY <1>t DEF FlipLoad, FlipStore, AgreeInv, FlipsAgree
<1>2. \A g \in Flippers \ {f} : flip'[g] = flip[g]
  BY <1>t DEF FlipLoad, FlipStore
<1>3. flip'[f] = NoFlip \/ (flip'[f].copy.cfg = snap.cfg /\ flip'[f].copy.lim = snap.lim)
  BY <1>t DEF FlipLoad, FlipStore, Snapshots
<1>4. OneReload' /\ SetSoFar' /\ AllAgree'
  BY <1>t, <1>1 DEF AgreeInv, OneReload, SetSoFar, AllAgree
<1>5. /\ snap.lim <= built
      /\ \A r \in Reloaders : run[r].at \in {"set", "swap"} => run[r].lim # snap.lim
  BY <1>t DEF OwnerInv, Owns
<1>6. FlipsAgree'
  BY <1>t, <1>1, <1>2, <1>3, <1>5 DEF AgreeInv, FlipsAgree
<1> QED BY <1>4, <1>6 DEF AgreeInv

LEMMA AgreeInductive ==
    TypeInv /\ (Overtaken \/ OwnerInv) /\ (Alone => AgreeInv) /\ [Next]_vars
       => (Alone => AgreeInv)'
<1> SUFFICES ASSUME TypeInv, Overtaken \/ OwnerInv, Alone => AgreeInv, [Next]_vars, Alone'
             PROVE  AgreeInv'
  OBVIOUS
<1>0. Alone /\ AgreeInv /\ OwnerInv /\ races' = {}
  BY AloneBefore DEF Alone, Overtaken
<1>1. run[Agent] = Idle /\ applied = pushed.ver
  BY <1>0 DEF AgreeInv, OneReload, Alone, TypeInv, TypeOK
<1>2. ASSUME UNCHANGED <<run, snap, comp, built, current, flip>>
      PROVE  AgreeInv'
  BY <1>0, <1>2 DEF AgreeInv, OneReload, SetSoFar, AllAgree, FlipsAgree
<1>3. ASSUME NEW r \in Reloaders, run[r] = Idle, run' = [run EXCEPT ![r] = [at |-> "load"]],
             UNCHANGED <<snap, comp, built, current, flip>>
      PROVE  AgreeInv'
  <2> DEFINE p == [at |-> "load"]
  <2>1. Moved(r, p) /\ p.at = "load" /\ run[r].at = "idle"
    BY <1>3, AgreeTypes DEF Moved
  <2> HIDE DEF p
  <2> QED BY <1>0, <1>3, <2>1, WaitingAgrees
<1>4. CASE EditFile \/ PushPolicy \/ UNCHANGED vars
  BY <1>2, <1>4 DEF EditFile, PushPolicy, vars
<1>5. CASE Watcher \in Reloaders /\ WatchStat
  BY <1>3, <1>5 DEF WatchStat
<1>6. ASSUME NEW r \in Reloaders, Trigger(r)
      PROVE  AgreeInv'
  BY <1>3, <1>6 DEF Trigger
<1>7. ~Fetch
  BY <1>1 DEF Fetch
<1>8. ASSUME NEW r \in Runners, Step(r)
      PROVE  AgreeInv'
  <2>1. r # Agent
    BY <1>1, <1>8, AgreeTypes DEF Step, Load, Build, SetComponent, Swap, CloseOld, Finish
  <2>2. r \in Reloaders
    BY <2>1 DEF Runners
  <2> QED BY <1>0, <1>8, <2>2, LoadAgrees, BuildAgrees, SetAgrees, SwapAgrees, EndAgrees DEF Step
<1>9. ASSUME NEW f \in Flippers, FlipLoad(f) \/ FlipStore(f)
      PROVE  AgreeInv'
  BY <1>0, <1>9, FlipAgrees
<1> QED BY <1>4, <1>5, <1>6, <1>7, <1>8, <1>9 DEF Next

\* With one reload after another and no policy pushed, whatever fails to load
\* or to compile on the way, the components, the snapshot in force and the
\* config the admin endpoint shows are of one config whenever nothing is under
\* way - for any number of triggers, flips and edits.
THEOREM SettledIsOne == Spec => []SettledAgree
<1>1. Init => (Alone => AgreeInv)
  BY BoundAssumption, ConfigAssumption, AgentAssumption
  DEF Init, AgreeInv, OneReload, SetSoFar, AllAgree, FlipsAgree, Past, Snapshot, Runners,
      Components, Idle
<1>2. TypeInv /\ (Alone => AgreeInv) => SettledAgree
  <2> SUFFICES ASSUME TypeInv, AgreeInv, Settled
               PROVE  /\ \A i \in DOMAIN comp : comp[i] = snap.cfg
                      /\ current = snap.cfg
    BY DEF SettledAgree, Alone
  <2>1. \A r \in Reloaders : ~Writing(run[r])
    BY AgreeTypes DEF Settled, Writing
  <2> QED BY <2>1, AgreeTypes DEF AgreeInv, AllAgree
<1> QED
  BY <1>1, <1>2, TypeInit, TypeInductive, OwnerInit, OwnerInductive, AgreeInductive, PTL DEF Spec

============================================================================
