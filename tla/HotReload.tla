----------------------------- MODULE HotReload -----------------------------
(***************************************************************************)
(* Hot reload of one agent: Guard.Reload and SetChallengeMode, policy.Build *)
(* and Close, the reload closure of main with its three triggers (SIGHUP,   *)
(* the file watcher, the admin endpoint), and the license agent's           *)
(* applyPolicy.                                                             *)
(*                                                                          *)
(* The snapshot in force is one atomic pointer; the ban table, connection   *)
(* limiter and challenge manager outlive it and are updated by setters, one *)
(* after the other.  No lock spans a reload, so every store, swap and       *)
(* setter is a step of its own and reloads, pushes and mode flips           *)
(* interleave.                                                              *)
(*                                                                          *)
(* A config is the pair of the section a pushed policy may override and the *)
(* section it leaves to the local file.  A snapshot's rate limiters are     *)
(* represented by one number: a limiter is open while its collector         *)
(* goroutine runs.                                                          *)
(***************************************************************************)
EXTENDS Integers, Sequences, FiniteSets

CONSTANTS
    Configs,        \* configs: records [own, shared]
    Uncompilable,   \* those whose rules policy.Build rejects
    StartConfig,    \* the config the process started with
    Unreadable,     \* a file config.Load rejects
    Docs,           \* pushable values of the shared section
    Reloaders,      \* goroutines that run the reload closure
    Watcher,        \* the one of them that is watchConfig
    Agent,          \* the license agent's goroutine
    Flippers,       \* goroutines that run SetChallengeMode
    MaxEvents,      \* bound: edits of the file, pushes and signals altogether
    MaxLeaks        \* bound: limiters that failed builds leave behind

ASSUME ConfigAssumption ==
    /\ StartConfig = [own |-> StartConfig.own, shared |-> StartConfig.shared]
    /\ Uncompilable \subseteq Configs
    /\ StartConfig \in Configs \ Uncompilable
    /\ Unreadable \notin Configs
\* The agent's overlay is a run of its own, beside main's watcher and the admin API.
ASSUME AgentAssumption == Agent \notin Reloaders
ASSUME BoundAssumption == MaxEvents \in Nat /\ MaxLeaks \in Nat

\* What Reload sets outside the snapshot, in its order: the ban table's
\* allowlist and parameters, the connection cap, the challenge parameters.
Components == <<"allow", "params", "conns", "chal">>

VARIABLES
    file,       \* the config file: a config, or Unreadable
    mtime,      \* its modification time
    lastMod,    \* watchConfig.lastMod
    snap,       \* Guard.snap: [cfg, lim, mode]
    comp,       \* comp[i]: the config Components[i] was last set from
    open,       \* limiters whose collector runs
    built,      \* limiters built so far
    current,    \* main's currentCfg, shown by the admin /config endpoint
    pushed,     \* the control plane's policy for this key: [ver, doc]
    applied,    \* the agent's appliedPolicy version
    run,        \* run[r]: progress of the reload or push r performs
    flip,       \* flip[f]: the snapshot f has loaded and not yet stored
    signals,    \* SIGHUPs and reload requests so far
    leaked,     \* history: limiters left behind by builds that failed
    races       \* history: "flip" after a mode flip stored a snapshot that had
                \* been replaced, "reload" after two reloads overlapped

vars == <<file, mtime, lastMod, snap, comp, open, built, current, pushed,
          applied, run, flip, signals, leaked, races>>
past == <<signals, leaked, races>>

Runners == Reloaders \cup {Agent}
Idle == [at |-> "idle"]
NoFlip == [at |-> "none"]

\* PolicyDoc.ApplyTo and Normalize: the policy's fields over the base config.
Overlay(base, doc) == [base EXCEPT !.shared = doc]

ASSUME OverlayAssumption == \A doc \in Docs : Overlay(StartConfig, doc) \in Configs

\* A snapshot's challenge mode is its config's until SetChallengeMode flips it.
Modes == {"always", "adaptive"}
Snapshot(cfg, lim) == [cfg |-> cfg, lim |-> lim, mode |-> "config"]

----------------------------------------------------------------------------
Init ==
    /\ file = StartConfig
    /\ mtime = 0
    /\ lastMod = 0
    /\ snap = Snapshot(StartConfig, 0)
    /\ comp = [i \in DOMAIN Components |-> StartConfig]
    /\ open = {0}
    /\ built = 0
    /\ current = StartConfig
    /\ pushed = [ver |-> 0, doc |-> StartConfig.shared]
    /\ applied = 0
    /\ run = [r \in Runners |-> Idle]
    /\ flip = [f \in Flippers |-> NoFlip]
    /\ signals = 0
    /\ leaked = {}
    /\ races = {}

\* The bound on what comes from outside.
Room == mtime + pushed.ver + signals < MaxEvents

\* An operator saves the config file.
EditFile ==
    /\ Room
    /\ mtime' = mtime + 1
    /\ file' \in Configs \cup {Unreadable}
    /\ UNCHANGED <<lastMod, snap, comp, open, built, current, pushed, applied,
                   run, flip, past>>

\* An operator pushes a policy to this agent's key.
PushPolicy ==
    /\ Room
    /\ \E d \in Docs : pushed' = [ver |-> pushed.ver + 1, doc |-> d]
    /\ UNCHANGED <<file, mtime, lastMod, snap, comp, open, built, current,
                   applied, run, flip, past>>

\* MUTANT: lastMod is the time of the check, not the file's.
WatchStatLate ==
    /\ run[Watcher] = Idle
    /\ mtime > lastMod
    /\ lastMod' = mtime + 1
    /\ run' = [run EXCEPT ![Watcher] = [at |-> "load"]]
    /\ UNCHANGED <<file, mtime, snap, comp, open, built, current, pushed,
                   applied, flip, past>>

\* watchConfig: the modification time moved; note it, then reload.
WatchStat ==
    /\ run[Watcher] = Idle
    /\ mtime > lastMod
    /\ lastMod' = mtime
    /\ run' = [run EXCEPT ![Watcher] = [at |-> "load"]]
    /\ UNCHANGED <<file, mtime, snap, comp, open, built, current, pushed,
                   applied, flip, past>>

\* SIGHUP, or a request to the admin reload endpoint.
Trigger(r) ==
    /\ r \in Reloaders \ {Watcher}
    /\ run[r] = Idle
    /\ Room
    /\ signals' = signals + 1
    /\ run' = [run EXCEPT ![r] = [at |-> "load"]]
    /\ UNCHANGED <<file, mtime, lastMod, snap, comp, open, built, current,
                   pushed, applied, flip, leaked, races>>

\* Config.validate and the JSON parser: the file is a config or it is none.
Valid(f) == f # Unreadable

\* Some other reload is past its Load.
Overlapping(r) == \E s \in Reloaders \ {r} : run[s].at \notin {"idle", "load"}

\* config.Load; an error ends the reload.
Load(r) ==
    /\ r \in Reloaders
    /\ run[r].at = "load"
    /\ run' = [run EXCEPT ![r] = IF ~Valid(file) THEN Idle
                                 ELSE [at |-> "build", cfg |-> file, ver |-> 0]]
    /\ races' = IF Valid(file) /\ Overlapping(r) THEN races \cup {"reload"} ELSE races
    /\ UNCHANGED <<file, mtime, lastMod, snap, comp, open, built, current,
                   pushed, applied, flip, signals, leaked>>

\* A validate or heartbeat answer brings a policy whose version is not the
\* applied one; applyPolicy merges it onto the config of the start.
Fetch ==
    /\ run[Agent] = Idle
    /\ pushed.ver # applied
    /\ run' = [run EXCEPT ![Agent] = [at |-> "build",
                                      cfg |-> Overlay(StartConfig, pushed.doc),
                                      ver |-> pushed.ver]]
    /\ UNCHANGED <<file, mtime, lastMod, snap, comp, open, built, current,
                   pushed, applied, flip, past>>

\* MUTANT: the setters run whether or not Build succeeded.
BuildUnchecked(r) ==
    /\ run[r].at = "build"
    /\ built' = built + 1
    /\ open' = open \cup {built'}
    /\ run' = [run EXCEPT ![r] = [at |-> "set", i |-> 1, lim |-> built',
                                  cfg |-> run[r].cfg, ver |-> run[r].ver]]
    /\ UNCHANGED <<file, mtime, lastMod, snap, comp, current, pushed, applied,
                   flip, past>>

\* rules.Compile: every path pattern is a regular expression.
Compiles(cfg) == cfg \notin Uncompilable

\* Guard.Reload: policy.Build.  A rule that does not compile ends the run; the
\* limiters already made for the rules before it are not closed.
Build(r) ==
    /\ run[r].at = "build"
    /\ \/ /\ Compiles(run[r].cfg)
          /\ built' = built + 1
          /\ open' = open \cup {built'}
          /\ run' = [run EXCEPT ![r] = [at |-> "set", i |-> 1, lim |-> built',
                                        cfg |-> run[r].cfg, ver |-> run[r].ver]]
          /\ UNCHANGED leaked
       \/ /\ ~Compiles(run[r].cfg)
          /\ \/ UNCHANGED <<built, open, leaked>>
             \/ /\ Cardinality(leaked) < MaxLeaks
                /\ built' = built + 1
                /\ open' = open \cup {built'}
                /\ leaked' = leaked \cup {built'}
          /\ run' = [run EXCEPT ![r] = Idle]
    /\ UNCHANGED <<file, mtime, lastMod, snap, comp, current, pushed, applied,
                   flip, signals, races>>

\* MUTANT: the last setter is forgotten.
SetComponentShort(r) ==
    /\ run[r].at = "set"
    /\ LET i == run[r].i
       IN  /\ comp' = [comp EXCEPT ![i] = run[r].cfg]
           /\ run' = IF i + 1 < Len(Components)
                     THEN [run EXCEPT ![r].i = i + 1]
                     ELSE [run EXCEPT ![r].at = "swap"]
    /\ UNCHANGED <<file, mtime, lastMod, snap, open, built, current, pushed,
                   applied, flip, past>>

\* Guard.Reload: one setter after the other.
SetComponent(r) ==
    /\ run[r].at = "set"
    /\ LET i == run[r].i
       IN  /\ comp' = [comp EXCEPT ![i] = run[r].cfg]
           /\ run' = IF i < Len(Components)
                     THEN [run EXCEPT ![r].i = i + 1]
                     ELSE [run EXCEPT ![r].at = "swap"]
    /\ UNCHANGED <<file, mtime, lastMod, snap, open, built, current, pushed,
                   applied, flip, past>>

\* MUTANT: Load and Store instead of Swap: the snapshot to close was read
\* when the reload began.
SwapStale(r) ==
    /\ run[r].at = "swap"
    /\ snap' = Snapshot(run[r].cfg, run[r].lim)
    /\ run' = [run EXCEPT ![r] = [at |-> "close", old |-> 0,
                                  cfg |-> run[r].cfg, ver |-> run[r].ver]]
    /\ UNCHANGED <<file, mtime, lastMod, comp, open, built, current, pushed,
                   applied, flip, past>>

\* Guard.Reload: the atomic swap.
Swap(r) ==
    /\ run[r].at = "swap"
    /\ snap' = Snapshot(run[r].cfg, run[r].lim)
    /\ run' = [run EXCEPT ![r] = [at |-> "close", old |-> snap.lim,
                                  cfg |-> run[r].cfg, ver |-> run[r].ver]]
    /\ UNCHANGED <<file, mtime, lastMod, comp, open, built, current, pushed,
                   applied, flip, past>>

\* MUTANT: what is closed is the snapshot in force by then.
CloseInForce(r) ==
    /\ run[r].at = "close"
    /\ open' = open \ {snap.lim}
    /\ run' = [run EXCEPT ![r] = [at |-> "done", cfg |-> run[r].cfg,
                                  ver |-> run[r].ver]]
    /\ UNCHANGED <<file, mtime, lastMod, snap, comp, built, current, pushed,
                   applied, flip, past>>

\* Guard.Reload: Close of the snapshot that was swapped out.
CloseOld(r) ==
    /\ run[r].at = "close"
    /\ open' = open \ {run[r].old}
    /\ run' = [run EXCEPT ![r] = [at |-> "done", cfg |-> run[r].cfg,
                                  ver |-> run[r].ver]]
    /\ UNCHANGED <<file, mtime, lastMod, snap, comp, built, current, pushed,
                   applied, flip, past>>

\* The reload closure publishes the config; applyPolicy notes the version.
Finish(r) ==
    /\ run[r].at = "done"
    /\ current' = IF r = Agent THEN current ELSE run[r].cfg
    /\ applied' = IF r = Agent THEN run[r].ver ELSE applied
    /\ run' = [run EXCEPT ![r] = Idle]
    /\ UNCHANGED <<file, mtime, lastMod, snap, comp, open, built, pushed, flip, past>>

\* SetChallengeMode: load the snapshot in force ...
FlipLoad(f) ==
    /\ flip[f] = NoFlip
    /\ \E m \in Modes :
          flip' = [flip EXCEPT ![f] = [at |-> "loaded",
                                       copy |-> [snap EXCEPT !.mode = m]]]
    /\ UNCHANGED <<file, mtime, lastMod, snap, comp, open, built, current,
                   pushed, applied, run, past>>

\* ... and store the changed copy.
FlipStore(f) ==
    /\ flip[f] # NoFlip
    /\ snap' = flip[f].copy
    /\ flip' = [flip EXCEPT ![f] = NoFlip]
    /\ races' = IF flip[f].copy.lim = snap.lim THEN races ELSE races \cup {"flip"}
    /\ UNCHANGED <<file, mtime, lastMod, comp, open, built, current, pushed,
                   applied, run, signals, leaked>>

Step(r) ==
    \/ Load(r) \/ Build(r) \/ SetComponent(r) \/ Swap(r) \/ CloseOld(r) \/ Finish(r)

Next ==
    \/ EditFile \/ PushPolicy
    \/ Watcher \in Reloaders /\ WatchStat
    \/ Fetch
    \/ \E r \in Reloaders : Trigger(r)
    \/ \E r \in Runners : Step(r)
    \/ \E f \in Flippers : FlipLoad(f) \/ FlipStore(f)

Spec == Init /\ [][Next]_vars

\* The watcher's and the agent's tickers keep firing, and a goroutine inside a
\* reload goes on with it.  Nobody has to edit, push, trigger or flip.
FairSpec ==
    /\ Spec
    /\ WF_vars(Watcher \in Reloaders /\ WatchStat)
    /\ WF_vars(Fetch)
    /\ \A r \in Runners : WF_vars(Step(r))
    /\ \A f \in Flippers : WF_vars(FlipStore(f))

----------------------------------------------------------------------------
(* Properties. *)

Settled == /\ \A r \in Runners : run[r] = Idle
           /\ \A f \in Flippers : flip[f] = NoFlip

Progress ==
    {Idle, [at |-> "load"]}
    \cup [at : {"build", "done"}, cfg : Configs, ver : Nat]
    \cup [at : {"set", "swap"}, i : DOMAIN Components, lim : Nat,
          cfg : Configs, ver : Nat]
    \cup [at : {"close"}, old : Nat, cfg : Configs, ver : Nat]

Snapshots == [cfg : Configs, lim : Nat, mode : {"config"} \cup Modes]

\* Every variable has its type.
TypeOK ==
    /\ file \in Configs \cup {Unreadable}
    /\ mtime \in Nat
    /\ lastMod \in 0..mtime
    /\ snap \in Snapshots
    /\ comp \in [DOMAIN Components -> Configs]
    /\ open \in SUBSET Nat
    /\ built \in Nat
    /\ current \in Configs
    /\ pushed \in [ver : Nat, doc : Docs \cup {StartConfig.shared}]
    /\ applied \in 0..pushed.ver
    /\ run \in [Runners -> Progress]
    /\ flip \in [Flippers -> {NoFlip} \cup [at : {"loaded"}, copy : Snapshots]]
    /\ signals \in Nat
    /\ leaked \in SUBSET Nat
    /\ races \in SUBSET {"flip", "reload"}

\* A config that policy.Build rejects leaves no trace: neither the snapshot in
\* force nor any of the components set beside it ever comes from it.
RejectedLeavesNoTrace ==
    /\ snap.cfg \notin Uncompilable
    /\ \A i \in DOMAIN comp : comp[i] \notin Uncompilable

\* However many reloads, pushes and mode flips overlap, the limiters of the
\* snapshot in force are never closed under it - up to the first flip whose
\* copy was overtaken by a reload.
InForceOpen == "flip" \in races \/ snap.lim \in open

\* Reloads do not leak: a running collector belongs to the snapshot in force,
\* to one that some reload in progress is about to swap in or to close, or to
\* a build that failed.
NoOrphan ==
    "flip" \in races \/ \A l \in open :
        \/ l = snap.lim
        \/ \E r \in Runners : run[r].at \in {"set", "swap"} /\ run[r].lim = l
        \/ \E r \in Runners : run[r].at = "close" /\ run[r].old = l
        \/ l \in leaked

\* Until a policy is pushed, reloads overlap or a flip is overtaken, and once
\* no reload is under way, every component, the snapshot in force and the
\* config the admin endpoint shows come from one and the same config.
SettledAgree ==
    Settled /\ pushed.ver = 0 /\ races = {} =>
        /\ \A i \in DOMAIN comp : comp[i] = snap.cfg
        /\ current = snap.cfg

\* Both sources of policy get there.  Once edits stop, a file that can be
\* loaded and compiled is in force for good, wherever in a reload the last
\* edit fell (unless a policy was pushed over it, or a race put an older
\* snapshot back); and a pushed policy that compiles is recorded as applied,
\* whatever was pushed before it.
Converges ==
    /\ <>[](file \in Configs \ Uncompilable /\ pushed.ver = 0 /\ races = {}
              => snap.cfg = file)
    /\ <>[](Overlay(StartConfig, pushed.doc) \notin Uncompilable
              => applied = pushed.ver)

(* What the documentation says and the code does not keep. *)

\* policy.Close: "Call when retiring a snapshot".  The snapshot in force is not
\* a retired one.
InForceNotRetired == snap.lim \in open

\* license/api.go: PolicyVersion "is the version the agent currently has
\* applied".  The version reported is the version in force.
ReportedIsInForce ==
    Settled /\ applied # 0 /\ applied = pushed.ver => snap.cfg.shared = pushed.doc

\* README: "everything else stays as the agent's local config".  What a policy
\* cannot override is what the local config last loaded says.
LocalSectionKept == Settled => snap.cfg.own = current.own

\* admin: /config is the "current effective config".
ShownIsInForce == Settled => current = snap.cfg

============================================================================
