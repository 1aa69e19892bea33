# AggerShield: a verification project

TLA+ models of AggerShield, an HTTP flood-protection reverse proxy with a
licensing control plane, written in Go. The modules are translated from the
code; TLC checks them on small instances and TLAPS proves all but the liveness
properties for every value of the constants.

    tlc -workers 2 -config BanList_races.cfg MCBanList     # a run
    tlapm BanListProofs.tla                                # a proof

`PROJECT.json` maps every definition to the lines it models and lists runs,
mutants, findings, hazards and theorems.

## 1. Inventory

### The parts and how they interact

| part | state | operations | who touches it |
|---|---|---|---|
| `internal/banlist` Store | map IP -> (expiry, offences), allowlist, parameters, buffer of recent local bans, snapshot file | `Ban`, `BanFor`, `BanFleet`, `Unban`, `IsBanned`, `DrainRecent`, `SetParams`, `SetAllowlist`, sweeper, snapshot, `Close` | every request; admin API; license agent; reload |
| `internal/ratelimit` PerIP, Global | token buckets | `Allow`, `Remaining`, collector, LRU eviction, `Close` | every request; a reload replaces them |
| `internal/connlimit` Limiter | requests in flight per IP, cap | `Acquire`/release, `SetMax` | every request; reload |
| `internal/guard` Guard | pointer to the policy snapshot, license flag, tarpit slots | `Wrap` (the pipeline), `Reload`, `SetChallengeMode`, `SetLicensed` | HTTP handlers; reload triggers; admin API; license agent |
| `internal/policy`, `internal/rules` | an immutable snapshot that owns limiters with collector goroutines | `Build`, `Close` | `Guard.Reload` |
| `cmd/aggershield` | current config, watcher's modification time | reload closure (SIGHUP, watcher, admin endpoint), `runLicenseAgent`, shutdown | |
| `internal/license` Store | keys, pushed policies with versions, fleet blocklist with a version, agent status, data file | `Generate`, `Revoke`, `Validate`, `SetPolicy`, `AddFleetBans`, `FleetBlocklist`, `RecordHeartbeat`, save/open | control-plane handlers |
| `cmd/aggershield-server` | sessions, login counters | validate, heartbeat, keys, policy, dashboard | agents, operators |
| `internal/admin`, `config`, `metrics`, `netutil` | none, or counters | | agent |
| `detector/detector.py` | attack mode, calm ticks | poll, score, raise or relax the challenge mode, engage or disengage the scrubber | reads the agent's stats, calls its admin API |
| `internal/scrubber` | none (the edge's own; the agent keeps an engaged gauge) | `Engage`, `Disengage` | admin API |
| `internal/challenge` Manager | signing secret, difficulty, lifetime of a clearance; the clearances themselves are the browsers' | `Serve`, `HasClearance`, `SetParams` | every request without a clearance; reload |
| `internal/fingerprint` Collector | map remote address -> holder | `ConnContext`, `Observe`, `ConnState`, `FromContext` | the TLS server's hooks; the pipeline |
| `internal/secmon` Monitor | last counters, ring of samples, open episode, list of episodes | `tick`, `Events`, `State`, `Samples` | its own ticker; the dashboard |
| `internal/mcproxy` Proxy | a limiter of connections and one of slots, both its own; shares the ban table | `ListenAndServe`, `handle`, `pipe` | game clients, the game server |

What is hard about it:

* no lock spans a request or a reload: requests keep the snapshot they captured
  on entry but share ban table, connection limiter and license flag;
* clocks are read before the mutex is taken, in the ban table and in the limiters;
* reloads come from four places at once and each swaps, closes and sets;
* the ban table is copied under the mutex and written after it, and the process
  may die at any point;
* agents and control plane talk over calls that are lost or late, and decide by
  comparing version numbers only;
* the detector steers an agent it knows only through calls that fail, time out or
  take effect after it has given them up;
* puzzles and clearances outlive the parameters, and even the process, that
  issued them;
* a connection's fingerprint and a connection's hook meet in a map keyed by an
  address that may have a new owner by then;
* a session of the game proxy is four goroutines' worth of endings: client,
  server, either pipe, and the handler's deferred calls;
* everything is bounded (table, buckets, buffer, tarpit, blocklist, ring, event
  list) and must stay so under a flood.

The hazards, each at its line and with the properties that watch it, are the
list `hazards` in `PROJECT.json`.

### What makes each component correct

* Ban table: bounded growth; evictions cost least; a ban is neither lengthened
  nor shortened by a race, a restart or a fleet push; bans end by themselves.
* Limiters: in any window no more than burst + rate * length is admitted; bounded keys.
* Pipeline: banned or unlicensed clients are not served, allowlisted ones are,
  dry-run harms nobody, slots are given back, everybody is answered.
* Reload: a rejected config leaves no trace; what is in force is never closed
  and nothing else stays open; the last edit or push wins.
* Control plane: fail-closed and revocable agents; a version names one policy
  and one list; no echo between agents.
* Challenge: who gets by on a clearance has paid what was asked within its
  lifetime; a clearance is honoured while it is good; solving one helps.
* Fingerprints: a request is told the fingerprint of its connection; equal
  stacks have equal JA4s; the map does not grow.
* Monitor: the episodes reported are the ones that happened; no request is lost
  between two samples.
* Game proxy: the server sees exactly what the client sent; slots are returned;
  nobody is stuck.
* Detector and scrubber: an attack that goes on raises the mode, calm ticks in a
  row relax it and release the edge; the gauge says what the edge does.

## 2. Modules

| module | models | composed with |
|---|---|---|
| `BanTable` | what the ban table promises: a set of addresses in force | implemented by `BanList`, used by `Guard` and `Minecraft` |
| `BanList` | the ban table with sweeper, snapshot file, shutdown, crash, restart | refines `BanTable` |
| `TokenBucket` | the arithmetic of one bucket | extended by both limiters |
| `PerIPLimiter`, `GlobalLimiter` | the two limiters | `TokenBucket` |
| `HotReload` | reload triggers, `Guard.Reload`, `policy.Build`/`Close`, mode flips, `applyPolicy` | |
| `Challenge` | the challenge gate, the manager behind it, the page's script and the browsers' cookies | extends `GlobalLimiter`, which the adaptive mode asks and the cleared request meets |
| `Guard` | the pipeline with connection limiter, tarpit, license gate, counters; bans, reloads and revocations around it | instantiates `BanTable`; takes limiters and reload at the level their own modules justify |
| `Fleet` | license store, server handlers, agents' license loop, and the network between them | |
| `Detector` | the detector's loop, the admin calls it makes, the agent's mode, gauge and call to the edge | |
| `Monitor` | the sampler, the ring and the attack episodes, over counters that move | |
| `Minecraft` | the game proxy's handler, pipes and parser | instantiates `BanTable` |
| `Fingerprint` | JA3 and JA4, and the collector's map | |
| `MC*` | finite instances | the module of the same name |
| `BanListProofs`, `TokenBucketProofs`, `PerIPLimiterProofs`, `HotReloadProofs`, `GuardProofs`, `FleetProofs` | theorems | the module of the same name |
| `ChallengeProofs` | theorems about `Challenge` and `GlobalLimiter` | `Challenge`, `TokenBucketProofs` |
| `PerimeterProofs` | theorems about `Detector`, `Minecraft`, `Fingerprint` and `Monitor` | extends all four, whose names are kept apart for this |

How state and steps correspond to the code:

* **BanList.** A mutator is `Begin` (allowlist check and clock reading, no lock)
  and `Commit` (the critical section), and so is the sweep. `MakeRoom` is the
  eviction of `evictLocked`, whose map order is a choice. The snapshot is
  `SnapshotCollect` (under the mutex) and `SnapshotWrite` (file and rename, which
  may fail). `Exit` follows `Close` without waiting, as `main` does. `high` and
  `strikes` are history. A call on an allowlisted address returns at once and
  changes nothing, so it is no step.
* **BanTable.** Two variables: the addresses in force and those ever banned. A
  call about an address may bring it in and may cost one other address its ban,
  never more; everything else only ends bans, and a new process brings back only
  what was issued. `BanList!Table` is the mapping: `blocked` is what has not
  expired, `past` the addresses with a history in `high`.
* **TokenBucket, PerIPLimiter, GlobalLimiter.** Tokens are counted in units
  such that rates below and above one request per tick are both integers; the
  code's floating point is not modelled. `OpenWindow` is the observer: it starts
  counting anew at any time, so that the bound is checked over every window.
  `heard` is history: the latest time a client with a bucket was heard of.
* **HotReload.** A run of a reload goes through `Load` or `Fetch`, `Build`, one
  `SetComponent` per setter in the code's order, `Swap`, `CloseOld`, `Finish`.
  A config is the pair of the section a policy may override and the rest. The
  limiters of a snapshot are one number; it is in `open` while their collectors run.
  `races` is history: "flip" once a mode flip has stored a copy that a reload had
  overtaken, "reload" once two reloads overlapped; `leaked` are the limiters
  that failed builds left behind. A SIGHUP that overlaps the watcher's reload can
  put an older file back in force, which is what "reload" stands for in the
  properties.
* **Guard.** One step per check of `Wrap`, in its order; `Deny` is `enforce`. Bans are issued
  through `BanTable`. The
  result of a check on data of the request alone is a choice, and so is a
  limiter's answer. `Acquire` reads the cap in one step and takes the lock in
  another. `Respond` ends in an answer or, where the snapshot caps bodies, in "cut":
  the request was let through and its body turned out too large. `seen` is the
  history of what held while a request was under way.
* **Fleet.** Each store operation is a step, as each holds the store's mutex
  while it saves; a handler is a sequence of them. A call is a record that
  travels, is handled, and is answered, lost, or handled after its agent has
  given it up. A write of the data file may fail (`Save`): the memory then goes on
  without it, and `Open` after a crash comes back with the file. A heartbeat's body
  may go unread (`Decoded`), as the server ignores that error: the heartbeat then
  counts as an empty one. A policy that does not compile is sent again with every
  heartbeat (`Apply`). Time is left out: an entry may expire at any moment, in the
  file no later than in memory. `past` is history: the revocations the operator was
  told of, the agents that had been handed a version above the one the server came
  back with, and whether that happened to a list. Left out is
  `fail_open`, with which an agent serves before it was told anything.
* **Detector.** `Poll` is a turn of `main`'s loop up to its first call, `Continue`
  the rest of the turn; which findings a score leads to is a choice. A call ends in
  `Receive` (an answer), `Refuse` (an error that `_set_mode` and `_set_scrub`
  catch) or `GiveUp` (an exception that ends the tick), after which the agent may
  still carry it out. `undone`, `muddled` and `unreset` are history; `unreset` holds
  from an engage that was cut off, by a timeout or with the agent, to the next reset
  of `calm`. `--once`, and a poll
  that fails and so changes nothing, are left out.

* **Challenge.** A request captures the snapshot in `Arrive` and passes `Check`
  (`HasClearance`), `Gate` (the snapshot's mode and how full its bucket is) and
  either the ceiling or `Serve`, which is `Stamp`, `SignPuzzle` and `Render`
  because it reads the time, the difficulty and the lifetime one by one. A reload is
  `Build` (a snapshot with a new, full limiter and the config's mode),
  `StoreDifficulty`, `StoreTTL` and `Install`; a mode flip is `FlipLoad` and
  `Install`, and keeps the limiter. Requests go on with the limiter of the snapshot
  they captured, so `buckets` is the sequence of all limiters of the process and
  `used` counts for each. `Restart` takes mode, difficulty and lifetime from a config
  and makes up a secret if none is configured. A signature is the tuple it covers
  with the secret; the page's loop ends with a nonce good for the difficulty it was
  given; `Alter` is a client that sends other values under the signature it has.
  `past` is history: which difficulties were in force and until when. A lifetime
  under a second makes the page's max-age zero, so the instance keeps lifetimes of
  a second and more.
* **Monitor.** `Load` is one counter of the snapshot closure, `SeedTick` and `Tick` the
  locked part of `tick`. The five counters that make up "blocked" are one, as the
  module explains. `log` and `base` are history.
* **Minecraft.** One step per numbered part of `handle`, then `closeup`, `release` and
  `closing` for the deferred calls in the order they run. A byte is a group of a
  VarInt with its continuation mark; what is read and what is passed on are
  sequences of them. The data from the server to the client, and the counters, are
  not tracked. Worth knowing, though no document says otherwise: a client that
  connects and closes is banned like one that sends rubbish; the first side to
  end closes both, so a half-closed session loses its reply; an idle session
  keeps its slot for ever.
* **Fingerprint.** `ConnContext` is its namesake, `Take` and `Fill` are `Observe`, `CloseSocket`
  and `ClosedHook` the end of a connection in net/http's order. `Reset` frees the
  address before the goroutine notices. `mixed` is history: the connections that
  were unfinished together with another one of their address. Hashes are taken
  as what they hash.

Definitions marked `MUTANT` are not part of the models: each is a plausible bug
in the definition that follows it, and shows that a property can fail.

## 3. Runs

| run | properties | bounds |
|---|---|---|
| `BanList_races` | EvictsSoonest, HistoryKept, EarlyRelease, ImplementsTable | 3 addresses, 2 goroutines, cap 1 or 2, 4 ticks |
| `BanList_restart` | NoPhantomBan, GrowthUnderCap, AutoUnban | 2 addresses, 1 goroutine, snapshot file, allowlist changes, 4 ticks |
| `PerIP_rate` | RateBound, ActiveKept | 3 clients, 2 callers, 2 buckets, 4 ticks |
| `Challenge_clearance` | CeilingHolds, HardnessCatchesUp, ClearanceHonoured, SolverGetsThrough | 1 browser, 1 other client, 2 configs (difficulty and lifetime), 1 reload, flip, restart or altered cookie, seconds of 2 ticks, 4 ticks |
| `HotReload_overlap` | RejectedLeavesNoTrace, InForceOpen, NoOrphan, SettledAgree, Converges | watcher, SIGHUP, agent and a flip; 2 edits, pushes and signals together, 1 leak |
| `Guard_pipeline` | ServedRightly, RefusedRightly, SlotsMatch, CountedOnce, AllAnswered | 1 address, 2 requests, 1 reload among 3 policies, with and without a body cap |
| `Fleet_blocklist` | BlocklistSound, NoEchoLoop | 2 agents, 2 addresses, list of 1, 2 bans, failed writes, 1 crash |
| `Fleet_policy` | PolicyVersionNames, FailClosed, RevokedStops, PolicyArrives | 1 agent, 2 pushes of 2 documents (one does not compile), failed writes, 1 crash, 1 restart, 1 failed call, 1 late call |
| `Detector_loop` | HysteresisKept, BeliefHolds, GaugeTrue, FloodRaised | 3 calm ticks, 4 faults, every combination of flags |
| `Monitor_episodes` | EventsAreEpisodes, NothingLost | ring of 2, list of 1, 2 calm ticks, 7 ticks, 2 + 3 + 1 requests |
| `Minecraft_splice` | UpstreamSeesClient, SlotsHeld, NobodyStuck | 2 connections of one address, 1 slot, 3 streams; parser: every body of up to 7 of 3 byte values |
| `Fingerprint_conns` | StackNamed, PendingOwned | 3 connections, 2 addresses of one host, 4 ClientHellos |

`ServedRightly` is `NoBannedServed` and `KillSwitch`; `RefusedRightly` says who
may be refused, by what, and whom the body cap cuts off; `BlocklistSound` has the
cap of the list and the meaning of its version; `StackNamed` has `OwnPrint`, whose
fingerprint a request is told, and what two equal JA4s mean. The `TypeOK` of each
module says what its variables range over; it is a theorem, or, for `Challenge`,
`PerIPLimiter` and the modules that `PerimeterProofs` takes in, part of the
inductive invariant.

Why the bounds are enough to see the interesting cases:

* *Ban table.* An eviction that has a choice needs two entries and a third
  address; commits out of order need two goroutines and two readings of the clock
  (`BanHorizon` 3); an entry is forgotten one `max` after its ban, which 4 ticks
  allow. `MaxOffenses` stops new calls against an address, not the ones already
  inside, so two offences do happen. `BanList_races` leaves the history variable
  `high` out of the fingerprint, as none of its properties reads it.
* *Limiters.* The per-IP burst is two requests, so a window holds more than one;
  the rate is half a request per tick, so partial refills happen. The global
  limiter has a rate, burst and cost without a common factor.
* *Challenge.* The change may be a reload, a mode flip, a restart or an altered
  cookie; a reload has its three steps between any two loads of `Serve`, and a
  request can hold its old limiter. A second has two ticks, so truncation loses
  something; of the two configs each is the harder or the longer-lived, so an old
  clearance can expire under the new one and an old puzzle be too easy for it. The
  ceiling is observed over every window (`Observe`). The clock stops at the end of
  the run, so `SolverGetsThrough` supposes a browser that solves its puzzle within
  the lifetime.
* *Reload.* Two events let an edit or push fall into the reload of another, and a
  signal overlap with the watcher. When they are used up nothing has to happen,
  hence no deadlock check.
* *Monitor.* Three mitigated requests against a threshold of two, and seven ticks
  against two calm ones: an episode opens, flares up again, closes and is followed
  by another one that pushes it from the list; the ring is shorter than an
  episode. The run ends with its ticks, hence no deadlock check.
* *Game proxy.* Two handlers of one address compete for the slot and the ban; the
  streams end in, before and after the packet, and one has a length that takes two
  bytes. Bodies of seven bytes hold every field with a two-byte VarInt in one of
  them.
* *Fingerprints.* An address has to be used, reset and used again while a
  third connection runs on the other one. The hellos are one stack twice, shuffled
  and greased, one that differs in the order of its signature algorithms only,
  and one that offers GREASE only. The run ends with its connections, hence no
  deadlock check.
* *Pipeline.* All shared state is per address, so one address is where the races
  are; two requests make every conflict over a slot, the cap and the tarpit. A
  run ends when its requests are answered, hence no deadlock check.
* *Fleet.* The list holds one of two addresses, so every report can evict; two bans
  by two agents are what it takes for an address to be pushed out by another while
  its own report, or the list with it, is still on its way, and for one of them to
  be lost with a write that failed and a crash. `BlocklistView` leaves out of the
  fingerprint what no blocklist property depends on (licenses, counters and ban
  tables of the agents): no guard on the way to the list reads them. Two pushes
  make a version that was not written come back for another policy, a policy that
  does not compile be followed by one that does, and the reverse; the call that
  fails and the one that comes late can be the same.
* *Detector.* Three calm ticks tell a count that was not reset from one that was;
  four faults leave room for a lost mode call, two lost scrub calls and a restart,
  one more than the premature relax of `HysteresisAlways` needs.

Fairness, where a run is about liveness:

* the clock runs and tickers fire (`sweepLoop`, `gcLoop`, `watchConfig`, the
  heartbeat): Go's timers;
* a goroutine that waits for a mutex or has started a reload goes on: Go's
  scheduler and mutexes do not starve;
* a browser's script and its requests go on; the game proxy's handler and pipes
  go on, its handshake deadline passes and a peer that is written to reads. No
  client has to send, and no side has to close;
* a request's handler goes on: the upstream answers or times out and the
  tarpit's timer fires;
* the detector polls after every interval and a handler comes to its end: both
  sides' calls have timeouts. Faults are finitely many by their bound;
* the control plane is restarted after a crash, and only finitely many calls
  fail: this is an assumption about the operator and the network, without which
  nothing can be promised. Nobody has to edit, push, ban, revoke or reload.

## 4. Findings

Statements of the documentation that the code does not keep. They are stated in
the modules, and TLC refutes each with the constants given; no standing run is
kept for them, and where a property above would meet one it says so through a
history variable (`races`, `leaked`, `mixed`, `undone`, `muddled`, `unreset`,
`Fleet!past`).

| statement | said in | what the code does | instance |
|---|---|---|---|
| `HotReload!InForceNotRetired` | policy.go:102-103 Close is for "the OLD snapshot after swapping in a new one" | `SetChallengeMode` loads, copies and stores the snapshot without compare-and-swap; a reload in between has closed the limiters of what is stored, and its own policy is lost (guard.go:136) | 2 events, 1 flip |
| `Detector!Disengaged` | README.md:511-512 "engages on attack, disengages on recovery" | `_set_mode(args, False)` returns `attack`, that is False, when the agent has answered and True when the call failed (detector.py:174,177), and `main` leaves attack mode on True only (detector.py:131): after a relax that worked the scrubber stays engaged, after one that failed it is released | 2 calm ticks, no fault |
| `Fingerprint!AlwaysKnown` | fingerprint.go:188-189 "captures fingerprints during the TLS handshake and makes them available on the request context" | the map is keyed by remote address, and the hook of a closed connection, or the handshake of one that was reset, takes the entry of the next connection of that address (fingerprint.go:209,222) | 2 connections, 1 address |
| `Detector!EveryFloodRaised` | detector.py:6-7 "when an attack is detected — flips AggerShield into under-attack mode" | attack mode outlives an answered relax, a reload and a restart of the agent, and is not raised twice (detector.py:123) | 2 calm ticks, no fault |
| `Detector!HysteresisAlways` | detector/README.md "after `--exit-ticks` calm ticks it relaxes" | an `OSError` in a scrub call skips `calm = 0` (detector.py:127,135), so after a cut-off disengage and a cut-off engage one calm tick is enough | 2 calm ticks, 3 faults |
| `Fleet!BanIsShared` | README.md:283-284 "an IP banned on *any* agent is blocked across the whole fleet" | recent bans are drained before the heartbeat that carries them and are gone if it fails (main.go:424) or its body exceeds 64 KB (server main.go:162-163) | 1 agent, 1 failed call |
| `PerIPLimiter!IdleReclaimed` | ratelimit.go:10 "Per-IP buckets are garbage-collected when idle" | the collector wants a bucket to be idle *and* full but does not refill it (ratelimit.go:91) | 2 clients |
| `BanList!HardCap` | README.md:122 "hard cap on tracked IPs" | `SetParams` trims nothing when the cap is lowered (banlist.go:97) | 2 addresses, `BothParams` |
| `BanList!OffenceLengthens` | banlist.go:10-11 "costs the attacker more each time" | `Ban` overwrites a later expiry left by a fleet or manual ban, or by a later reading of the clock (banlist.go:203) | 1 address, 2 goroutines, `FleetTTL` 3 |
| `BanList!SavedOnShutdown` | config.go:318-319 "saved periodically + on shutdown" | `Close` does not wait for the final save (banlist.go:269) | 1 address, `PersistPath` |
| `HotReload!ReportedIsInForce` | license/api.go:28-29 "the version the agent currently has applied" | a local reload drops the pushed policy and not its version (main.go:118-130) | 1 push, 2 reloaders |
| `HotReload!LocalSectionKept` | README.md:310-311 "everything else stays as the agent's local config" | a push is merged onto the config of the start (main.go:386) | 1 edit, 1 push |
| `HotReload!ShownIsInForce` | admin.go:5 "current effective config" | a push does not update the config shown (main.go:389) | 1 push |
| `HotReload!NoOrphan` | rules.go:71-72 limiters are "bounded and GC'd" | `Compile` leaves the limiters it has made running when a later rule fails (rules.go:85), and the push is retried with each heartbeat | `Docs` with a policy in `Uncompilable` |
| `Guard!AllowlistPasses` | guard.go:13 "Allowlist -> always pass" | step 11 caps the body of every request that is served, so an allowlisted one with too large a body is cut off (guard.go:330-333) | 1 request, a policy with `body` |
| `Guard!DryRunHarmless` | guard.go:287-290 "the request is allowed through untouched", config.go:44-47 "traffic flows untouched" | the same cap, which dry-run does not lift (guard.go:330-333) | 1 request, a dry-run policy with `body` |
| `Challenge!AggregateCeiling` | README.md:119 "aggregate ceiling" | every reload puts a full bucket in force (guard.go:109-112, policy.go:85) while requests under way go on drawing on the old one: a window with n reloads admits n bursts more | 1 reload |
| `Guard!BlockedComplete` | secmon.go:18 "... + fingerprint + bad-UA" | User-Agent refusals are not counted (guard.go:209-221, main.go:85) | 1 request |
| `Fleet!VersionIsForGood` | license/policy.go:65-66 "monotonically increasing version" | a version handed out although `save` failed is used again after a restart (policy.go:82) | `SaveMayFail`, 2 pushes, 1 crash |
| `Fleet!StatusIsLatest` | store.go:148 "the latest agent status" | a late heartbeat overwrites a newer one (store.go:149) | 1 failed call, 1 late call |

## 5. Proofs

Every theorem holds for all values of the constants that satisfy the named
assumptions of the module; TLC evaluates those on every run. Every invariant and
every safety property that a run checks is the statement of a theorem here, but for
`StackNamed`, of which the theorem has the first half (`OwnPrint`): what two equal
JA4s mean is a fact about the data of the hellos, which the run computes.

* `BanListProofs`. `TypeCorrect`; `NoPhantom`, whose invariant adds that an
  operation inside the store will stay under what it is about to record;
  `GrowthIsCapped`, `EvictionIsCheapest`, `HistoryIsKept` and `NoEarlyRelease` are
  action properties, proved action by action from the type invariant and the fact
  that every captured clock reading is in the past (`call[w].t <= now`,
  `cutoff <= now`): that is why an old reading can pick only a victim that is
  expired now as well. `HistoryIsKept` and `NoEarlyRelease` excuse a loss in a full
  table only where a newcomer is put in the place of exactly this address
  (`Displaced`), not whatever happens while the table is full. `TableImplemented` is
  the refinement: `TableStep` maps every step to a step of `BanTable` or a stutter.
  It needs of the invariant that whatever is in force has been issued, and of the
  eviction that it takes one entry.
* `TokenBucketProofs`: what `Refill` and `Spend` preserve. On it rest
  `PerIPLimiterProofs` (`RateLimited`, `FloodSparesActive`) and, in `ChallengeProofs`,
  `Ceiling`. `FloodSparesActive` (`ActiveKept`) compares the evicted with those who
  stay by when each was last heard of, kept in the history `heard`; that a bucket's
  `last` is just that, although readings come out of order, is `LastIsHeard`. The
  bound on admissions is not inductive: the invariant is the potential argument that
  what was admitted plus what the bucket still holds is at most the burst plus the
  refill of the window so far, measured up to the bucket's `last`, not up to the
  clock, because a reading may lag behind it.
* `HotReloadProofs`. `TypeCorrect` needs that the version a run carries is one
  that was pushed; `RejectedIsHarmless` that whatever a run past `Build` holds has
  compiled. `InForceStaysOpen` and `ReloadsDoNotLeak` rest on one ownership
  invariant: every built limiter has at most one owner, which is the snapshot in
  force, a run that will swap it in, or a run that will close it, and owned means
  open. Both hold up to the first mode flip that a reload has overtaken: the
  history `races` records it, and `RacesGrow` that it does not forget; the second
  excepts what failed builds have `leaked`. `SettledIsOne` (`SettledAgree`) says that
  when nothing is under way, the components, the snapshot and the config shown come
  from one config. Its invariant, `AgreeInv`, follows a run through its setters: as
  long as only one run is past `Build`, the components it has set so far have
  its values, the others those of the snapshot in force. That needs
  `AgentAssumption`: the agent's run is its own, no reloader's.
* `GuardProofs`. `BooksBalance`, `ServedJustly` and `RefusedJustly` follow from one
  invariant, `GuardInv`. A property about what happened while a request was under
  way is not inductive: the invariant adds, for every stage of the pipeline, what a
  request there has already seen (`Sound`), that every request under way has
  seen what is true now (`Current`), and that nobody inside `Acquire` has read a cap
  above the highest one so far (`UnderRoof`). `TypeCorrect` rests on it too, as a
  counter that is decremented stays a natural number only because
  it counts its guests. `CountedAtMostOnce` is an argument of its own: a counter
  moves in the step that gives a request its outcome, or not at all.
* `ChallengeProofs`. A step of the gate is a step of the limiters or a new
  process (`LimiterStep`), so the potential argument carries over, one bucket at a
  time, and `CeilingBehindGate` holds of every limiter a process makes, the replaced
  ones included; that they do not add up to one ceiling is the finding on
  `AggregateCeiling`. For `HardnessTakesHold` and `ClearanceIsGood` the invariant says
  that an unaltered puzzle or cookie is signed over what it shows (`Honest`), that
  its time is the clock's in whole seconds (`Dated`), and, of any signature at all,
  that its difficulty is in force or was after the time signed with it (`Backed`):
  `Serve` reads the clock before the difficulty, so a reload in between errs on the
  safe side.
* `FleetProofs`. None of its theorems supposes that writes succeed: the file may be
  behind the memory (`Moves`, `Grows`, `Alike`). The invariant of `ServesLicensed`,
  `VersionNamesPolicy` and `VersionNamesBlocklist` therefore compares what an agent
  or a call carries with both (`SoundPolicy`, `SoundList`): it is not newer than the
  memory's, is the memory's if it is as new, and is the file's if it is as new as
  that. The third clause is what is left after a crash; `OpenStep` shows that
  whoever it does not cover is in the history `past` from then on. For the list "is"
  has to include the entries that have expired and are not swept yet (`Has`), since
  one of them can be reported again without a new version.

  `NoEcho` (`NoEchoLoop`) bounds the version of the list by the bans and expiries
  there were. It is a potential argument: every ban not yet reported is worth two
  changes of the list (its own and the eviction it may cause), every entry one (its
  expiry), and what the list has changed plus all that is owed never exceeds the
  budget. A report that travels owes nothing twice, because `DrainRecent` empties
  the buffer, and what an agent applies from the fleet does not enter it. The
  budget holds for the list in memory and for the one in the file, which is why a
  crash does not break it.
* `PerimeterProofs`, *detector*. `TypeCorrect`; `BeliefIsTrue` (`BeliefHolds`),
  `MetricIsTrue` (`GaugeTrue`) and `RelaxesAfterCalm` (`HysteresisKept`). The loop
  believes what a call told it, and calls may be carried out after they have
  been given up: the invariant `DetInv` says which calls may still be under way
  while the loop believes something, that at most one of them is awaited, and that
  `calm` and the history `quiet` count the same ticks. Both beliefs are excepted as
  the runs except them, from the first lost outcome that matters (`undone`,
  `muddled`); the count only from a cut-off engage to the next reset (`unreset`), as
  everything else that skips the reset leaves attack mode off or `calm` at its limit.
* *Sums*. A fold over a function's values is a recursive function over sets, and
  the library's induction theorems cannot be applied here. The section derives what
  the proofs need (`SumNone`, `SumMore`) from the definition of the fold: the
  function exists, by taking a smallest set for which it would not (`SmallestSet`),
  and its value does not depend on the order in which elements are chosen.
* *Game proxy*. `SlotsAreHeld` (`SlotsHeld`): the count of an address is the number
  of handlers between `Acquire` and the deferred release, on every way out.
  `UpstreamIsTheClient` (`UpstreamSeesClient`) has two halves. The parser: what the
  recursion of `readVarInt` yields is what the protocol says of a VarInt without
  recursion (`ReadsCode`, `ReadsNothing`; the groups read so far plus the weight of
  the next times what is still to be read is constant), so `Parses` is
  `IsHandshake` for every sequence of bytes (`ParserIsRight`). The streams: what
  was passed on is a beginning of what was read, and before the handshake is
  complete what was read is not yet a length or ends with one (`Fresh`), which is
  why the packet's bytes are asked for exactly once and nothing beyond them.
* *Fingerprints*. `PendingIsOwned` (`PendingOwned`) and `PrintIsOwn`: the invariant
  `PrintInv` ties every entry of the map to the connection that made it, every
  holder a handshake fills to the one it looked up, and says of a connection that
  was never unfinished together with another of its address (not in `mixed`) that the
  entry is its own. `OwnPrint`, which `PrintIsOwn` proves, is the first half of
  `StackNamed`.
* *Security monitor*. `SamplesAddUp` (`NothingLost`): every counter was loaded after
  it was last sampled and only grows, so no difference is cut off at zero, and the
  sums telescope. `EpisodesAreTold` (`EventsAreEpisodes`): the automaton that sees
  one sample at a time reports what `Hot`, `Starts`, `LastHot` and `Closed` say of the
  whole log. Its invariant, `Knows`, says that every start in the log but the
  running one's is of an episode that has ended, that the list holds the newest of
  a tale of all of these (`Tale`, `Archive`), each with the peaks and total of its
  own samples (`Tells`), and that the running episode is told up to the last sample
  and was hot `calm` samples ago. The lemmas `HotMore`, `StartsMore` and `LastKept`
  say what one more sample adds to the log and what it leaves as it was.

Only model-checked: the liveness properties (`AutoUnban`, `Converges`,
`AllAnswered`, `RevokedStops`, `PolicyArrives`, `FloodRaised`, `SolverGetsThrough`,
`NobodyStuck`), which rest on fairness and are out of the prover's reach; and the
second half of `StackNamed`, that the JA4 of the hellos of `Fingerprint_conns` tells
their stacks apart and nothing else. It fails of hellos that differ only in what
JA4 leaves out. What `Pow`
computes is used in the proofs only through its being a natural number where
`Duration` clamps it.

## 6. Not modelled, and the plan

Left out for good: rendering (dashboards, metrics exposition, block pages),
TLS set-up, the reverse proxy itself, installers, the load generator, the
training script. They keep no state of the system, or are I/O.

Left out so far, each a small part of a component that is modelled: the
control plane's audit log (a list with a cap, appended after the store operation it
tells of, in a save of its own), its login sessions (a signed expiry, checked like a
clearance) and its two limiters (`PerIPLimiter` with other parameters); the admin
API's authentication and listings; what a route rule matches; the defaults and the
validation of single fields of a config; the parsing of addresses.

Refreshing the expiry of a listed address does not move the version of the fleet
blocklist (fleet.go:24), so agents let their own ban of it run out while the server
still lists it. `Fleet` leaves time out and cannot say this; it needs the lifetimes
of both sides in one model.

Order of the work, most important behaviour first:

1. *done*: ban table, limiters, hot reload, pipeline, fleet, detector and scrubber,
   challenge, security monitor, fingerprint collector, game proxy; the abstract ban
   table and its refinement; proofs about the ban table, the limiters, the reload,
   the pipeline, the challenge and the fleet; proofs about the detector, the game
   proxy and its parser, the fingerprints, the security monitor, `SettledAgree` and
   `NoEchoLoop`.
2. proofs about what no run states yet: that the limiter in front of a request and
   the one behind the gate are the abstract limiter `Guard` takes them for.
3. an abstract agent (license, policy, list) that `Fleet` implements, with expiries;
   the audit log and the sessions of the control plane.
