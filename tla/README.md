# Control Tower in TLA+

Control Tower manages a Mihomo proxy: a daemon (`ctsvc`) starts and watches the Mihomo
process, edits the configuration Mihomo loads, updates subscriptions on a schedule and serves a
web UI; a command-line client (`ctctl`) talks to it. This directory holds TLA+ modules that
model the daemon, TLC configurations that check them on small instances, and proofs that TLAPS
checks for every instance. `PROJECT.json` lists components, runs, mutants, findings, hazards
and theorems, and maps every definition to the lines it stands for.

Paths below are relative to `src/crates/control-tower-service/src/` (S) and
`src/crates/control-tower-service-core/src/` (C).

## 1. The system

One process, several kinds of threads: `main` (startup, then a loop that sleeps 100 ms and once a
minute does a round of periodic work), the HTTP server's workers, which hand blocking work to a
pool, and threads `main` spawns (startup update, latency test). They share one `ServiceState`,
whose fields have a lock each, and files that have none: `settings.yaml`, `config.yaml`,
`profiles.yaml`, `profiles/*.yaml`, `connection_history.yaml`.

| Component | State | Operations | Talks to | What is hard | What makes it correct |
|---|---|---|---|---|---|
| Mihomo lifecycle (C `mihomo.rs`, S `service/lifecycle.rs`) | child handle, config path, breaker, all under `manager`; `start_time`, `last_config_path` under locks of their own | start, stop, restart, status, drop | HTTP handlers, IPC, profiles and settings (restart) | restart is two lock sections; Mihomo crashes at any time; the process may exit with tasks running | one Mihomo at most; no launch in a cool-down; status tells the truth; an activated config is loaded; requests return |
| Circuit breaker (C `state.rs`) | failure count, broken flag, instant | record_failure, record_success, is_allowed, remaining | lifecycle | never re-arms after its first trip | a running Mihomo has an untouched breaker |
| Rules and active configuration (C `active_config.rs`, S `api/rules_handlers.rs`, `api/rule_provider_handlers.rs`) | rules in config.yaml, in settings.yaml and in profile files | add, delete, clear, providers, merge, replace | profiles, scheduler, Mihomo reload | the boundary between custom and profile rules is not stored but searched for | config.yaml is the custom rules, then the profile's; only custom rules can be deleted |
| Profiles (S `api/profile_handlers.rs`) | items and `current` in profiles.yaml, one file each | add, activate, refresh, update, delete | active configuration, lifecycle, scheduler | refresh and update read before a download and write after it | `current` names an item; only the current profile's refresh touches config.yaml |
| Subscription scheduler (S `scheduler.rs`) | job list with next run and failure count | load, check, download, book | main loop, profile handlers | downloads outside the lock, results booked by index | attempts keep their distance; due jobs are served |
| Daemon and control socket (S `main.rs`, `cli.rs`, `ipc_server.rs`, `http_server.rs`) | SHUTDOWN, the socket file, the HTTP port | startup checks, bind, loop, stop | signals, `ctctl`, other instances | check-then-bind, stale files, crashes, a loop that does not accept | one daemon serves, its file leads to it, a signal ends it |
| Settings store (S `service/settings_ops.rs`, `service/config_ops.rs`, `api/settings_handlers.rs`) | settings.yaml and scalar keys of config.yaml | save, put, apply ports, TUN, DNS, set mode | nearly every component | read-change-write without a lock, torn reads that count as defaults | a save changes what it was asked to and nothing else |
| Automatic latency test (S `service/latency_test.rs`, `main.rs`) | AutoTestState | due check, test, publish | main loop, Mihomo's API | a flag that is set and never reset | one test at a time, repeated at its interval |
| Sessions (S `session.rs`, `api/auth_handlers.rs`) | token map, password in the settings | nonce, login, verify, logout, setup | HTTP handlers | expiry only on presentation; clock steps | a token works from login to logout or expiry |
| Connection history (S `service/clash_api.rs`, `api/connection_handlers.rs`) | last connections seen, history file | track, close, record, clear | Mihomo's API | lists applied out of order, unlocked file | a closed connection is recorded once |
| Installer, HTTPS, logs, UI, client, scripts | - | - | - | I/O and presentation | - |

`PROJECT.json` lists 40 hazards at their lines, each with the properties that guard it or a note why
no property does. Most of the notes concern races that the code loses: the models contain them, a history
variable (`calm`, `overlap`, `ordered`) marks the states they lead to, and the properties are stated of
the others.

## 2. Modules

| Module | Role | Checked by |
|---|---|---|
| `CircuitBreaker` | breaker as a value with operators, extended by the lifecycle | through `MihomoLifecycle` |
| `MihomoLifecycle` | detailed specification of the lifecycle | `Lifecycle.cfg`, `LifecycleLive.cfg`, `StatusTrip.cfg` |
| `MihomoSupervisor` | abstract specification: one supervised process | refinement, in `Lifecycle.cfg` |
| `MihomoLifecycleProofs` | theorems about the lifecycle | tlapm |
| `RulesConfig` | rules, providers, profiles, active configuration | `Rules.cfg`, `RulesCustomOnly.cfg`, `RulesCurrent.cfg` |
| `RulesConfigProofs` | theorems about the rules and profiles | tlapm |
| `SequenceFilter` | `Vec::retain` on a list, as a recursive function | through `RulesConfig` and `CronScheduler` |
| `SequenceFilterFacts` | what it yields for every list | tlapm |
| `CronScheduler` | scheduled updates | `Cron.cfg`, `CronStale.cfg` |
| `CronSchedulerProofs` | theorems about the scheduler | tlapm |
| `Daemon` | processes, socket, port, clients | `Daemon.cfg`, `DaemonAnswer.cfg` |
| `DaemonProofs` | theorems about the daemon | tlapm |
| `SettingsStore` | every writer of the settings, step by step | `Settings.cfg` |
| `SettingsStoreProofs` | its type correctness: plans as chains of steps, and what a task is made of | tlapm |
| `SettingsKeptProofs` | what was acknowledged stays stored, in config.yaml too; the memory and Mihomo follow | tlapm |
| `ConnectionHistory` | tracking and recording of connections | `History.cfg` |
| `ConnectionHistoryProofs` | theorems about the history | tlapm |
| `MCLifecycle`, `MCRules`, `MCCron`, `MCDaemon`, `MCSettings`, `MCHistory` | constants and symmetry sets for TLC | |

Definitions named `...Not`, `...NoStop`, `...Blindly` and the like, under the words "Faulty variant",
are plausible bugs; no specification uses them. Each belongs to a mutant in `PROJECT.json`: with the
definition it replaces, the named property fails, which shows that the property says something.

### 2.1 MihomoLifecycle

*State.* `child`, `child_path`, `breaker` are fields of `MihomoManager`; `lock` is the holder of
`manager.write()`; `live` and `orphans` are the operating system's view of the Mihomo processes;
`fresh` records whether the child was spawned after the last write of its config; `phase`,
`foreground`, `shutdown`, `http_arc` and `background` are `main`, its flag, `SHUTDOWN`, and which
other threads hold an `Arc<ServiceState>`. A thread has a step `pc`, an argument `path` and the step
`next` that follows a stop.

*Actions.* `Start`, `Stop`, `Activate`, `ApplySettings`, `IpcRestart`, `IpcShutdown` enter an operation.
`start` is `LockStart` (checks under the lock), `Spawn` or `StartFails`, `Settle` (the look after
100 ms); it holds the lock throughout. `stop` is one step, since it only kills and waits, and is
taken only while nobody has the lock (`MayStop`). A
restart is a stop and a start with the lock free in between. `Crash`, `Tick` and `Signal` are the
environment. `Exit`, `BindFails` and `Boot` end and restart the daemon: `Drop` kills the child only when
`main` has the last `Arc` (`LastArc`). The IPC handler is modelled as written although the main loop of
this version never calls it; its actions only add behaviours.

*Not in it.* What `start` does after it gave the lock back (selected proxy, mode, allow-lan: in
`SettingsStore`), and the content of a config file beyond "older or newer than the child".

*Properties.* `LockInv`, `OneMihomo`, `HealthyWhenRunning`, `StatusCoherent`, `ConfigApplied`; the action
properties `ForegroundExitStops` and `SpawnRespectsCooldown`; the refinement `ImplementsSupervisor`;
the liveness property `RequestsReturn`.

- `Lifecycle.cfg`: two pool tasks and `main`, two processes (the least with which two Mihomos can
  exist), three operations, breaker trip after two failures, cool-down of one tick within two: enough
  for a trip, its end and a further failure. 1.2 million states, symmetry over tasks and processes.
  `apply` is left out here because `ConfigApplied` does not hold with it: `apply_port_settings` returns
  without a restart when no path is recorded yet, although a first start may be under way, or when
  saving fails.
- `LifecycleLive.cfg`: every operation, one task and `main`, no symmetry (unsound with liveness).
- `StatusTrip.cfg` *expects a violation*: `ipc_types.rs:114` documents the remaining cool-down "if
  tripped", and `status` computes it only of a running Mihomo, whose breaker was just reset.

*Fairness.* Weak fairness of `Run`: the steps of an operation end, since requests and downloads have
timeouts. Strong fairness of `Acquire`: `parking_lot`'s lock is handed to a waiter after a bounded time
of barging, so a thread that finds the lock free again and again gets it. Nothing is assumed of
crashes, of requests, or of signals.

### 2.2 MihomoSupervisor

What a user of the lifecycle may rely on, without threads, locks, processes and counters. While the
service is up, the managed process is `stopped`, `starting` (launched and not confirmed), `failed` (it
exited before that), `running` or `crashed`; beside it the breaker is `tripped` or not and `cooling` or
not. Four promises are in its steps:

- A running Mihomo is not replaced without a stop (`Launch` finds it stopped or crashed).
- No stop takes a launched process that lives and is not confirmed: `starting` is left by `Confirm`, by the
  process's own exit (`Die`, and then `GiveUp`), or by the end of the service, and by nothing else. A
  `Kill` finds it running or crashed. This is what holding the lock through the settle window is for: with
  a stop that does not wait for it (`MayStopAnytime`) the refinement fails.
- Nothing is launched while cooling.
- The breaker trips once (`Trip` needs `~tripped`) and again only after a confirmed start.

The mapping (`SupervisorState`, `Up`, `Tripped`, `Cooling`) is at the end of `MihomoLifecycle`.

### 2.3 RulesConfig

*State.* settings.yaml (`custom`, `count`, `providers`), config.yaml (`form`, `rules`,
`rule_providers`), profiles.yaml and the profile files (`items`, `current`, `files`), downloads under
way (`jobs`). `form` is there because `set_rule_providers` without a config.yaml writes a file that is
not a mapping, which later operations treat in their own ways. A list from which an operation takes
rules is `Without` of `SequenceFilter`.

*Actions.* One per handler, with the write of the settings and the merge in one step. Each write may
fail (`io_error`) and leaves what was written before it: a merge that fails leaves the settings written; a
provider's section may be there without its rule; an activation may have moved the marker and then
lose the replacement, the count or the providers (`ActivateHalfway`); a refresh may have written the
profile's file and not config.yaml (`RefreshConfig`). Content that a script or a merge generated stays in
the profile's file also when the activation then refuses it. `refresh_profile` and `update_profile` are two steps,
`StartDownload` with what they read and the handler's name with what they write. A scheduled update
(`update_profile_subscription`) changes a profile file at any time. The content a script or a merge
produces is any content, good or broken (`MakeContent`). Rules are opaque; a provider's rule is `RuleSet(n)`.

*Properties.* `calm` records that since an activation only rule and provider operations happened, none of
them on a rule that the profile has as well, and no provider was added that was there already.
While it holds, `Layout` (config.yaml is custom rules then profile rules) and `ShownIsDeleted`
(the count shown, the count an index is checked against and the list removed from agree).
`CurrentListed` holds always.

The precondition of `calm` is not for convenience: each thing that resets it breaks `Layout`.
A refresh of the current profile does not record the new number of rules; a scheduled update
changes the file the boundary is searched with; a provider added again repeats its rule; a custom
rule that is also a profile rule moves the boundary; a profile without rules leaves no boundary to
find; a failed write leaves settings and config apart.

- `Rules.cfg`: two profiles, the second one generated, one user rule (added as often as wished), one
  provider, one download at a time; three rules in config.yaml, two of them custom, over a profile with one
  rule. So an added rule (at
  the end of the custom ones) and a provider's (at their front) meet with a profile rule in one
  config.yaml, the order of two custom rules shows, and the second of them is deleted as well as the
  first. The other content has the provider's rule too: a profile can shrink or grow, and a provider can be
  one the profile has. `FewDuringDownload` keeps to one custom rule while a download is under way (states with
  two are checked and not continued), which is enough for one that is added or taken during it.
  740 thousand states.
- `RulesCustomOnly.cfg` *expects a violation*: "Only custom rules can be deleted or cleared"
  (`rules_handlers.rs:7`). In its trace a scheduled update takes a rule out of the file of the current profile;
  config.yaml still has it, in front of the first rule that the file knows, so it counts as custom: a
  DELETE of the first rule, or a clear, which does the same there, removes a profile's rule without any
  custom rule being set.
- `RulesCurrent.cfg` *expects a violation*: a refresh decides before its download whether the profile is
  current (`profile_handlers.rs:849`, comment at 920). The property only objects when another profile is
  marked as current at the end, so the trace has an activation of that profile during the download; its
  config.yaml is then overwritten.

### 2.4 CronScheduler

*State.* profiles.yaml as far as cron goes (`items`, `cron`), `reloads` (a handler between its write
and `load_cron_jobs`), the list `jobs`, and the main loop: `mode`, `batch`, `results`, `check_due`.
Time is in minutes; `next_run` counts down, so no absolute clock grows. `stale` and `since` are
history variables.

*Actions.* `CollectDue` (first locked part), `Download` (one at a time, outside the lock),
`BookResults` (second locked part, by index), `Tick`, and the handlers.

*Properties.* `SpacedAttempts`: while the list stays, attempts at a profile are an interval apart (or the
back-off cap, when that is shorter). `DueIsServed`: a due job is downloaded and moved on, or the list
is rebuilt.

- `Cron.cfg`: two profiles, intervals 2 and 4 where only 2 is a valid schedule (the handler accepts
  more than the scheduler), cap 3, exponents up to 1: an attempt, a capped back-off and a skipped
  cron all occur. At most one handler is between write and reload. 135 thousand states.
- `CronStale.cfg` *expects a violation* of `FailuresAreOwn`: a batch overtaken by a reload is booked on
  other profiles' jobs.

*Fairness.* Weak fairness of the main loop (every download has a timeout) and of time.

### 2.5 Daemon

*State.* Per process: `pc` in `main()`, `foreground`, `shutdown`, the state of its HTTP thread. Shared:
`port`, `file` (whose listener the socket file names) and, per client, the process it waits on.
`overlap` records that two processes were starting or stopping at the same time.

*Actions.* `CheckSocket`, `RemoveStale`, `CheckPort`, `Boot`, `Unbind`, `Bind`, `Round`, `Close`, `Unlink`
are the lines of `main` and `run_server` in order; `Signal` ends a process that has no handlers yet and
sets SHUTDOWN later; `Crash` leaves the file behind. No action answers a client.

*Properties.* `AloneServes`: without overlap one process listens at most, the file leads to it, and its
HTTP server gets its port, whatever crashed before. With overlap two processes can both serve: the
check and the bind are seconds apart, because Mihomo is started between them. `ShutdownEnds` and
`ClientsReturn`: a signalled process ends, and its clients return.

- `Daemon.cfg`: two processes and two clients; a crash, a stale file and a successor need no more.
- `DaemonAnswer.cfg` *expects a violation*: `e2e_test.rs:95` expects an answer to `Status`, and the main
  loop has no call of `handle_one` (`main.rs:998`).

*Fairness.* Weak fairness of `main()` (the start of Mihomo and each round end, their requests have
timeouts) and of a client that sees its connection close. `CHECK_DEADLOCK FALSE`: when every process has
exited nothing is left to do.

### 2.6 SettingsStore

*State.* `settings` (settings.yaml), `config` (the scalar keys of config.yaml), `memory` (`api_port` and
`auto_test.enabled` of `ServiceState`), `mihomo` (what the running Mihomo loaded or was patched with),
`orphan` (the port of a Mihomo that an earlier daemon left), `known` (`last_config_path` is set), `tested`
(`auto_test.running`), `phase` of the daemon. Nothing locks the files, so a thread in `task` carries the
list of steps it has still to take (`Plan`, made of one plan per handler), each of them one access to a file, to Mihomo or to the
memory, and what it has read so far.

*Actions.* One per kind of step: `ReadConfig`, `CutConfig`, `WriteConfig`, `ReadSettings`, `MergeSettings`,
`TruncateSettings`, `WriteSettings`, `WriteClient`, `LoadSettings`, `Spawn`, `RecordPath`, `SelectProxy`,
`RestoreMode`, `PatchMode`, `PatchLan`, `Reply`. `std::fs::write` is a truncation and a write, an atomic
write (the rules subsystem, an activation) is a rename. `Begin` takes up a request: `put_settings`, the
password set-up, rules and rule providers, DNS, ports, TUN, mode, an activation, a start, and the
client's mode and select commands, whose own writes are steps of the same task. `Boot`, `Crash`,
`MihomoExits`, `ClientAlone` (the client without a daemon), `AutoTestDue` and `RunAutoTest` complete it.
A request names the field that its operation is about, a value, or none, which `SettingsAssumption` says of
the set of requests; it also says that the marks for a missing and an empty file are no contents, of either
file.
What the settings become is in operators named after the functions (`merged`, `with`, `save_mode`,
`apply_port_settings`, `Replaced`, ...), in the order in which the code reads and merges them.

*Properties.* `promise` holds what the last successful request gave a field, `applied` the fields whose
promise config.yaml has to hold as well, and `calm` says that no writer was overtaken between its read and
its write. `Touches` are the fields an operation decides and `Resets` those whose promise its start takes
back, among them the API host and the service port, which `apply_port_settings` and `apply_tun_settings`
set back to their defaults. At rest and while `calm` holds: `SettingsKept` (an acknowledged field survives later saves of
others and restarts; `mixed_port`, `https` and the client's selected proxy are not among the fields), `ConfigAgrees` (config.yaml has it too, through profile switches), `MemoryFollowsFile`,
`RunsApplied` (the Mihomo that runs has it). The precondition is needed: two writers at a time undo each
other, and a torn file reads as one without settings. Three more things take a promise back, as the code
has it: the client drops the fields it does not know, a crash may leave either value, and a profile's tun
or dns section returns when it was turned off before.

- `Settings.cfg`: fifteen requests, two of them, at the same time or one after the other, on two threads,
  with one crash or exit of Mihomo, from no config.yaml or the profile's. Two requests are what it takes
  for one to lose what the other saved; the second may also be a start or an activation. The constraint
  `Calm` cuts behaviours off at the first overtaken writer, after which nothing is claimed. 578
  thousand states. Three requests without a fault (1.5 million states), and two without the
  constraint (1.6 million), were checked with the same result and take longer than the run kept here.
  `CHECK_DEADLOCK FALSE`: the number of requests is bounded.

*Abstractions.* `ports` stands for the HTTP and SOCKS ports, `lan` for the four fields that are
hot-patched, `rules` for the fields of the rules subsystem with the number of profile rules; `api_host` is
the default or absent. The stop and the start of a restart are one step (their interleaving is in
`MihomoLifecycle`), and so is what `ensure_settings_file` writes at boot. A provider's save loads the
settings into a `ServiceState` of its own, so it does not touch `memory`. A client whose daemon
dies while it waits is not followed further. Each atomic writer has a temporary file of its own; in the
code they share one name (`active_config.rs:346`).

### 2.7 ConnectionHistory

*State.* `open` and `fresh` are Mihomo's connections, `active` and `lock` are `active_connections` and its
write lock, `file` is connection_history.yaml or `Torn`. A thread's record has its step `at`, the list
it fetched, the connections it found gone, the entry it records and the content it is about to write.

*Actions.* `Fetch` (before the lock), `Compare` (takes the lock), `RecordNext`, `Insert` (gives it back) are
`track_connections`; `ReadHistory`, `CutHistory`, `WriteHistory` are `record_closed_connection`, which a
track calls under the lock and `Close` (`close_connection`) calls without. `Open`, `Ends` and a failing
request are Mihomo's, `Crash` loses the memory and keeps the file as it is.

*Properties.* `NewestKept`: while no two recordings overlap the file is what an atomic log would be. `log`
is that abstract log. `NoneForgotten`: between requests, every connection seen since the start is
remembered or recorded. `OnlyClosed`: the history holds no open connection, and `OnceEach`: it holds each
once, and once more per close by hand; both unless a list is compared after one fetched later, or, for
the first, a close that failed is recorded all the same. Both exceptions are what the code does: the list
is fetched before the lock is taken, and `close_connection` ignores Mihomo's answer.

- `History.cfg`: two connections, two threads, three requests, one crash, a file of one entry: enough for
  a list that is overtaken, two recordings at once, a trim and a restart. Symmetry over threads and
  connections. 463 thousand states. `CHECK_DEADLOCK FALSE`: requests are bounded.

Clearing the history is left out: its route comes after the one that closes a connection, which takes
`history` for an identifier (`connection_handlers.rs:76`, `mod.rs:76-78`).

## 3. Proofs

**Lifecycle** (`MihomoLifecycleProofs`), for all sets of tasks, processes and paths and every breaker
constant, from `LifecycleAssumption` and `BreakerAssumption`:

| Theorem | Statement |
|---|---|
| `Invariance` | `Spec => []IInv` |
| `TypeCorrect` | `Spec => []TypeOK` |
| `MutualExclusion` | `Spec => []LockInv` |
| `AtMostOneManaged` | `Spec => []OneMihomo` |
| `RunningIsHealthy` | `Spec => []HealthyWhenRunning` |
| `StatusIsCoherent` | `Spec => []StatusCoherent` |
| `ActivationApplies` | without `apply`, `Spec => []ConfigApplied` |
| `SpawnsRespectCooldown` | `Spec => SpawnRespectsCooldown` |
| `ForegroundExitsStop` | `Spec => ForegroundExitStops` |
| `LifecycleImplementsSupervisor` | `Spec => ImplementsSupervisor` |

`OneMihomo` is not inductive: a spawn overwrites the handle, which is harmless only because the checks
made when the lock was taken still hold. `IInv` adds what carries them across steps: `SpawnInv` (nothing
runs and the breaker allows it from the check to the spawn), `OrphanInv` (orphans are never managed),
`PathInv` (a thread on its way to a start has a path), `PhaseInv` (what is left when the daemon is down, and
that a foreground daemon's workers are idle), `BreakerShape` and `ApplyInv`. There is one lemma per action
(`...Keeps`); `StepIInv` splits `Next` and `Invariance` puts them together.

The action properties follow from `IInv` of the state before. The refinement needs two more
things. When a start is confirmed 100 ms after its spawn, the supervisor may not be cooling: `SettleInv`
says that the breaker still allows a start then, because only the holder of the lock records failures. And
a failure that is booked has to be a trip of an untripped supervisor or nothing at all (`FailureTrips`).
`SupervisorStep` then takes each action to a step of the supervisor or to none; a stop is one because the
lock is free, so that no start is settling.

**Connection history** (`ConnectionHistoryProofs`), for all sets of connections and threads, every length
of the file and any number of requests and crashes, from `HistoryAssumption` and `IdleAssumption`:

| Theorem | Statement |
|---|---|
| `HistoryInvariance` | `Spec => []IInv` |
| `HistoryTypeCorrect` | `Spec => []TypeOK` |
| `NewestKeptAlways` | `Spec => []NewestKept` |
| `NoneForgottenAlways` | `Spec => []NoneForgotten` |
| `OnlyClosedAlways` | `Spec => []OnlyClosed` |
| `OnceEachAlways` | `Spec => []OnceEach` |

The strengthening has a part for each property. `LogInv`: a thread whose recording was not crossed carries
exactly the log with its entry in front, trimmed; that trimming twice is trimming once is
`TrimmedTwice`. `Accounted`: what left the memory is in the log or in the hands of a recording thread.
`OpenNotKept` (nothing that is open is in the file or on its way there) is the hard one, since a list is
old by the time it is compared. `Waiting` says of each thread that waits for the lock and was not
overtaken that its list has everything that is both open and remembered, and that a thread whose list knows
of an open connection more does not hold the lock, and will mark it as overtaken if it takes the lock
first. `Known` (a connection that is not opened yet is nowhere) and `Holder` (the comparison and what
follows are under the lock) support it.

`OnceEach` counts. `CountInv` says that the records of a connection in the log, with the claims to record
it that threads still hold, are at most its closes by hand, and one more only when it is `Over`: closed, in
no list that can still be compared in order, and remembered at most by a thread that is about to forget it. A
connection that is over cannot be found gone a second time. `GoneInv` says that what was found gone is
recorded by the holder of the lock, each once; `Pairs` and `Missing`, that of two threads that wait, the one
that fetched last lacks only what has ended, and so does one that was not overtaken, of what the daemon
remembers.

**Rules** (`RulesConfigProofs`), for all sets of profiles, contents, rules and providers, every bound
and any number of downloads, from `RulesAssumption`:

| Theorem | Statement |
|---|---|
| `TypeOKAlways` | `Spec => []TypeOK` |
| `CurrentListedAlways` | `Spec => []CurrentListed` |
| `LayoutAlways` | `Spec => []Layout` |
| `ShownIsDeletedAlways` | `Spec => []ShownIsDeleted` |

`CurrentListed` is inductive as it stands: only adding, activating and deleting a profile change the list
or the marker. The other two rest on `CalmInv`: while `calm` holds, config.yaml is the custom rules and
then those of a current profile that shares none with them, and the settings know how many the profile
has. Sharing none is what makes the search for the boundary find it (`DetectedBoundary`). The
attempt to prove it with the history variable as it was first written showed what it had left out: adding a
rule, or a provider, that the profile has too moves the boundary, whatever else happens.

**Scheduler** (`CronSchedulerProofs`), for all sets of profiles, schedules and limits, from
`CronAssumption`: `TypeOKAlways`; `SpacedAttemptsAlways`, `Spec => SpacedAttempts`; and
`FailuresAreOwnUnlessRebuilt`, which says that the violation `CronStale.cfg` finds needs a list that was
rebuilt under a batch. `SpacedInv` adds up the time since a profile's last attempt and the time its job
still waits: together they reach the spacing, except for a job that was tried and is not booked yet
(`Tried`). A batch on a list that was not rebuilt names jobs of that list that are due, each once, none of
them tried (`BatchOwn`).

**Lists** (`SequenceFilterFacts`). Both modules above take elements out of lists. The library's `SelectSeq`
is a `RECURSIVE` operator, which the prover cannot unfold, so they use the recursive function `Without`.
What it yields for every list is proved by an induction that is a statement about sets
(`InductiveSet`): the intervals `0..x`, ordered by inclusion, are well-founded, so a set of numbers has
a least element. `WithoutType`, `WithoutConcat`, `WithoutInjective` and the facts about `Min`, `Max` and powers
of two come from it.

**Settings store** (`SettingsStoreProofs`, `SettingsKeptProofs`), for all sets of values, threads and requests
that fit `SettingsAssumption`, every profile and every first config.yaml, any number of requests,
crashes and exits:

| Theorem | Statement |
|---|---|
| `TypeOKAlways` | `Spec => []TypeOK` |
| `SettingsKeptAlways` | `Spec => []SettingsKept` |
| `MemoryFollowsFileAlways` | `Spec => []MemoryFollowsFile` |
| `ConfigAgreesAlways` | `Spec => []ConfigAgrees` |
| `RunsAppliedAlways` | `Spec => []RunsApplied` |

A task carries the steps it has still to take, so its type depends on the plan it follows. `Whole` says that
what is left is a chain: each step is followed by one of its `Successors`, the last is `reply` or
`finish`, and the client writes once. Every plan is one (`PlanWhole`), the tail of one is one (`TailIs`), and
with `Ready`, what a task has read fits the step it is at.

`SettingsKept` speaks of states at rest, and neither settings.yaml nor any single task says between two
steps what will be there at rest: a file that was truncated says nothing, a task may hold what another
has changed. `Sound` says that, while `calm` holds, there is a whole file `b` that holds every promise
(`Held(b)`): the file is `b`, or it is empty and somebody is about to write it (`FileIs`). A task that was
not overtaken agrees with `b` on everything but the fields its save decides (`Agrees`, `ClientAgrees`),
nobody else touches those (`Apart`) or was promised them (`PromisesOwn`), and a task that has saved its
value finds it in `b` (`SavedOk`). The memory is that of `b` but for the fields that a writer has still to load
(`Remembered`). There is one lemma per action (`...Sound`). A step that leaves settings.yaml alone keeps
`b` (`AsideHeld`), a truncation too, and a write replaces it by what was written (`WriteSound`); every other
task that holds the old content is marked as overtaken by then (`OtherOk`), and the mark ends `calm`
when that task writes. The proof showed two things the model had left out: that applying ports or TUN
resets the API host as well as the service port, and that two arms of a CASE in it overlapped.

`ConfigAgrees` and `RunsApplied` have one more invariant, `ConfigSound`, which leans on `Sound`: a profile
switch takes the ports from settings.yaml and has to find the promised ones there. While `calm` holds, there
is a whole file `c` that has every applied value (`AppliedIn`): config.yaml is `c`, or it was truncated and
somebody is about to write it (`ConfigIs`). The running Mihomo has those values too (`AppliedRuns`). Of each
task, `Applies` says four things: what it is about to write differs from `c` only in what it sets or, at a
profile switch, in what the new profile decides (`EditFresh`, unless it was overtaken); what it has written
is in `c` (`EditedOk`); once it has restarted Mihomo, Mihomo has its ports or its tun section (`Runs`); and
the field it has still to acknowledge is not counted as applied, the mode only with the value it sets
(`Own`). A restart can be skipped for want of a recorded path, so the invariant also says that a Mihomo that
runs without one was started by a task about to record it (`KnownInv`, with `RecordsInv` for the order of
the steps, and `DownInv`). TLC checked the whole of `ConfigSound` on the 578 thousand states of
`Settings.cfg`. The structural lemmas both invariants use, such as which steps a plan passes before it
replies and what one step leaves of a task, are in `SettingsStoreProofs`; the lemmas per action are named
`...Sound` for settings.yaml and `...Config` for config.yaml. One assumption was missing: that a missing or
empty config.yaml is none of the files with contents, as `SettingsAssumption` already said of settings.yaml.

**Daemon** (`DaemonProofs`), for all sets of processes and clients, from `NoneAssumption`:
`DaemonInvariance`, `DaemonTypeCorrect`, `DaemonAlone` (`Spec => []AloneServes`). `AloneServes` becomes
inductive with `OneMoves` (without overlap one process moves at a time) and `CheckedIsAlone` (a process
past its socket check has no listener beside it, and none can come up).

**Model-checked only.**

- Liveness (`RequestsReturn`, `DueIsServed`, `ShutdownEnds`, `ClientsReturn`), which is out of the prover's
  reach.

Every invariant and every action property that a passing run checks is the statement of a theorem.

## 4. Where code and comments part without a run

Seen while modelling; the models follow the code, and no run is devoted to them.

- `save_mode` says it preserves all other settings; it drops `selected_proxy`, which is the client's
  key. The client's `set_mode` and `select` in turn drop the fields only the daemon knows.
- `put_settings` passes `mixed_port` on and `save_settings` has no line for it, so it is never stored.
- `apply_port_settings` and `apply_tun_settings` set `service_port` back to its default.
- `lifecycle.rs:47-50` re-sends allow-lan after a start so that config.yaml decides and not the stored
  value; every later `set_mode` goes through `save_settings`, which sends the stored one.
- `active_config.rs:1-5` and `24-26` call its store the one place that writes config.yaml;
  `config_ops.rs` writes it with `std::fs::write`.
- A config.yaml that is empty or null is written back as it is, and the request succeeds.
- A changed `api_port` reaches the running Mihomo only with the next change of ports or activation; until
  then the daemon calls a port nobody listens on.
- The latency test runs once per daemon, because `running` is never set back.
- `record_closed_connection` reads the length of the history under `connection_history`; the settings are
  stored with `connection-history`, so a length that was set there has no effect and 500 applies.
- Core's `profiles.rs:3-6` wants one definition shared by daemon and client to avoid drift; the client's
  `save_profiles` has its own and drops a profile's type, script and merge. Its `activate` leaves out
  custom rules and providers, its `remove` always deletes config.yaml, its `update` saves the list it read
  before the download, and a list that cannot be read is an empty one.

## 5. Not modelled, and what is left

- *Sessions.* A map under one lock, each operation one section of it: there is nothing to interleave. The
  boundary in `session.rs:34` (an unsigned difference of wall-clock times) is listed as a hazard.
- *The client's rule and profile commands.* They edit the daemon's files directly. Composed with
  `RulesConfig`, where downloads are under way at the same time, they go beyond what can be
  checked exhaustively; `SettingsStore` has the client's mode and select commands.
- *profiles.yaml as reads and writes of their own.* `RulesConfig` and `CronScheduler` take each access
  as one step; two at once undo each other as in `SettingsStore`.
- *Proxy groups* forward requests to Mihomo and keep no state beyond the selection.
- *Installer, HTTPS certificates, logs, web UI and data transfer objects, argument parsing and printing,
  scripts.* No state that a later step depends on; where a failure matters it is a choice of an
  action (`StartFails`, `HttpEnds`).

Next, in this order: the temporary file that atomic writers
share, as state; profiles.yaml in steps, with the client's profile commands on a small list.
