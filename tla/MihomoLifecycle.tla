-------------------------- MODULE MihomoLifecycle --------------------------
(***************************************************************************)
(* The lifecycle of the Mihomo child process: MihomoManager of             *)
(* control-tower-service-core/src/mihomo.rs behind the `manager` lock of   *)
(* ServiceState (service/lifecycle.rs), used by the tasks that the HTTP    *)
(* handlers hand to the blocking pool (Workers), and by main, which        *)
(* auto-starts Mihomo at boot and afterwards runs the IPC handler (Main).  *)
(*                                                                         *)
(* The IPC handler is modelled as ipc_server.rs has it and its tests drive *)
(* it; the main loop of this version does not call it (see Daemon), so the *)
(* Ipc actions only add behaviours.                                        *)
(*                                                                         *)
(* A thread runs one operation at a time.  The sections under the manager  *)
(* lock are `start` (steps start, spawn, settle) and `stop` (one step: it  *)
(* only kills and waits).  Time, a crash of Mihomo, and every other thread *)
(* may come between two steps.                                             *)
(***************************************************************************)
EXTENDS CircuitBreaker

CONSTANTS Workers,     \* tasks of the HTTP server's blocking pool
          Main,        \* the main thread
          Procs,       \* identities of operating-system processes
          Paths,       \* configuration paths a client may name
          ActivePath,  \* active_config_path: config.yaml beside the executable
          HttpOps,     \* the HTTP operations the clients of this instance issue
          MaxTime,     \* bound on the clock
          NoThread, NoProc, NoPath

AllHttpOps == {"start", "stop", "activate", "apply"}

ASSUME LifecycleAssumption ==
  /\ ActivePath \in Paths
  /\ HttpOps \subseteq AllHttpOps
  /\ MaxTime \in Nat
  /\ Main \notin Workers
  /\ NoThread \notin Workers \cup {Main}
  /\ NoProc \notin Procs
  /\ NoPath \notin Paths

VARIABLES
  phase,            \* "boot": main before the loop, "serve", "down": exited
  foreground,       \* --foreground: no HTTP server thread
  shutdown,         \* the SHUTDOWN flag
  http_arc,         \* the HTTP thread holds its Arc<ServiceState>
  background,       \* so does a thread main spawned: latency test, startup update
  lock,             \* holder of manager.write()
  child,            \* MihomoManager::child
  child_path,       \* MihomoManager::config_path
  fresh,            \* the child was spawned after the last write to its config
  live,             \* the Mihomo processes that are alive (operating system)
  orphans,          \* those of them an earlier service process left behind
  breaker,          \* MihomoManager::circuit_breaker
  now,              \* monotonic clock
  start_time,       \* start_time.is_some()
  last_config_path, \* last_config_path
  files,            \* the configuration files that exist
  pc, path, next    \* per thread: step, config_path argument, step after stop

serviceVars == <<phase, foreground, shutdown, http_arc, background>>
handleVars  == <<child, child_path, live, orphans>>
threadVars  == <<pc, path, next>>
vars == <<serviceVars, lock, handleVars, fresh, breaker, now, start_time,
          last_config_path, files, threadVars>>

Threads == Workers \cup {Main}

Steps == {"idle", "start", "spawn", "settle", "stop", "read_path",
          "set_path", "applied", "set_shutdown"}

TypeOK ==
  /\ phase \in {"boot", "serve", "down"}
  /\ foreground \in BOOLEAN
  /\ shutdown \in BOOLEAN
  /\ http_arc \in BOOLEAN
  /\ background \in BOOLEAN
  /\ lock \in Threads \cup {NoThread}
  /\ child \in Procs \cup {NoProc}
  /\ child_path \in Paths \cup {NoPath}
  /\ fresh \in BOOLEAN
  /\ live \in SUBSET Procs
  /\ orphans \in SUBSET Procs
  /\ breaker \in Breaker
  /\ now \in Nat
  /\ start_time \in BOOLEAN
  /\ last_config_path \in Paths \cup {NoPath}
  /\ files \in SUBSET Paths
  /\ pc \in [Threads -> Steps]
  /\ path \in [Threads -> Paths \cup {NoPath}]
  /\ next \in [Threads -> {"idle", "start", "read_path", "set_shutdown"}]

-----------------------------------------------------------------------------
(***************************************************************************)
(* Reading the manager.                                                    *)
(***************************************************************************)
\* try_wait on the handle: a handle whose process has exited is not running.
is_running == child \in live

\* The handle's id, also when the process behind it has exited.
pid == child

\* ServiceState::status, computed under the manager lock.
status ==
  [running   |-> is_running,
   pid       |-> pid,
   uptime    |-> is_running /\ start_time,
   config    |-> last_config_path,
   remaining |-> IF is_running THEN remaining_cooldown_secs(breaker, now)
                               ELSE NoInstant,
   state     |-> IF ~is_running THEN "NotRunning"
                 ELSE IF remaining_cooldown_secs(breaker, now) # NoInstant
                        THEN "CircuitBroken" ELSE "Running"]

-----------------------------------------------------------------------------
(***************************************************************************)
(* Boot: ServiceState::new, then main starts Mihomo itself when config.yaml *)
(* exists; the HTTP thread and the main loop come after that.              *)
(***************************************************************************)
BootStep(fs) == IF ActivePath \in fs THEN "start" ELSE "idle"

Init ==
  /\ phase = "boot"
  /\ foreground \in BOOLEAN
  /\ shutdown = FALSE
  /\ http_arc = FALSE
  /\ background = FALSE
  /\ lock = NoThread
  /\ child = NoProc
  /\ child_path = NoPath
  /\ fresh = FALSE
  /\ live = {}
  /\ orphans = {}
  /\ breaker = NewBreaker
  /\ now = 0
  /\ start_time = FALSE
  /\ last_config_path = NoPath
  /\ files \in SUBSET Paths
  /\ pc = [t \in Threads |-> IF t = Main THEN BootStep(files) ELSE "idle"]
  /\ path = [t \in Threads |-> IF t = Main THEN ActivePath ELSE NoPath]
  /\ next = [t \in Threads |-> "idle"]

\* An HTTP server that cannot bind its port ends, and the service goes on.
Serve ==
  /\ phase = "boot"
  /\ pc[Main] = "idle"
  /\ phase' = "serve"
  /\ shutdown' = FALSE
  /\ http_arc' \in {~foreground, FALSE}
  /\ background' \in BOOLEAN
  /\ UNCHANGED <<foreground, lock, handleVars, fresh, breaker, now, start_time,
                 last_config_path, files, threadVars>>

-----------------------------------------------------------------------------
(***************************************************************************)
(* Entering an operation.                                                  *)
(***************************************************************************)
Goto(t, step) == pc' = [pc EXCEPT ![t] = step]

\* Run `stop` and go on with `step`.
StopThen(t, step) ==
  /\ Goto(t, "stop")
  /\ next' = [next EXCEPT ![t] = step]

HttpRequest(t, op) == http_arc /\ t \in Workers /\ pc[t] = "idle" /\ op \in HttpOps

IpcRequest(t) == phase = "serve" /\ t = Main /\ pc[t] = "idle"

NoChangeButThreads ==
  UNCHANGED <<serviceVars, lock, handleVars, fresh, breaker, now, start_time,
              last_config_path, files>>

\* POST /api/service/start with the active path, IPC Start with any path.
Start(t, p) ==
  /\ \/ HttpRequest(t, "start") /\ p = ActivePath
     \/ IpcRequest(t)
  /\ Goto(t, "start")
  /\ path' = [path EXCEPT ![t] = p]
  /\ UNCHANGED next
  /\ NoChangeButThreads

\* POST /api/service/stop and IPC Stop.
Stop(t) ==
  /\ HttpRequest(t, "stop") \/ IpcRequest(t)
  /\ StopThen(t, "idle")
  /\ UNCHANGED path
  /\ NoChangeButThreads

\* IPC Restart: stops before it knows whether there is a path to start with.
IpcRestart(t) ==
  /\ IpcRequest(t)
  /\ StopThen(t, "read_path")
  /\ UNCHANGED path
  /\ NoChangeButThreads

\* IPC Shutdown: stop, then raise the flag.
IpcShutdown(t) ==
  /\ IpcRequest(t)
  /\ StopThen(t, "set_shutdown")
  /\ UNCHANGED path
  /\ NoChangeButThreads

\* config.yaml gets new content: what a child started from it loaded is stale.
WriteActiveConfig ==
  /\ files' = files \cup {ActivePath}
  /\ fresh' = (fresh /\ child_path # ActivePath)
  /\ UNCHANGED <<serviceVars, lock, handleVars, breaker, now, start_time,
                 last_config_path>>

\* Activating (or updating) the current profile replaces config.yaml and goes
\* on to restart_with_config.
Activate(t) ==
  /\ HttpRequest(t, "activate")
  /\ WriteActiveConfig
  /\ Goto(t, "set_path")
  /\ UNCHANGED <<path, next>>

\* apply_port_settings / apply_tun_settings edit an existing config.yaml, and
\* decide about the restart in a later step.
ApplySettings(t) ==
  /\ HttpRequest(t, "apply")
  /\ ActivePath \in files
  /\ WriteActiveConfig
  /\ Goto(t, "applied")
  /\ UNCHANGED <<path, next>>

-----------------------------------------------------------------------------
(***************************************************************************)
(* Steps outside the manager lock.                                         *)
(***************************************************************************)
\* Faulty variant: restart_with_config starts without stopping first.
SetLastPathNoStop(t) ==
  /\ pc[t] = "set_path"
  /\ last_config_path' = ActivePath
  /\ path' = [path EXCEPT ![t] = ActivePath]
  /\ Goto(t, "start")
  /\ UNCHANGED <<serviceVars, lock, handleVars, fresh, breaker, now, start_time,
                 files, next>>

\* restart_with_config records the path before it stops and starts.
SetLastPath(t) ==
  /\ pc[t] = "set_path"
  /\ last_config_path' = ActivePath
  /\ path' = [path EXCEPT ![t] = ActivePath]
  /\ StopThen(t, "start")
  /\ UNCHANGED <<serviceVars, lock, handleVars, fresh, breaker, now, start_time,
                 files>>

\* restart_mihomo, reached from apply_* only when there is a last path.
restart_mihomo(t) ==
  /\ last_config_path # NoPath
  /\ path' = [path EXCEPT ![t] = last_config_path]
  /\ StopThen(t, "start")

\* apply_*: without a last path Mihomo is taken to be down and nothing is
\* restarted; a failing save_settings also returns before the restart.
ApplyRestart(t) ==
  /\ pc[t] = "applied"
  /\ \/ restart_mihomo(t)
     \/ Goto(t, "idle") /\ UNCHANGED <<path, next>>
  /\ NoChangeButThreads

\* IPC Restart after its stop.
ReadLastPath(t) ==
  /\ pc[t] = "read_path"
  /\ \/ /\ last_config_path = NoPath
        /\ Goto(t, "idle")
        /\ UNCHANGED path
     \/ /\ last_config_path # NoPath
        /\ Goto(t, "start")
        /\ path' = [path EXCEPT ![t] = last_config_path]
  /\ UNCHANGED next
  /\ NoChangeButThreads

SetShutdown(t) ==
  /\ pc[t] = "set_shutdown"
  /\ shutdown' = TRUE
  /\ Goto(t, "idle")
  /\ UNCHANGED <<phase, foreground, http_arc, background, lock, handleVars, fresh, breaker, now,
                 start_time, last_config_path, files, path, next>>

-----------------------------------------------------------------------------
(***************************************************************************)
(* Sections under the manager lock.                                        *)
(***************************************************************************)
\* Faulty variant: the handle is dropped without killing the process.
KilledNot == live

\* Killing the process behind a handle and waiting for it.
Killed == live \ {child}

\* Faulty variant: stop does not wait for a start to give the lock back.
MayStopAnytime == child \in Procs \cup {NoProc}

\* manager.write() of a stop.
MayStop == lock = NoThread

\* ServiceState::stop.
StopStep(t) ==
  /\ pc[t] = "stop"
  /\ MayStop
  /\ live' = Killed
  /\ child' = NoProc
  /\ start_time' = FALSE
  /\ Goto(t, next[t])
  /\ UNCHANGED <<serviceVars, lock, child_path, orphans, fresh, breaker, now,
                 last_config_path, files, path, next>>

\* Faulty variant: start does not look whether Mihomo is running.
MayStartBlindly == is_allowed(breaker, now)

MayStart == ~is_running /\ is_allowed(breaker, now)

\* ServiceState::start takes the lock; a running Mihomo or an open breaker ends
\* it there and then.
LockStart(t) ==
  /\ pc[t] = "start"
  /\ lock = NoThread
  /\ \/ /\ ~MayStart
        /\ Goto(t, "idle")
        /\ UNCHANGED lock
     \/ /\ MayStart
        /\ Goto(t, "spawn")
        /\ lock' = t
  /\ UNCHANGED <<serviceVars, handleVars, fresh, breaker, now, start_time,
                 last_config_path, files, path, next>>

\* Faulty variant: the lock is not given back.
ReleaseNot(t) ==
  /\ Goto(t, "idle")
  /\ UNCHANGED lock

\* The guard goes out of scope when start returns an error.
Release(t) ==
  /\ lock' = NoThread
  /\ Goto(t, "idle")

\* No binary (and no download), no config file, or spawn fails: a failure is
\* recorded.  Opening the log file, after the config was found, fails: none is.
StartFails(t) ==
  /\ pc[t] = "spawn"
  /\ \/ breaker' = record_failure(breaker, now)
     \/ path[t] \in files /\ UNCHANGED breaker
  /\ Release(t)
  /\ UNCHANGED <<serviceVars, handleVars, fresh, now, start_time,
                 last_config_path, files, path, next>>

\* A new handle replaces the old one.
Spawn(t, p) ==
  /\ pc[t] = "spawn"
  /\ path[t] \in files
  /\ p \in Procs \ (live \cup {child})
  /\ child' = p
  /\ child_path' = path[t]
  /\ live' = live \cup {p}
  /\ fresh' = TRUE
  /\ Goto(t, "settle")
  /\ UNCHANGED <<serviceVars, lock, orphans, breaker, now, start_time,
                 last_config_path, files, path, next>>

\* Faulty variant: the config path is not remembered.
RecordStartTimeOnly(t) ==
  /\ start_time' = TRUE
  /\ UNCHANGED last_config_path

\* What a successful start leaves behind, still under the lock.
RecordStart(t) ==
  /\ start_time' = TRUE
  /\ last_config_path' = path[t]

\* After 100 ms: a process that is gone is a failure; one that is there makes
\* the start succeed.  Both give the lock back.
Settle(t) ==
  /\ pc[t] = "settle"
  /\ \/ /\ ~is_running
        /\ child' = NoProc
        /\ breaker' = record_failure(breaker, now)
        /\ UNCHANGED <<start_time, last_config_path>>
     \/ /\ is_running
        /\ breaker' = record_success(breaker)
        /\ RecordStart(t)
        /\ UNCHANGED child
  /\ Release(t)
  /\ UNCHANGED <<serviceVars, child_path, live, orphans, fresh, now, files, path, next>>

-----------------------------------------------------------------------------
(***************************************************************************)
(* The environment: Mihomo exits by itself, time passes, signals.          *)
(***************************************************************************)
Crash(p) ==
  /\ p \in live
  /\ live' = live \ {p}
  /\ orphans' = orphans \ {p}
  /\ UNCHANGED <<serviceVars, lock, child, child_path, fresh, breaker, now,
                 start_time, last_config_path, files, threadVars>>

Tick ==
  /\ now < MaxTime
  /\ now' = now + 1
  /\ UNCHANGED <<serviceVars, lock, handleVars, fresh, breaker, start_time,
                 last_config_path, files, threadVars>>

\* SIGTERM or SIGINT: setup_signal_handlers' closure.
Signal ==
  /\ phase = "serve"
  /\ ~shutdown
  /\ shutdown' = TRUE
  /\ UNCHANGED <<phase, foreground, http_arc, background, lock, handleVars, fresh, breaker, now,
                 start_time, last_config_path, files, threadVars>>

\* The HTTP framework handles the same signal and lets go of its state.
HttpExit ==
  /\ shutdown
  /\ http_arc
  /\ http_arc' = FALSE
  /\ UNCHANGED <<phase, foreground, shutdown, background, lock, handleVars, fresh, breaker, now,
                 start_time, last_config_path, files, threadVars>>

\* The main loop spawns a latency test; that or the startup update ends.
Background ==
  /\ phase = "serve"
  /\ background' = ~background
  /\ UNCHANGED <<phase, foreground, shutdown, http_arc, lock, handleVars, fresh,
                 breaker, now, start_time, last_config_path, files, threadVars>>

\* Faulty variant: somebody always keeps a reference.
LastArcNever == FALSE

\* Main drops its Arc; it is the last one only if no other thread has one left.
LastArc == ~http_arc /\ ~background /\ \A t \in Workers : pc[t] = "idle"

\* main returns: MihomoManager::drop runs only with the last Arc, and every
\* other thread ends with the process.
Leave(last) ==
  /\ phase' = "down"
  /\ http_arc' = FALSE
  /\ background' = FALSE
  /\ live' = IF last THEN Killed ELSE live
  /\ orphans' = live'
  /\ lock' = NoThread
  /\ child' = NoProc
  /\ pc' = [t \in Threads |-> "idle"]
  /\ UNCHANGED <<foreground, shutdown, child_path, fresh, breaker, now,
                 start_time, last_config_path, files, path, next>>

Exit ==
  /\ phase = "serve"
  /\ shutdown
  /\ pc[Main] = "idle"
  /\ Leave(LastArc)

\* The IPC socket cannot be bound: main returns with the HTTP thread running.
BindFails ==
  /\ phase = "boot"
  /\ pc[Main] = "idle"
  /\ Leave(foreground)

\* The service is started again, with a new ServiceState.
Boot ==
  /\ phase = "down"
  /\ phase' = "boot"
  /\ foreground' \in BOOLEAN
  /\ shutdown' = FALSE
  /\ child_path' = NoPath
  /\ fresh' = FALSE
  /\ breaker' = NewBreaker
  /\ start_time' = FALSE
  /\ last_config_path' = NoPath
  /\ pc' = [pc EXCEPT ![Main] = BootStep(files)]
  /\ path' = [t \in Threads |-> IF t = Main THEN ActivePath ELSE NoPath]
  /\ next' = [t \in Threads |-> "idle"]
  /\ UNCHANGED <<http_arc, background, lock, child, live, orphans, now, files>>

-----------------------------------------------------------------------------
Enter(t) ==
  \/ \E p \in Paths : Start(t, p)
  \/ Stop(t)
  \/ IpcRestart(t)
  \/ IpcShutdown(t)
  \/ Activate(t)
  \/ ApplySettings(t)

\* The steps of an operation that wait for nobody.
Run(t) ==
  \/ SetLastPath(t)
  \/ ApplyRestart(t)
  \/ ReadLastPath(t)
  \/ SetShutdown(t)
  \/ StartFails(t)
  \/ \E p \in Procs : Spawn(t, p)
  \/ Settle(t)

\* The steps that wait for the manager lock.
Acquire(t) == StopStep(t) \/ LockStart(t)

Environment == (\E p \in Procs : Crash(p)) \/ Tick \/ Signal

Next ==
  \/ \E t \in Threads : Enter(t) \/ Run(t) \/ Acquire(t)
  \/ Environment
  \/ Serve
  \/ HttpExit
  \/ Background
  \/ Exit
  \/ BindFails
  \/ Boot

Spec == Init /\ [][Next]_vars

\* A thread that can go on does; parking_lot's RwLock hands the lock over to a
\* waiter after at most half a millisecond of barging, hence SF on Acquire.
Fairness ==
  \A t \in Threads : WF_vars(Run(t)) /\ SF_vars(Acquire(t))

FairSpec == Spec /\ Fairness

-----------------------------------------------------------------------------
(***************************************************************************)
(* Properties.                                                             *)
(***************************************************************************)
\* A thread is between its spawn and the check that the process stayed alive.
Settling == \E t \in Threads : pc[t] = "settle"

\* The manager lock covers every start from the is_running check to the settled
\* result: exactly the holder is inside, so two tasks never both launch Mihomo.
LockInv == \A t \in Threads : pc[t] \in {"spawn", "settle"} <=> lock = t

\* However starts, stops, restarts and crashes interleave, every Mihomo alive is
\* the one behind the manager's handle, or was left by an earlier service
\* process: no operation of this service overwrites the handle of a live child.
OneMihomo == live \subseteq {child} \cup orphans

\* In foreground mode, unless a background thread is at work, main holds the last
\* Arc when it returns, so Drop stops its Mihomo: such an exit leaves no process
\* that was not an orphan before.
ForegroundExitStops ==
  [][phase' = "down" /\ foreground /\ ~background => orphans' \subseteq orphans]_vars

\* Outside the settle window a running Mihomo comes with an untouched breaker:
\* the start that produced it reset the failure count, and no failing attempt
\* is recorded while it runs.
HealthyWhenRunning == is_running /\ ~Settling => breaker = NewBreaker

\* What status reports of a running Mihomo is complete: outside a start it has an
\* uptime and a config path, whoever started it and in whatever order.
StatusCoherent == is_running /\ lock = NoThread => status.uptime /\ status.config # NoPath

\* Activating a profile takes effect: a Mihomo that runs on content of config.yaml
\* older than the last write is about to be stopped by the task that wrote it,
\* even when another task's restart overlaps the write.
ConfigApplied ==
  is_running /\ ~fresh => \E t \in Threads : pc[t] \in {"set_path", "applied", "stop"}

\* No process is spawned during the breaker's cool-down, although the binary may
\* be downloaded between the check and the spawn.
SpawnRespectsCooldown ==
  [][\A p \in Procs : p \in live' \ live => remaining_cooldown_secs(breaker, now) = NoInstant]_vars

\* Every request returns, whatever the other tasks keep asking for and whenever
\* Mihomo crashes: the lock is given back on every path.
RequestsReturn == \A t \in Threads : pc[t] # "idle" ~> pc[t] = "idle"

\* ipc_types.rs documents the status field as the remaining cool-down "if
\* tripped, else absent".  It is computed only of a running Mihomo, whose breaker
\* has just been reset, so a tripped breaker is never reported.
StatusReportsTrip ==
  lock = NoThread => status.remaining = remaining_cooldown_secs(breaker, now)

(***************************************************************************)
(* The lifecycle implements the supervisor.                                *)
(***************************************************************************)
SupervisorState ==
  IF child = NoProc THEN "stopped"
  ELSE IF Settling THEN IF is_running THEN "starting" ELSE "failed"
  ELSE IF is_running THEN "running"
  ELSE "crashed"

Up == phase # "down"
Tripped == breaker.is_broken
Cooling == remaining_cooldown_secs(breaker, now) # NoInstant

supervisorVars == <<Up, SupervisorState, Tripped, Cooling>>

Supervisor == INSTANCE MihomoSupervisor
                WITH up <- Up, st <- SupervisorState, tripped <- Tripped, cooling <- Cooling

\* Seen from outside, the locked, threaded lifecycle behaves as one supervisor.
\* A running Mihomo is never replaced without being stopped.  A launched one
\* that is not confirmed yet leaves that state by its start's confirmation, by
\* its own exit or by the end of the service, never by a stop.  No launch
\* happens during a cool-down, and each trip of the breaker has only one, until
\* a start is confirmed.
ImplementsSupervisor == Supervisor!Spec

(***************************************************************************)
(* The inductive strengthening that the proofs use.                        *)
(***************************************************************************)
\* When the service is down nothing of it is left; only a daemon that serves
\* has an HTTP thread, and only such a service has busy workers.
PhaseInv ==
  /\ phase = "down" => /\ child = NoProc
                       /\ lock = NoThread
                       /\ \A t \in Threads : pc[t] = "idle"
  /\ http_arc => phase = "serve" /\ ~foreground
  /\ foreground => \A t \in Workers : pc[t] = "idle"

\* Orphans are alive and never managed.
OrphanInv == orphans \subseteq live /\ child \notin orphans

\* A thread on its way to a start has a path to start with.
PathInv ==
  \A t \in Threads :
     \/ pc[t] \in {"start", "spawn", "settle"}
     \/ pc[t] = "stop" /\ next[t] = "start"
     => path[t] # NoPath

\* What the checks under the lock established still holds at the spawn, and a
\* settling thread has a handle.
SpawnInv ==
  \A t \in Threads :
     /\ pc[t] = "spawn" => ~is_running /\ is_allowed(breaker, now)
     /\ pc[t] = "settle" => child # NoProc

\* Only apply_port_settings and apply_tun_settings reach their second half.
ApplyInv == \A t \in Threads : pc[t] = "applied" => "apply" \in HttpOps

IInv ==
  /\ TypeOK
  /\ LockInv
  /\ PhaseInv
  /\ OrphanInv
  /\ OneMihomo
  /\ PathInv
  /\ BreakerShape(breaker)
  /\ SpawnInv
  /\ ApplyInv
  /\ HealthyWhenRunning
  /\ StatusCoherent
  /\ "apply" \notin HttpOps => ConfigApplied
=============================================================================
