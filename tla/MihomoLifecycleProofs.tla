----------------------- MODULE MihomoLifecycleProofs -----------------------
(***************************************************************************)
(* Proofs about MihomoLifecycle, for any number of workers, processes and  *)
(* paths, any clock bound and any breaker limits.                          *)
(***************************************************************************)
EXTENDS MihomoLifecycle, TLAPS

-----------------------------------------------------------------------------
(***************************************************************************)
(* The circuit breaker.                                                    *)
(***************************************************************************)
\* record_failure keeps a breaker well formed: it never counts beyond the limit
\* because it does not count while broken.
LEMMA RecordFailureShape ==
  ASSUME NEW cb \in Breaker, BreakerShape(cb), NEW t \in Nat
  PROVE  /\ record_failure(cb, t) \in Breaker
         /\ BreakerShape(record_failure(cb, t))
<1> USE BreakerAssumption DEF Breaker, BreakerShape, record_failure, NoInstant
<1>1. CASE cb.is_broken
  BY <1>1
<1>2. CASE ~cb.is_broken /\ cb.failure_count + 1 >= MAX_FAILURES
  BY <1>2
<1>3. CASE ~cb.is_broken /\ cb.failure_count + 1 < MAX_FAILURES
  BY <1>3
<1> QED
  BY <1>1, <1>2, <1>3

\* A new breaker, and hence one after record_success, is well formed and admits
\* attempts.
LEMMA NewBreakerShape ==
  /\ NewBreaker \in Breaker
  /\ BreakerShape(NewBreaker)
  /\ \A t : record_success(t) = NewBreaker
BY BreakerAssumption DEF NewBreaker, Breaker, BreakerShape, record_success, NoInstant

\* The two questions the code asks of a breaker agree: an attempt is allowed
\* exactly when no cool-down time remains.
LEMMA AllowedIffNotCooling ==
  ASSUME NEW cb \in Breaker, BreakerShape(cb), NEW t \in Nat
  PROVE  is_allowed(cb, t) <=> remaining_cooldown_secs(cb, t) = NoInstant
BY BreakerAssumption
   DEF Breaker, BreakerShape, is_allowed, remaining_cooldown_secs, NoInstant

\* Once allowed, always allowed while the breaker is left alone.
LEMMA AllowedStays ==
  ASSUME NEW cb \in Breaker, NEW t \in Nat, is_allowed(cb, t)
  PROVE  is_allowed(cb, t + 1)
BY BreakerAssumption DEF Breaker, is_allowed, NoInstant

-----------------------------------------------------------------------------
USE DEF Threads, Steps, serviceVars, handleVars, threadVars,
        NoChangeButThreads, Goto, StopThen, Release

\* Init establishes the invariant.
LEMMA InitIInv == Init => IInv
<1> SUFFICES ASSUME Init PROVE IInv
  OBVIOUS
<1> USE LifecycleAssumption, NewBreakerShape DEF Init, BootStep, is_running
<1>1. TypeOK
  BY DEF TypeOK
<1>2. LockInv /\ PhaseInv /\ OrphanInv /\ OneMihomo /\ PathInv /\ SpawnInv /\ ApplyInv
  BY DEF LockInv, PhaseInv, OrphanInv, OneMihomo, PathInv, SpawnInv, ApplyInv
<1>3. HealthyWhenRunning /\ StatusCoherent /\ ConfigApplied
  BY DEF HealthyWhenRunning, StatusCoherent, ConfigApplied
<1>4. BreakerShape(breaker)
  BY DEF Init
<1> QED
  BY <1>1, <1>2, <1>3, <1>4 DEF IInv

\* Every step keeps the types.
LEMMA TypeStep == IInv /\ [Next]_vars => TypeOK'
<1> SUFFICES ASSUME IInv, [Next]_vars PROVE TypeOK'
  OBVIOUS
<1> USE LifecycleAssumption, NewBreakerShape DEF TypeOK
<1>0. TypeOK /\ BreakerShape(breaker) /\ PathInv
  BY DEF IInv
<1>f. record_failure(breaker, now) \in Breaker
  BY <1>0, RecordFailureShape
<1>1. ASSUME NEW t \in Threads, Enter(t) PROVE TypeOK'
  <2>1. ASSUME NEW p \in Paths, Start(t, p) PROVE TypeOK'
    BY <1>0, <2>1 DEF Start
  <2>2. CASE Stop(t) BY <1>0, <2>2 DEF Stop
  <2>3. CASE IpcRestart(t) BY <1>0, <2>3 DEF IpcRestart
  <2>4. CASE IpcShutdown(t) BY <1>0, <2>4 DEF IpcShutdown
  <2>5. CASE Activate(t) BY <1>0, <2>5 DEF Activate, WriteActiveConfig
  <2>6. CASE ApplySettings(t) BY <1>0, <2>6 DEF ApplySettings, WriteActiveConfig
  <2> QED BY <1>1, <2>1, <2>2, <2>3, <2>4, <2>5, <2>6 DEF Enter
<1>2. ASSUME NEW t \in Threads, Run(t) PROVE TypeOK'
  <2>1. CASE SetLastPath(t) BY <1>0, <2>1 DEF SetLastPath
  <2>2. CASE ApplyRestart(t) BY <1>0, <2>2 DEF ApplyRestart, restart_mihomo
  <2>3. CASE ReadLastPath(t) BY <1>0, <2>3 DEF ReadLastPath
  <2>4. CASE SetShutdown(t) BY <1>0, <2>4 DEF SetShutdown
  <2>5. CASE StartFails(t) BY <1>0, <1>f, <2>5 DEF StartFails
  <2>6. ASSUME NEW p \in Procs, Spawn(t, p) PROVE TypeOK'
    BY <1>0, <2>6 DEF Spawn
  <2>7. CASE Settle(t) BY <1>0, <1>f, <2>7 DEF Settle, RecordStart
  <2> QED BY <1>2, <2>1, <2>2, <2>3, <2>4, <2>5, <2>6, <2>7 DEF Run
<1>3. ASSUME NEW t \in Threads, Acquire(t) PROVE TypeOK'
  <2>1. CASE StopStep(t)
    <3>1. next[t] \in Steps /\ live \ {child} \in SUBSET Procs
      BY <1>0
    <3> QED BY <1>0, <2>1, <3>1 DEF StopStep, Killed
  <2>2. CASE LockStart(t) BY <1>0, <2>2 DEF LockStart
  <2> QED BY <1>3, <2>1, <2>2 DEF Acquire
<1>4. CASE Environment
  <2>1. ASSUME NEW p \in Procs, Crash(p) PROVE TypeOK'
    BY <1>0, <2>1 DEF Crash
  <2>2. CASE Tick BY <1>0, <2>2 DEF Tick
  <2>3. CASE Signal BY <1>0, <2>3 DEF Signal
  <2> QED BY <1>4, <2>1, <2>2, <2>3 DEF Environment
<1>5. CASE Serve \/ HttpExit \/ Background
  BY <1>0, <1>5 DEF Serve, HttpExit, Background
<1>6. CASE Exit \/ BindFails
  <2>1. PICK last : Leave(last)
    BY <1>6 DEF Exit, BindFails
  <2> QED BY <1>0, <2>1 DEF Leave, Killed
<1>7. CASE Boot
  BY <1>0, <1>7 DEF Boot, BootStep
<1>8. CASE UNCHANGED vars
  BY <1>0, <1>8 DEF vars
<1> QED
  BY <1>1, <1>2, <1>3, <1>4, <1>5, <1>6, <1>7, <1>8 DEF Next

(***************************************************************************)
(* Every step keeps the invariant: one step per action, and under it one   *)
(* per group of conjuncts.                                                 *)
(***************************************************************************)
Concurrency == LockInv /\ PhaseInv
Ownership   == OrphanInv /\ OneMihomo
Arguments   == PathInv /\ ApplyInv
Reports     == HealthyWhenRunning /\ StatusCoherent
Applied     == "apply" \notin HttpOps => ConfigApplied

Rest == /\ Concurrency
        /\ Ownership
        /\ Arguments
        /\ BreakerShape(breaker)
        /\ SpawnInv
        /\ Reports
        /\ Applied

LEMMA IInvIsRest == IInv <=> TypeOK /\ Rest
BY DEF IInv, Rest, Concurrency, Ownership, Arguments, Reports, Applied

LEMMA StartKeeps ==
  ASSUME TypeOK, Rest, NEW t \in Threads, NEW p \in Paths, Start(t, p)
  PROVE  Rest'
<1> USE LifecycleAssumption DEF TypeOK, Rest, Start, HttpRequest, IpcRequest
<1>1. Concurrency'
  BY DEF Concurrency, LockInv, PhaseInv
<1>2. Ownership'
  BY DEF Ownership, OrphanInv, OneMihomo
<1>3. Arguments'
  BY DEF Arguments, PathInv, ApplyInv
<1>4. (BreakerShape(breaker) /\ SpawnInv)'
  BY DEF SpawnInv, is_running, Concurrency, LockInv
<1>5. Reports'
  BY DEF Reports, HealthyWhenRunning, StatusCoherent, status, is_running, Settling, Concurrency, LockInv
<1>6. Applied'
  BY DEF Applied, ConfigApplied, is_running
<1> QED
  BY <1>1, <1>2, <1>3, <1>4, <1>5, <1>6 DEF Rest

LEMMA StopKeeps ==
  ASSUME TypeOK, Rest, NEW t \in Threads, Stop(t)
  PROVE  Rest'
<1> USE LifecycleAssumption DEF TypeOK, Rest, Stop, HttpRequest, IpcRequest
<1>1. Concurrency'
  BY DEF Concurrency, LockInv, PhaseInv
<1>2. Ownership'
  BY DEF Ownership, OrphanInv, OneMihomo
<1>3. Arguments'
  BY DEF Arguments, PathInv, ApplyInv
<1>4. (BreakerShape(breaker) /\ SpawnInv)'
  BY DEF SpawnInv, is_running, Concurrency, LockInv
<1>5. Reports'
  BY DEF Reports, HealthyWhenRunning, StatusCoherent, status, is_running, Settling, Concurrency, LockInv
<1>6. Applied'
  BY DEF Applied, ConfigApplied, is_running
<1> QED
  BY <1>1, <1>2, <1>3, <1>4, <1>5, <1>6 DEF Rest

LEMMA IpcRestartKeeps ==
  ASSUME TypeOK, Rest, NEW t \in Threads, IpcRestart(t)
  PROVE  Rest'
<1> USE LifecycleAssumption DEF TypeOK, Rest, IpcRestart, IpcRequest
<1>1. Concurrency'
  BY DEF Concurrency, LockInv, PhaseInv
<1>2. Ownership'
  BY DEF Ownership, OrphanInv, OneMihomo
<1>3. Arguments'
  BY DEF Arguments, PathInv, ApplyInv
<1>4. (BreakerShape(breaker) /\ SpawnInv)'
  BY DEF SpawnInv, is_running, Concurrency, LockInv
<1>5. Reports'
  BY DEF Reports, HealthyWhenRunning, StatusCoherent, status, is_running, Settling, Concurrency, LockInv
<1>6. Applied'
  BY DEF Applied, ConfigApplied, is_running
<1> QED
  BY <1>1, <1>2, <1>3, <1>4, <1>5, <1>6 DEF Rest

LEMMA IpcShutdownKeeps ==
  ASSUME TypeOK, Rest, NEW t \in Threads, IpcShutdown(t)
  PROVE  Rest'
<1> USE LifecycleAssumption DEF TypeOK, Rest, IpcShutdown, IpcRequest
<1>1. Concurrency'
  BY DEF Concurrency, LockInv, PhaseInv
<1>2. Ownership'
  BY DEF Ownership, OrphanInv, OneMihomo
<1>3. Arguments'
  BY DEF Arguments, PathInv, ApplyInv
<1>4. (BreakerShape(breaker) /\ SpawnInv)'
  BY DEF SpawnInv, is_running, Concurrency, LockInv
<1>5. Reports'
  BY DEF Reports, HealthyWhenRunning, StatusCoherent, status, is_running, Settling, Concurrency, LockInv
<1>6. Applied'
  BY DEF Applied, ConfigApplied, is_running
<1> QED
  BY <1>1, <1>2, <1>3, <1>4, <1>5, <1>6 DEF Rest

LEMMA ActivateKeeps ==
  ASSUME TypeOK, Rest, NEW t \in Threads, Activate(t)
  PROVE  Rest'
<1> USE LifecycleAssumption DEF TypeOK, Rest, Activate, WriteActiveConfig, HttpRequest
<1>1. Concurrency'
  BY DEF Concurrency, LockInv, PhaseInv
<1>2. Ownership'
  BY DEF Ownership, OrphanInv, OneMihomo
<1>3. Arguments'
  BY DEF Arguments, PathInv, ApplyInv
<1>4. (BreakerShape(breaker) /\ SpawnInv)'
  BY DEF SpawnInv, is_running, Concurrency, LockInv
<1>5. Reports'
  BY DEF Reports, HealthyWhenRunning, StatusCoherent, status, is_running, Settling, Concurrency, LockInv
<1>6. Applied'
  BY DEF Applied, ConfigApplied, is_running
<1> QED
  BY <1>1, <1>2, <1>3, <1>4, <1>5, <1>6 DEF Rest

LEMMA ApplySettingsKeeps ==
  ASSUME TypeOK, Rest, NEW t \in Threads, ApplySettings(t)
  PROVE  Rest'
<1> USE LifecycleAssumption DEF TypeOK, Rest, ApplySettings, WriteActiveConfig, HttpRequest
<1>1. Concurrency'
  BY DEF Concurrency, LockInv, PhaseInv
<1>2. Ownership'
  BY DEF Ownership, OrphanInv, OneMihomo
<1>3. Arguments'
  BY DEF Arguments, PathInv, ApplyInv
<1>4. (BreakerShape(breaker) /\ SpawnInv)'
  BY DEF SpawnInv, is_running, Concurrency, LockInv
<1>5. Reports'
  BY DEF Reports, HealthyWhenRunning, StatusCoherent, status, is_running, Settling, Concurrency, LockInv
<1>6. Applied'
  BY DEF Applied, ConfigApplied, is_running
<1> QED
  BY <1>1, <1>2, <1>3, <1>4, <1>5, <1>6 DEF Rest

LEMMA SetLastPathKeeps ==
  ASSUME TypeOK, Rest, NEW t \in Threads, SetLastPath(t)
  PROVE  Rest'
<1> USE LifecycleAssumption DEF TypeOK, Rest, SetLastPath
<1>1. Concurrency'
  BY DEF Concurrency, LockInv, PhaseInv
<1>2. Ownership'
  BY DEF Ownership, OrphanInv, OneMihomo
<1>3. Arguments'
  BY DEF Arguments, PathInv, ApplyInv
<1>4. (BreakerShape(breaker) /\ SpawnInv)'
  BY DEF SpawnInv, is_running, Concurrency, LockInv
<1>5. Reports'
  BY DEF Reports, HealthyWhenRunning, StatusCoherent, status, is_running, Settling, Concurrency, LockInv
<1>6. Applied'
  BY DEF Applied, ConfigApplied, is_running
<1> QED
  BY <1>1, <1>2, <1>3, <1>4, <1>5, <1>6 DEF Rest

LEMMA ApplyRestartKeeps ==
  ASSUME TypeOK, Rest, NEW t \in Threads, ApplyRestart(t)
  PROVE  Rest'
<1> USE LifecycleAssumption DEF TypeOK, Rest, ApplyRestart, restart_mihomo
<1>1. Concurrency'
  BY DEF Concurrency, LockInv, PhaseInv
<1>2. Ownership'
  BY DEF Ownership, OrphanInv, OneMihomo
<1>3. Arguments'
  BY DEF Arguments, PathInv, ApplyInv
<1>4. (BreakerShape(breaker) /\ SpawnInv)'
  BY DEF SpawnInv, is_running, Concurrency, LockInv
<1>5. Reports'
  BY DEF Reports, HealthyWhenRunning, StatusCoherent, status, is_running, Settling, Concurrency, LockInv
<1>6. Applied'
  BY DEF Applied, ConfigApplied, is_running, Arguments, ApplyInv
<1> QED
  BY <1>1, <1>2, <1>3, <1>4, <1>5, <1>6 DEF Rest

LEMMA ReadLastPathKeeps ==
  ASSUME TypeOK, Rest, NEW t \in Threads, ReadLastPath(t)
  PROVE  Rest'
<1> USE LifecycleAssumption DEF TypeOK, Rest, ReadLastPath
<1>1. Concurrency'
  BY DEF Concurrency, LockInv, PhaseInv
<1>2. Ownership'
  BY DEF Ownership, OrphanInv, OneMihomo
<1>3. Arguments'
  BY DEF Arguments, PathInv, ApplyInv
<1>4. (BreakerShape(breaker) /\ SpawnInv)'
  BY DEF SpawnInv, is_running, Concurrency, LockInv
<1>5. Reports'
  BY DEF Reports, HealthyWhenRunning, StatusCoherent, status, is_running, Settling, Concurrency, LockInv
<1>6. Applied'
  BY DEF Applied, ConfigApplied, is_running
<1> QED
  BY <1>1, <1>2, <1>3, <1>4, <1>5, <1>6 DEF Rest

LEMMA SetShutdownKeeps ==
  ASSUME TypeOK, Rest, NEW t \in Threads, SetShutdown(t)
  PROVE  Rest'
<1> USE LifecycleAssumption DEF TypeOK, Rest, SetShutdown
<1>1. Concurrency'
  BY DEF Concurrency, LockInv, PhaseInv
<1>2. Ownership'
  BY DEF Ownership, OrphanInv, OneMihomo
<1>3. Arguments'
  BY DEF Arguments, PathInv, ApplyInv
<1>4. (BreakerShape(breaker) /\ SpawnInv)'
  BY DEF SpawnInv, is_running, Concurrency, LockInv
<1>5. Reports'
  BY DEF Reports, HealthyWhenRunning, StatusCoherent, status, is_running, Settling, Concurrency, LockInv
<1>6. Applied'
  BY DEF Applied, ConfigApplied, is_running
<1> QED
  BY <1>1, <1>2, <1>3, <1>4, <1>5, <1>6 DEF Rest

LEMMA StopStepKeeps ==
  ASSUME TypeOK, Rest, NEW t \in Threads, StopStep(t)
  PROVE  Rest'
<1> USE LifecycleAssumption DEF TypeOK, Rest, StopStep, MayStop, Killed
<1>1. Concurrency'
  BY DEF Concurrency, LockInv, PhaseInv
<1>2. Ownership'
  BY DEF Ownership, OrphanInv, OneMihomo
<1>3. Arguments'
  BY DEF Arguments, PathInv, ApplyInv
<1>4. (BreakerShape(breaker) /\ SpawnInv)'
  BY DEF SpawnInv, is_running, Concurrency, LockInv
<1>5. Reports'
  BY DEF Reports, HealthyWhenRunning, StatusCoherent, status, is_running, Settling, Concurrency, LockInv
<1>6. Applied'
  BY DEF Applied, ConfigApplied, is_running
<1> QED
  BY <1>1, <1>2, <1>3, <1>4, <1>5, <1>6 DEF Rest

LEMMA LockStartKeeps ==
  ASSUME TypeOK, Rest, NEW t \in Threads, LockStart(t)
  PROVE  Rest'
<1> USE LifecycleAssumption DEF TypeOK, Rest, LockStart, MayStart
<1>1. Concurrency'
  BY DEF Concurrency, LockInv, PhaseInv
<1>2. Ownership'
  BY DEF Ownership, OrphanInv, OneMihomo
<1>3. Arguments'
  BY DEF Arguments, PathInv, ApplyInv
<1>4. (BreakerShape(breaker) /\ SpawnInv)'
  BY DEF SpawnInv, is_running, Concurrency, LockInv
<1>5. Reports'
  BY DEF Reports, HealthyWhenRunning, StatusCoherent, status, is_running, Settling, Concurrency, LockInv
<1>6. Applied'
  BY DEF Applied, ConfigApplied, is_running
<1> QED
  BY <1>1, <1>2, <1>3, <1>4, <1>5, <1>6 DEF Rest

LEMMA StartFailsKeeps ==
  ASSUME TypeOK, Rest, NEW t \in Threads, StartFails(t)
  PROVE  Rest'
<1> USE LifecycleAssumption DEF TypeOK, Rest, StartFails
<1>f. breaker \in Breaker /\ BreakerShape(breaker) /\ now \in Nat
  OBVIOUS
<1>r. BreakerShape(record_failure(breaker, now))
  BY <1>f, RecordFailureShape
<1>1. Concurrency'
  BY DEF Concurrency, LockInv, PhaseInv
<1>2. Ownership'
  BY DEF Ownership, OrphanInv, OneMihomo
<1>3. Arguments'
  BY DEF Arguments, PathInv, ApplyInv
<1>4. (BreakerShape(breaker) /\ SpawnInv)'
  BY <1>r DEF SpawnInv, is_running, Concurrency, LockInv
<1>5. Reports'
  BY DEF Reports, HealthyWhenRunning, StatusCoherent, status, is_running, Settling, Concurrency, LockInv, SpawnInv
<1>6. Applied'
  BY DEF Applied, ConfigApplied, is_running
<1> QED
  BY <1>1, <1>2, <1>3, <1>4, <1>5, <1>6 DEF Rest

LEMMA SpawnKeeps ==
  ASSUME TypeOK, Rest, NEW t \in Threads, NEW p \in Procs, Spawn(t, p)
  PROVE  Rest'
<1> USE LifecycleAssumption DEF TypeOK, Rest, Spawn
<1>1. Concurrency'
  BY DEF Concurrency, LockInv, PhaseInv
<1>2. Ownership'
  BY DEF Ownership, OrphanInv, OneMihomo, SpawnInv, is_running
<1>3. Arguments'
  BY DEF Arguments, PathInv, ApplyInv
<1>4. (BreakerShape(breaker) /\ SpawnInv)'
  BY DEF SpawnInv, is_running, Concurrency, LockInv
<1>5. Reports'
  BY DEF Reports, HealthyWhenRunning, StatusCoherent, status, is_running, Settling, Concurrency, LockInv
<1>6. Applied'
  BY DEF Applied, ConfigApplied, is_running
<1> QED
  BY <1>1, <1>2, <1>3, <1>4, <1>5, <1>6 DEF Rest

LEMMA SettleKeeps ==
  ASSUME TypeOK, Rest, NEW t \in Threads, Settle(t)
  PROVE  Rest'
<1> USE LifecycleAssumption DEF TypeOK, Rest, Settle, RecordStart
<1>f. breaker \in Breaker /\ BreakerShape(breaker) /\ now \in Nat
  OBVIOUS
<1>r. BreakerShape(record_failure(breaker, now))
  BY <1>f, RecordFailureShape
<1>1. Concurrency'
  BY DEF Concurrency, LockInv, PhaseInv
<1>2. Ownership'
  BY DEF Ownership, OrphanInv, OneMihomo, is_running
<1>3. Arguments'
  BY DEF Arguments, PathInv, ApplyInv
<1>4. (BreakerShape(breaker) /\ SpawnInv)'
  BY <1>r, NewBreakerShape DEF SpawnInv, is_running, Concurrency, LockInv
<1>5. Reports'
  BY NewBreakerShape DEF Reports, HealthyWhenRunning, StatusCoherent, status, is_running, Settling, Concurrency, LockInv, Arguments, PathInv
<1>6. Applied'
  BY DEF Applied, ConfigApplied, is_running
<1> QED
  BY <1>1, <1>2, <1>3, <1>4, <1>5, <1>6 DEF Rest

LEMMA CrashKeeps ==
  ASSUME TypeOK, Rest, NEW p \in Procs, Crash(p)
  PROVE  Rest'
<1> USE LifecycleAssumption DEF TypeOK, Rest, Crash
<1>1. Concurrency'
  BY DEF Concurrency, LockInv, PhaseInv
<1>2. Ownership'
  BY DEF Ownership, OrphanInv, OneMihomo
<1>3. Arguments'
  BY DEF Arguments, PathInv, ApplyInv
<1>4. (BreakerShape(breaker) /\ SpawnInv)'
  BY DEF SpawnInv, is_running, Concurrency, LockInv
<1>5. Reports'
  BY DEF Reports, HealthyWhenRunning, StatusCoherent, status, is_running, Settling, Concurrency, LockInv
<1>6. Applied'
  BY DEF Applied, ConfigApplied, is_running
<1> QED
  BY <1>1, <1>2, <1>3, <1>4, <1>5, <1>6 DEF Rest

LEMMA TickKeeps ==
  ASSUME TypeOK, Rest, Tick
  PROVE  Rest'
<1> USE LifecycleAssumption DEF TypeOK, Rest, Tick
<1>f. breaker \in Breaker /\ BreakerShape(breaker) /\ now \in Nat
  OBVIOUS
<1>r. is_allowed(breaker, now) => is_allowed(breaker, now + 1)
  BY <1>f, AllowedStays
<1>1. Concurrency'
  BY DEF Concurrency, LockInv, PhaseInv
<1>2. Ownership'
  BY DEF Ownership, OrphanInv, OneMihomo
<1>3. Arguments'
  BY DEF Arguments, PathInv, ApplyInv
<1>4. (BreakerShape(breaker) /\ SpawnInv)'
  BY <1>r DEF SpawnInv, is_running, Concurrency, LockInv
<1>5. Reports'
  BY DEF Reports, HealthyWhenRunning, StatusCoherent, status, is_running, Settling, Concurrency, LockInv
<1>6. Applied'
  BY DEF Applied, ConfigApplied, is_running
<1> QED
  BY <1>1, <1>2, <1>3, <1>4, <1>5, <1>6 DEF Rest

LEMMA SignalKeeps ==
  ASSUME TypeOK, Rest, Signal
  PROVE  Rest'
<1> USE LifecycleAssumption DEF TypeOK, Rest, Signal
<1>1. Concurrency'
  BY DEF Concurrency, LockInv, PhaseInv
<1>2. Ownership'
  BY DEF Ownership, OrphanInv, OneMihomo
<1>3. Arguments'
  BY DEF Arguments, PathInv, ApplyInv
<1>4. (BreakerShape(breaker) /\ SpawnInv)'
  BY DEF SpawnInv, is_running, Concurrency, LockInv
<1>5. Reports'
  BY DEF Reports, HealthyWhenRunning, StatusCoherent, status, is_running, Settling, Concurrency, LockInv
<1>6. Applied'
  BY DEF Applied, ConfigApplied, is_running
<1> QED
  BY <1>1, <1>2, <1>3, <1>4, <1>5, <1>6 DEF Rest

LEMMA ServeKeeps ==
  ASSUME TypeOK, Rest, Serve
  PROVE  Rest'
<1> USE LifecycleAssumption DEF TypeOK, Rest, Serve
<1>1. Concurrency'
  BY DEF Concurrency, LockInv, PhaseInv
<1>2. Ownership'
  BY DEF Ownership, OrphanInv, OneMihomo
<1>3. Arguments'
  BY DEF Arguments, PathInv, ApplyInv
<1>4. (BreakerShape(breaker) /\ SpawnInv)'
  BY DEF SpawnInv, is_running, Concurrency, LockInv
<1>5. Reports'
  BY DEF Reports, HealthyWhenRunning, StatusCoherent, status, is_running, Settling, Concurrency, LockInv
<1>6. Applied'
  BY DEF Applied, ConfigApplied, is_running
<1> QED
  BY <1>1, <1>2, <1>3, <1>4, <1>5, <1>6 DEF Rest

LEMMA HttpExitKeeps ==
  ASSUME TypeOK, Rest, HttpExit
  PROVE  Rest'
<1> USE LifecycleAssumption DEF TypeOK, Rest, HttpExit
<1>1. Concurrency'
  BY DEF Concurrency, LockInv, PhaseInv
<1>2. Ownership'
  BY DEF Ownership, OrphanInv, OneMihomo
<1>3. Arguments'
  BY DEF Arguments, PathInv, ApplyInv
<1>4. (BreakerShape(breaker) /\ SpawnInv)'
  BY DEF SpawnInv, is_running, Concurrency, LockInv
<1>5. Reports'
  BY DEF Reports, HealthyWhenRunning, StatusCoherent, status, is_running, Settling, Concurrency, LockInv
<1>6. Applied'
  BY DEF Applied, ConfigApplied, is_running
<1> QED
  BY <1>1, <1>2, <1>3, <1>4, <1>5, <1>6 DEF Rest

LEMMA BackgroundKeeps ==
  ASSUME TypeOK, Rest, Background
  PROVE  Rest'
<1> USE LifecycleAssumption DEF TypeOK, Rest, Background
<1>1. Concurrency'
  BY DEF Concurrency, LockInv, PhaseInv
<1>2. Ownership'
  BY DEF Ownership, OrphanInv, OneMihomo
<1>3. Arguments'
  BY DEF Arguments, PathInv, ApplyInv
<1>4. (BreakerShape(breaker) /\ SpawnInv)'
  BY DEF SpawnInv, is_running, Concurrency, LockInv
<1>5. Reports'
  BY DEF Reports, HealthyWhenRunning, StatusCoherent, status, is_running, Settling, Concurrency, LockInv
<1>6. Applied'
  BY DEF Applied, ConfigApplied, is_running
<1> QED
  BY <1>1, <1>2, <1>3, <1>4, <1>5, <1>6 DEF Rest

LEMMA LeaveKeeps ==
  ASSUME TypeOK, Rest, NEW last, Leave(last)
  PROVE  Rest'
<1> USE LifecycleAssumption DEF TypeOK, Rest, Leave, Killed
<1>1. Concurrency'
  BY DEF Concurrency, LockInv, PhaseInv
<1>2. Ownership'
  BY DEF Ownership, OrphanInv, OneMihomo
<1>3. Arguments'
  BY DEF Arguments, PathInv, ApplyInv
<1>4. (BreakerShape(breaker) /\ SpawnInv)'
  BY DEF SpawnInv, is_running, Concurrency, LockInv
<1>5. Reports'
  BY DEF Reports, HealthyWhenRunning, StatusCoherent, status, is_running, Settling, Concurrency, LockInv
<1>6. Applied'
  BY DEF Applied, ConfigApplied, is_running
<1> QED
  BY <1>1, <1>2, <1>3, <1>4, <1>5, <1>6 DEF Rest

LEMMA BootKeeps ==
  ASSUME TypeOK, Rest, Boot
  PROVE  Rest'
<1> USE LifecycleAssumption DEF TypeOK, Rest, Boot, BootStep
<1>d. /\ child = NoProc /\ lock = NoThread /\ child \notin live
      /\ \A t \in Threads : pc[t] = "idle"
  BY DEF Concurrency, PhaseInv
<1>e. \A t \in Threads : /\ pc'[t] \in {"idle", "start"}
                         /\ pc'[t] = "start" => path'[t] = ActivePath
  BY <1>d
<1>1. Concurrency'
  BY DEF Concurrency, LockInv, PhaseInv
<1>2. Ownership'
  BY DEF Ownership, OrphanInv, OneMihomo
<1>3. Arguments'
  BY <1>e DEF Arguments, PathInv, ApplyInv
<1>4. (BreakerShape(breaker) /\ SpawnInv)'
  BY <1>d, <1>e, NewBreakerShape DEF SpawnInv, is_running, Concurrency, LockInv
<1>5. Reports'
  BY <1>d DEF Reports, HealthyWhenRunning, StatusCoherent, status, is_running, Settling, Concurrency, LockInv
<1>6. Applied'
  BY <1>d DEF Applied, ConfigApplied, is_running
<1> QED
  BY <1>1, <1>2, <1>3, <1>4, <1>5, <1>6 DEF Rest

LEMMA StutterKeeps ==
  ASSUME TypeOK, Rest, UNCHANGED vars
  PROVE  Rest'
<1> USE DEF Rest, vars
<1>1. Concurrency' /\ Ownership' /\ Arguments'
  BY DEF Concurrency, LockInv, PhaseInv, Ownership, OrphanInv, OneMihomo,
         Arguments, PathInv, ApplyInv
<1>2. (BreakerShape(breaker) /\ SpawnInv)'
  BY DEF SpawnInv, is_running
<1>3. Reports' /\ Applied'
  BY DEF Reports, HealthyWhenRunning, StatusCoherent, status, is_running,
         Settling, Applied, ConfigApplied
<1> QED BY <1>1, <1>2, <1>3

\* The invariant is inductive.
LEMMA StepIInv == IInv /\ [Next]_vars => IInv'
<1> SUFFICES ASSUME IInv, [Next]_vars PROVE IInv'
  OBVIOUS
<1>0. TypeOK /\ Rest
  BY IInvIsRest
<1>1. TypeOK'
  BY TypeStep
<1>2. Rest'
  <2>1. ASSUME NEW t \in Threads, Enter(t) PROVE Rest'
    BY <1>0, <2>1, StartKeeps, StopKeeps, IpcRestartKeeps, IpcShutdownKeeps,
       ActivateKeeps, ApplySettingsKeeps DEF Enter
  <2>2. ASSUME NEW t \in Threads, Run(t) PROVE Rest'
    BY <1>0, <2>2, SetLastPathKeeps, ApplyRestartKeeps, ReadLastPathKeeps,
       SetShutdownKeeps, StartFailsKeeps, SpawnKeeps, SettleKeeps DEF Run
  <2>3. ASSUME NEW t \in Threads, Acquire(t) PROVE Rest'
    BY <1>0, <2>3, StopStepKeeps, LockStartKeeps DEF Acquire
  <2>4. CASE Environment
    BY <1>0, <2>4, CrashKeeps, TickKeeps, SignalKeeps DEF Environment
  <2>5. CASE Serve \/ HttpExit \/ Background \/ Exit \/ BindFails \/ Boot
    BY <1>0, <2>5, ServeKeeps, HttpExitKeeps, BackgroundKeeps, LeaveKeeps,
       BootKeeps DEF Exit, BindFails
  <2>6. CASE UNCHANGED vars
    BY <1>0, <2>6, StutterKeeps
  <2> QED BY <2>1, <2>2, <2>3, <2>4, <2>5, <2>6 DEF Next
<1> HIDE DEF Rest
<1> QED
  <2>1. TypeOK' /\ Rest' => IInv'
    BY DEF IInv, Rest, Concurrency, Ownership, Arguments, Reports, Applied
  <2> QED BY <1>1, <1>2, <2>1

-----------------------------------------------------------------------------
(***************************************************************************)
(* The theorems.                                                           *)
(***************************************************************************)
\* The inductive invariant holds in every reachable state of the lifecycle.
THEOREM Invariance == Spec => []IInv
<1>1. Init => IInv BY InitIInv
<1>2. IInv /\ [Next]_vars => IInv' BY StepIInv
<1> QED BY <1>1, <1>2, PTL DEF Spec

\* Every variable of the lifecycle keeps its type; in particular the failure
\* count never passes MAX_FAILURES.
THEOREM TypeCorrect == Spec => []TypeOK
<1>1. IInv => TypeOK BY DEF IInv
<1> QED BY <1>1, Invariance, PTL

\* At most one thread is inside a start, and it is the lock's holder.
THEOREM MutualExclusion == Spec => []LockInv
<1>1. IInv => LockInv BY DEF IInv
<1> QED BY <1>1, Invariance, PTL

\* One Mihomo per service process: whatever the interleaving of starts, stops,
\* restarts, crashes, exits and boots, only orphans of earlier service
\* processes are alive beside the managed one.
THEOREM AtMostOneManaged == Spec => []OneMihomo
<1>1. IInv => OneMihomo BY DEF IInv
<1> QED BY <1>1, Invariance, PTL

\* A settled, running Mihomo means an untouched breaker, for every limit and
\* every cool-down: status can never show both.
THEOREM RunningIsHealthy == Spec => []HealthyWhenRunning
<1>1. IInv => HealthyWhenRunning BY DEF IInv
<1> QED BY <1>1, Invariance, PTL

\* Status reports a running Mihomo completely.
THEOREM StatusIsCoherent == Spec => []StatusCoherent
<1>1. IInv => StatusCoherent BY DEF IInv
<1> QED BY <1>1, Invariance, PTL

\* Without the settings handlers that may skip the restart, new content of
\* config.yaml never stays unapplied under a running Mihomo.
THEOREM ActivationApplies == ("apply" \notin HttpOps /\ Spec) => []ConfigApplied
<1>1. ASSUME "apply" \notin HttpOps PROVE IInv => ConfigApplied
  BY <1>1 DEF IInv
<1>2. ASSUME "apply" \notin HttpOps PROVE Spec => []ConfigApplied
  <2>1. IInv => ConfigApplied BY <1>1, <1>2
  <2> QED BY <2>1, Invariance, PTL
<1> QED BY <1>2

\* No Mihomo is launched while the breaker cools down, however long the binary
\* downloads between the check and the spawn.
THEOREM SpawnsRespectCooldown == Spec => SpawnRespectsCooldown
<1>1. ASSUME IInv, [Next]_vars, NEW p \in Procs, p \in live' \ live
      PROVE  remaining_cooldown_secs(breaker, now) = NoInstant
  <2>1. PICK t \in Threads : pc[t] = "spawn"
    BY <1>1 DEF Next, Enter, Run, Acquire, Environment, Start, Stop, IpcRestart, IpcShutdown,
                Activate, ApplySettings, WriteActiveConfig, SetLastPath, ApplyRestart, restart_mihomo,
                ReadLastPath, SetShutdown, StopStep, Killed, LockStart, StartFails, Spawn, Settle,
                Crash, Tick, Signal, Serve, HttpExit, Background, Exit, BindFails, Leave, Boot, vars
  <2>2. is_allowed(breaker, now) /\ breaker \in Breaker /\ BreakerShape(breaker) /\ now \in Nat
    BY <1>1, <2>1 DEF IInv, SpawnInv, TypeOK
  <2> QED BY <2>2, AllowedIffNotCooling
<1>2. IInv /\ [Next]_vars =>
        [\A p \in Procs : p \in live' \ live => remaining_cooldown_secs(breaker, now) = NoInstant]_vars
  BY <1>1
<1> QED BY <1>2, Invariance, PTL DEF Spec, SpawnRespectsCooldown

\* A daemon in the foreground that exits, no background thread being at work,
\* leaves no Mihomo behind that an earlier one had not left.
THEOREM ForegroundExitsStop == Spec => ForegroundExitStops
<1>1. ASSUME IInv, [Next]_vars, phase' = "down", foreground, ~background
      PROVE  orphans' \subseteq orphans
  <2>1. CASE Exit \/ BindFails
    <3>1. LastArc
      BY <1>1 DEF IInv, PhaseInv, LastArc
    <3>2. live' = Killed /\ orphans' = live'
      BY <1>1, <2>1, <3>1 DEF Exit, BindFails, Leave
    <3> QED BY <1>1, <3>2 DEF Killed, IInv, OneMihomo
  <2>2. CASE ~(Exit \/ BindFails)
    BY <1>1, <2>2 DEF Next, Enter, Run, Acquire, Environment, Start, Stop, IpcRestart, IpcShutdown,
                Activate, ApplySettings, WriteActiveConfig, SetLastPath, ApplyRestart, restart_mihomo,
                ReadLastPath, SetShutdown, StopStep, LockStart, StartFails, Spawn, Settle,
                Crash, Tick, Signal, Serve, HttpExit, Background, Boot, vars
  <2> QED BY <2>1, <2>2
<1>2. IInv /\ [Next]_vars =>
        [phase' = "down" /\ foreground /\ ~background => orphans' \subseteq orphans]_vars
  BY <1>1
<1> QED BY <1>2, Invariance, PTL DEF Spec, ForegroundExitStops

-----------------------------------------------------------------------------
(***************************************************************************)
(* The refinement.                                                         *)
(***************************************************************************)
\* A start that is confirmed was allowed: nobody records a failure meanwhile.
SettleInv == \A t \in Threads : pc[t] = "settle" => is_allowed(breaker, now)

LEMMA SettleStep == IInv /\ SettleInv /\ [Next]_vars => SettleInv'
<1> SUFFICES ASSUME IInv, SettleInv, [Next]_vars, NEW u \in Threads, pc'[u] = "settle"
             PROVE  is_allowed(breaker, now)'
  BY DEF SettleInv
<1>0. TypeOK /\ LockInv /\ SpawnInv
  BY DEF IInv
<1>1. CASE UNCHANGED <<breaker, now>>
  <2>1. pc[u] \in {"spawn", "settle"}
    <3> USE <1>0 DEF TypeOK
    <3>1. ASSUME NEW t \in Threads, Enter(t) PROVE pc[u] = "settle"
      BY <3>1 DEF Enter, Start, Stop, IpcRestart, IpcShutdown, Activate, ApplySettings
    <3>2. ASSUME NEW t \in Threads, Run(t) PROVE pc[u] \in {"spawn", "settle"}
      <4>1. ASSUME NEW p \in Procs, Spawn(t, p) PROVE pc[u] \in {"spawn", "settle"}
        BY <4>1 DEF Spawn
      <4> QED BY <3>2, <4>1 DEF Run, SetLastPath, ApplyRestart, restart_mihomo, ReadLastPath,
                                SetShutdown, StartFails, Settle
    <3>3. ASSUME NEW t \in Threads, Acquire(t) PROVE pc[u] = "settle"
      <4>1. CASE StopStep(t)
        <5>1. next[t] # "settle" /\ pc' = [pc EXCEPT ![t] = next[t]]
          BY <4>1 DEF StopStep
        <5> QED BY <5>1
      <4>2. CASE LockStart(t)
        BY <4>2 DEF LockStart
      <4> QED BY <3>3, <4>1, <4>2 DEF Acquire
    <3>4. CASE Exit \/ BindFails \/ Boot
      BY <3>4 DEF Exit, BindFails, Leave, Boot, BootStep
    <3>5. CASE UNCHANGED pc
      BY <3>5
    <3>6. Environment \/ Serve \/ HttpExit \/ Background \/ UNCHANGED vars => UNCHANGED pc
      BY DEF Environment, Crash, Tick, Signal, Serve, HttpExit, Background, vars
    <3> QED BY <3>1, <3>2, <3>3, <3>4, <3>5, <3>6 DEF Next
  <2> QED BY <1>0, <1>1, <2>1 DEF SpawnInv, SettleInv, is_allowed
<1>2. ASSUME NEW t \in Threads, StartFails(t) \/ Settle(t) PROVE FALSE
  <2>1. pc[t] \in {"spawn", "settle"} /\ pc' = [pc EXCEPT ![t] = "idle"]
    BY <1>2 DEF StartFails, Settle
  <2>2. u # t /\ pc[u] = "settle"
    BY <1>0, <2>1 DEF TypeOK
  <2> QED BY <1>0, <2>1, <2>2 DEF LockInv
<1>3. CASE Tick
  <2>1. pc[u] = "settle" /\ now' = now + 1 /\ breaker' = breaker
    BY <1>3 DEF Tick
  <2>2. is_allowed(breaker, now) /\ breaker \in Breaker /\ now \in Nat
    BY <1>0, <2>1 DEF SettleInv, TypeOK
  <2>3. is_allowed(breaker, now + 1)
    BY <2>2, AllowedStays
  <2> QED BY <2>1, <2>3 DEF is_allowed
<1>4. CASE Boot
  BY <1>4 DEF Boot, NewBreaker, is_allowed
<1>5. UNCHANGED <<breaker, now>> \/ Tick \/ Boot \/ \E t \in Threads : StartFails(t) \/ Settle(t)
  BY DEF Next, Enter, Run, Acquire, Environment, Start, Stop, IpcRestart, IpcShutdown,
         Activate, ApplySettings, WriteActiveConfig, SetLastPath, ApplyRestart,
         ReadLastPath, SetShutdown, StopStep, LockStart, Spawn,
         Crash, Signal, Serve, HttpExit, Background, Exit, BindFails, Leave, vars
<1> QED BY <1>1, <1>2, <1>3, <1>4, <1>5

\* The breaker says of a cool-down what it says of an attempt.
LEMMA CoolingIsRefused ==
  ASSUME IInv
  PROVE  Cooling \in BOOLEAN /\ (Cooling <=> ~is_allowed(breaker, now))
BY AllowedIffNotCooling DEF IInv, TypeOK, Cooling

LEMMA SupervisorInit == Init => Supervisor!Init
BY LifecycleAssumption
   DEF Init, Supervisor!Init, SupervisorState, Up, Tripped, Cooling, NewBreaker, remaining_cooldown_secs

\* A failure trips an untripped breaker, or the supervisor sees nothing of it.
LEMMA FailureTrips ==
  ASSUME IInv, breaker' = record_failure(breaker, now), now' = now
  PROVE  (~Tripped /\ Tripped' /\ Cooling') \/ UNCHANGED <<Tripped, Cooling>>
<1> USE BreakerAssumption
<1>1. breaker \in Breaker /\ now \in Nat
  BY DEF IInv, TypeOK
<1>2. CASE breaker.is_broken
  BY <1>2 DEF record_failure, Tripped, Cooling, remaining_cooldown_secs
<1>3. CASE ~breaker.is_broken /\ breaker.failure_count + 1 >= MAX_FAILURES
  <2>1. breaker'.is_broken = TRUE /\ breaker'.broken_at = now
    BY <1>3 DEF record_failure
  <2>2. ~(now - now >= COOLDOWN) /\ now # NoInstant
    BY <1>1 DEF NoInstant
  <2>3. remaining_cooldown_secs(breaker', now) = COOLDOWN - (now - now)
    BY <2>1, <2>2 DEF remaining_cooldown_secs
  <2>4. COOLDOWN - (now - now) # NoInstant
    BY <1>1 DEF NoInstant
  <2>5. Cooling' <=> remaining_cooldown_secs(breaker', now') # NoInstant
    BY DEF Cooling
  <2> QED BY <1>3, <2>1, <2>3, <2>4, <2>5 DEF Tripped
<1>4. CASE ~breaker.is_broken /\ ~(breaker.failure_count + 1 >= MAX_FAILURES)
  <2>1. breaker' = [breaker EXCEPT !.failure_count = breaker.failure_count + 1]
    BY <1>4 DEF record_failure
  <2>2. breaker'.is_broken = FALSE /\ breaker.is_broken = FALSE
    BY <1>1, <1>4, <2>1 DEF Breaker
  <2>3. Tripped' = FALSE /\ Tripped = FALSE
    BY <2>2 DEF Tripped
  <2>4. Cooling = FALSE
    BY <2>2 DEF Cooling, remaining_cooldown_secs
  <2>5. Cooling' = FALSE
    BY <2>2 DEF Cooling, remaining_cooldown_secs
  <2> QED BY <2>3, <2>4, <2>5
<1> QED BY <1>2, <1>3, <1>4

\* Every step of the lifecycle is a step of the supervisor, or none.
LEMMA SupervisorStep ==
  IInv /\ IInv' /\ SettleInv /\ [Next]_vars => [Supervisor!Next]_supervisorVars
<1> SUFFICES ASSUME IInv, IInv', SettleInv, [Next]_vars
             PROVE  Supervisor!Next \/ UNCHANGED supervisorVars
  OBVIOUS
<1>0. TypeOK /\ LockInv /\ SpawnInv /\ PhaseInv /\ LockInv' /\ TypeOK'
  BY DEF IInv
<1>c. /\ Cooling \in BOOLEAN /\ (Cooling <=> ~is_allowed(breaker, now))
      /\ Cooling' \in BOOLEAN
      /\ UNCHANGED <<breaker, now>> => Cooling' = Cooling
      /\ breaker' = breaker => Tripped' = Tripped
  BY CoolingIsRefused DEF Cooling, Tripped, remaining_cooldown_secs
<1>s. Settling <=> lock # NoThread /\ pc[lock] = "settle"
  BY <1>0, LifecycleAssumption DEF Settling, LockInv, TypeOK
<1>u. \A t \in Threads : pc[t] # "idle" => Up
  BY <1>0 DEF PhaseInv, Up
\* Nothing that the supervisor sees changes.
<1>1. ASSUME UNCHANGED <<child, live, breaker, now>>, Settling' <=> Settling, Up' <=> Up
      PROVE  UNCHANGED supervisorVars
  <2>1. is_running' <=> is_running
    BY <1>1 DEF is_running
  <2>2. SupervisorState' = SupervisorState
    BY <1>1, <2>1 DEF SupervisorState
  <2>3. Up' = Up
    BY <1>1 DEF Up
  <2> QED BY <1>c, <1>1, <2>2, <2>3 DEF supervisorVars
<1>2. ASSUME NEW t \in Threads, pc[t] # "settle", pc'[t] # "settle",
             \A u \in Threads : u # t => pc'[u] = pc[u]
      PROVE  Settling' <=> Settling
  BY <1>2 DEF Settling
<1>3. ASSUME NEW t \in Threads, Enter(t) \/ LockStart(t) \/ SetLastPath(t) \/ ApplyRestart(t)
                                  \/ ReadLastPath(t) \/ SetShutdown(t)
      PROVE  UNCHANGED supervisorVars
  <2>1. /\ pc[t] # "settle" /\ pc'[t] # "settle"
        /\ \A u \in Threads : u # t => pc'[u] = pc[u]
    BY <1>0, <1>3 DEF TypeOK, Enter, Start, Stop, IpcRestart, IpcShutdown, Activate, ApplySettings,
       HttpRequest, IpcRequest,
       LockStart, SetLastPath, ApplyRestart, restart_mihomo, ReadLastPath, SetShutdown
  <2>2. UNCHANGED <<child, live, breaker, now, phase>>
    BY <1>3 DEF Enter, Start, Stop, IpcRestart, IpcShutdown, Activate, ApplySettings,
       WriteActiveConfig, LockStart, SetLastPath, ApplyRestart, ReadLastPath, SetShutdown
  <2> QED BY <1>1, <1>2, <2>1, <2>2 DEF Up
<1>4. ASSUME NEW t \in Threads, StopStep(t)
      PROVE  Supervisor!Next \/ UNCHANGED supervisorVars
  <2>1. ~Settling
    BY <1>s, <1>4 DEF StopStep, MayStop
  <2>2. child' = NoProc /\ UNCHANGED <<breaker, now, phase>> /\ pc[t] # "idle"
    BY <1>4 DEF StopStep
  <2>3. SupervisorState' = "stopped" /\ SupervisorState \in {"stopped", "running", "crashed"}
    BY <2>1, <2>2 DEF SupervisorState
  <2>4. Up /\ Up' = Up
    BY <1>u, <2>2 DEF Up
  <2> QED BY <1>c, <2>2, <2>3, <2>4 DEF Supervisor!Next, Supervisor!Kill, supervisorVars
<1>5. ASSUME NEW t \in Threads, pc[t] = "spawn"
      PROVE  /\ Up /\ ~Settling /\ ~is_running /\ ~Cooling
             /\ SupervisorState \in {"stopped", "crashed"}
  <2>1. lock = t
    BY <1>0, <1>5 DEF LockInv
  <2>2. ~Settling
    BY <1>s, <1>5, <2>1
  <2>3. ~is_running /\ is_allowed(breaker, now)
    BY <1>0, <1>5 DEF SpawnInv
  <2> QED BY <1>c, <1>u, <1>5, <2>2, <2>3 DEF SupervisorState
<1>6. ASSUME NEW t \in Threads, StartFails(t)
      PROVE  Supervisor!Next \/ UNCHANGED supervisorVars
  <2>1. /\ pc[t] = "spawn" /\ UNCHANGED <<child, live, now, phase>>
        /\ pc' = [pc EXCEPT ![t] = "idle"]
        /\ breaker' = record_failure(breaker, now) \/ breaker' = breaker
    BY <1>6 DEF StartFails, Release
  <2>2. ~Settling'
    BY <1>0, <1>5, <2>1 DEF Settling, TypeOK
  <2>3. SupervisorState' = SupervisorState /\ Up' = Up
    BY <1>5, <2>1, <2>2 DEF SupervisorState, is_running, Up
  <2>4. (~Tripped /\ Tripped' /\ Cooling') \/ UNCHANGED <<Tripped, Cooling>>
    BY <1>c, <2>1, FailureTrips
  <2>5. Tripped' => Tripped' = TRUE
    BY <1>0 DEF Tripped, TypeOK, Breaker
  <2> QED BY <1>c, <1>5, <2>1, <2>3, <2>4, <2>5
          DEF Supervisor!Next, Supervisor!FailEarly, Supervisor!Trip, supervisorVars
<1>7. ASSUME NEW t \in Threads, NEW p \in Procs, Spawn(t, p)
      PROVE  Supervisor!Next
  <2>1. /\ pc[t] = "spawn" /\ child' = p /\ UNCHANGED <<breaker, now, phase>>
        /\ live' = live \cup {p}
        /\ pc' = [pc EXCEPT ![t] = "settle"]
    BY <1>7 DEF Spawn
  <2>2. Settling' /\ child' # NoProc /\ is_running'
    BY <1>0, <2>1, LifecycleAssumption DEF Settling, TypeOK, is_running
  <2>3. SupervisorState' = "starting" /\ Up' = Up
    BY <2>1, <2>2 DEF SupervisorState, Up
  <2> QED BY <1>c, <1>5, <2>1, <2>3 DEF Supervisor!Next, Supervisor!Launch
<1>8. ASSUME NEW t \in Threads, Settle(t)
      PROVE  Supervisor!Next
  <2>1. /\ pc[t] = "settle" /\ pc' = [pc EXCEPT ![t] = "idle"]
        /\ UNCHANGED <<live, now, phase>>
    BY <1>8 DEF Settle, Release
  <2>2. lock = t /\ child # NoProc /\ ~Cooling /\ Up /\ Up' = Up
    BY <1>0, <1>c, <1>u, <2>1 DEF LockInv, SpawnInv, SettleInv, Up
  <2>3. SupervisorState = IF is_running THEN "starting" ELSE "failed"
    BY <2>1, <2>2 DEF SupervisorState, Settling
  <2>4. ~Settling'
    BY <1>0, <2>1, <2>2 DEF Settling, LockInv, TypeOK
  <2>5. CASE ~is_running
    <3>1. child' = NoProc /\ breaker' = record_failure(breaker, now)
      BY <1>8, <2>5 DEF Settle
    <3>2. SupervisorState' = "stopped"
      BY <3>1 DEF SupervisorState
    <3>3. (~Tripped /\ Tripped' /\ Cooling') \/ UNCHANGED <<Tripped, Cooling>>
      BY <2>1, <3>1, FailureTrips
    <3>4. Tripped' => Tripped' = TRUE
      BY <1>0 DEF Tripped, TypeOK, Breaker
    <3> QED BY <1>c, <2>2, <2>3, <2>5, <3>2, <3>3, <3>4
            DEF Supervisor!Next, Supervisor!GiveUp, Supervisor!Trip
  <2>6. CASE is_running
    <3>1. child' = child /\ breaker' = NewBreaker
      BY <1>8, <2>6, NewBreakerShape DEF Settle
    <3>2. is_running'
      BY <2>1, <2>6, <3>1 DEF is_running
    <3>3. SupervisorState' = "running"
      BY <2>2, <2>4, <3>1, <3>2 DEF SupervisorState
    <3>4. ~Cooling' /\ Tripped' = FALSE
      BY <3>1 DEF Cooling, Tripped, NewBreaker, remaining_cooldown_secs
    <3> QED BY <1>c, <2>2, <2>3, <2>6, <3>3, <3>4 DEF Supervisor!Next, Supervisor!Confirm
  <2> QED BY <2>5, <2>6
<1>9. ASSUME NEW p \in Procs, Crash(p)
      PROVE  Supervisor!Next \/ UNCHANGED supervisorVars
  <2>1. /\ UNCHANGED <<child, breaker, now, pc, phase>> /\ live' = live \ {p} /\ p \in live
        /\ (Settling' <=> Settling) /\ Up' = Up /\ (Up' <=> Up)
    BY <1>9 DEF Crash, Settling, Up
  <2>2. CASE p = child
    <3>1. child # NoProc /\ is_running /\ ~is_running'
      BY <2>1, <2>2, LifecycleAssumption DEF is_running
    <3>2. Up
      BY <1>0, <3>1 DEF PhaseInv, Up
    <3>3. \/ SupervisorState = "starting" /\ SupervisorState' = "failed"
          \/ SupervisorState = "running" /\ SupervisorState' = "crashed"
      BY <2>1, <3>1 DEF SupervisorState
    <3> QED BY <1>c, <2>1, <3>2, <3>3 DEF Supervisor!Next, Supervisor!Die
  <2>3. CASE p # child
    <3>1. is_running' <=> is_running
      BY <2>1, <2>3 DEF is_running
    <3>2. SupervisorState' = SupervisorState
      BY <2>1, <3>1 DEF SupervisorState
    <3> QED BY <1>c, <2>1, <3>2 DEF supervisorVars
  <2> QED BY <2>2, <2>3
<1>10. CASE Tick
  <2>1. UNCHANGED <<child, live, breaker, pc, phase>> /\ now' = now + 1
    BY <1>10 DEF Tick
  <2>2. SupervisorState' = SupervisorState /\ Up' = Up
    BY <2>1 DEF SupervisorState, Settling, is_running, Up
  <2>3. ~Cooling => ~Cooling'
    <3>1. ~Cooling => is_allowed(breaker, now + 1)
      BY <1>0, <1>c, AllowedStays DEF TypeOK
    <3>2. now + 1 \in Nat /\ breaker \in Breaker /\ BreakerShape(breaker)
      BY <1>0 DEF TypeOK, IInv
    <3>3. is_allowed(breaker, now + 1) <=> remaining_cooldown_secs(breaker, now + 1) = NoInstant
      BY <3>2, AllowedIffNotCooling
    <3>4. Cooling' <=> remaining_cooldown_secs(breaker, now + 1) # NoInstant
      BY <2>1 DEF Cooling, remaining_cooldown_secs
    <3> QED BY <3>1, <3>3, <3>4
  <2> QED BY <1>c, <2>1, <2>2, <2>3 DEF Supervisor!Next, Supervisor!CoolDown, supervisorVars
<1>11. CASE Exit \/ BindFails
  <2>1. child' = NoProc /\ UNCHANGED <<breaker, now>> /\ Up /\ ~Up'
    BY <1>11 DEF Exit, BindFails, Leave, Up
  <2>2. SupervisorState' = "stopped"
    BY <2>1 DEF SupervisorState
  <2> QED BY <1>c, <2>1, <2>2 DEF Supervisor!Next, Supervisor!ServiceEnds
<1>12. CASE Boot
  <2>1. child = NoProc /\ child' = NoProc /\ breaker' = NewBreaker /\ ~Up /\ Up'
    BY <1>0, <1>12 DEF Boot, PhaseInv, Up
  <2>2. SupervisorState' = SupervisorState
    BY <2>1 DEF SupervisorState
  <2>3. ~Cooling' /\ Tripped' = FALSE
    BY <2>1 DEF Cooling, Tripped, NewBreaker, remaining_cooldown_secs
  <2> QED BY <1>c, <2>1, <2>2, <2>3 DEF Supervisor!Next, Supervisor!ServiceStarts
<1>13. CASE Signal \/ Serve \/ HttpExit \/ Background \/ UNCHANGED vars
  <2>1. UNCHANGED <<child, live, breaker, now, pc>> /\ (Up' <=> Up)
    BY <1>13 DEF Signal, Serve, HttpExit, Background, vars, serviceVars, handleVars, threadVars, Up
  <2> QED BY <1>1, <2>1 DEF Settling
<1> QED
  BY <1>3, <1>4, <1>6, <1>7, <1>8, <1>9, <1>10, <1>11, <1>12, <1>13
  DEF Next, Run, Acquire, Environment

\* The locked, threaded lifecycle implements the supervisor: for any number of
\* threads and processes a running Mihomo is never replaced without a stop, no
\* stop takes one away that its start has not confirmed, nothing is launched in a
\* cool-down, and each trip of the breaker has one cool-down only.
THEOREM LifecycleImplementsSupervisor == Spec => ImplementsSupervisor
<1>1. Init => SettleInv
  BY LifecycleAssumption DEF Init, BootStep, SettleInv
<1>2. Spec => [](IInv /\ SettleInv)
  BY <1>1, InitIInv, StepIInv, SettleStep, PTL DEF Spec
<1> QED
  BY <1>2, SupervisorInit, SupervisorStep, PTL DEF Spec, ImplementsSupervisor, Supervisor!Spec,
     Supervisor!vars, supervisorVars
=============================================================================
