-------------------------- MODULE MihomoSupervisor --------------------------
(***************************************************************************)
(* What the lifecycle code promises about the one Mihomo it manages,       *)
(* without threads, locks, processes or counters.  While the service is    *)
(* up, the managed process is stopped, starting (spawned and not confirmed *)
(* yet), failed (exited before that), running, or crashed (exited later,   *)
(* its handle not collected yet).  The circuit breaker trips once and      *)
(* keeps start attempts away while it is cooling; it can trip again only   *)
(* after a start was confirmed.                                            *)
(***************************************************************************)
VARIABLES up, st, tripped, cooling

Init == up = TRUE /\ st = "stopped" /\ tripped = FALSE /\ cooling = FALSE

Trip == ~tripped /\ tripped' = TRUE /\ cooling' = TRUE

\* Only a Mihomo that is not running is launched, and not during a cool-down.
Launch ==
  /\ up /\ st \in {"stopped", "crashed"}
  /\ ~cooling
  /\ st' = "starting"
  /\ UNCHANGED <<up, tripped, cooling>>

\* An attempt that fails before there is a process can trip the breaker.
FailEarly ==
  /\ up /\ st \in {"stopped", "crashed"}
  /\ ~cooling
  /\ Trip
  /\ UNCHANGED <<up, st>>

\* A launched process is confirmed, or exits and is given up; the second can
\* trip the breaker.
Confirm ==
  /\ up /\ st = "starting" /\ st' = "running"
  /\ tripped' = FALSE
  /\ UNCHANGED <<up, cooling>>

Die ==
  /\ up
  /\ \/ st = "starting" /\ st' = "failed"
     \/ st = "running" /\ st' = "crashed"
  /\ UNCHANGED <<up, tripped, cooling>>

GiveUp ==
  /\ up /\ st = "failed" /\ st' = "stopped"
  /\ Trip \/ UNCHANGED <<tripped, cooling>>
  /\ UNCHANGED up

\* A stop request finds the process confirmed.
Kill ==
  /\ up /\ st \in {"running", "crashed"} /\ st' = "stopped"
  /\ UNCHANGED <<up, tripped, cooling>>

\* The service process ends, whatever its Mihomo is doing, and is started again.
ServiceEnds ==
  /\ up /\ ~up'
  /\ st' = "stopped"
  /\ UNCHANGED <<tripped, cooling>>

ServiceStarts ==
  /\ ~up /\ up'
  /\ tripped' = FALSE /\ cooling' = FALSE
  /\ UNCHANGED st

CoolDown == cooling /\ cooling' = FALSE /\ UNCHANGED <<up, st, tripped>>

Next == Launch \/ FailEarly \/ Confirm \/ Die \/ GiveUp \/ Kill \/ ServiceEnds
          \/ ServiceStarts \/ CoolDown

vars == <<up, st, tripped, cooling>>

Spec == Init /\ [][Next]_vars
=============================================================================
