-------------------------------- MODULE MCCron --------------------------------
(* Instances of CronScheduler for TLC. *)
EXTENDS CronScheduler
=============================================================================
