---------------------------- MODULE CronScheduler ----------------------------
(***************************************************************************)
(* Scheduled subscription updates (control-tower-service/src/scheduler.rs). *)
(* The main loop checks the cron jobs once a minute: it collects the due    *)
(* ones under the lock of `cron_jobs`, downloads outside of it, and books   *)
(* the results under the lock again.  HTTP handlers edit profiles.yaml and  *)
(* rebuild the job list meanwhile.                                          *)
(*                                                                          *)
(* Time is counted in minutes, the unit of a schedule and of the check; an  *)
(* instant in the future is the number of minutes that are left until then. *)
(***************************************************************************)
EXTENDS Integers, SequencesExt, SequenceFilter

CONSTANTS
  Profiles,               \* profile uids
  Crons,                  \* the values a user gives to cron, in minutes
  MAX_CRON_INTERVAL_MINS,
  MAX_BACKOFF,            \* MAX_BACKOFF_SECS, in minutes
  MAX_EXPONENT,           \* 20, the largest exponent of the back-off
  NoCron

ASSUME CronAssumption ==
  /\ Crons \subseteq Nat \ {0}
  /\ MAX_CRON_INTERVAL_MINS \in Nat \ {0}
  /\ MAX_BACKOFF \in Nat \ {0}
  /\ MAX_EXPONENT \in Nat
  /\ NoCron \notin Nat

VARIABLES
  items,        \* profiles.yaml: the uids in order
  cron,         \* profiles.yaml: the cron of each, NoCron for what is not listed
  reloads,      \* a handler changed profiles.yaml and is about to reload
  jobs,         \* ServiceState::cron_jobs
  mode,         \* main: "wait", or "fetch" between the two locked parts
  check_due,    \* main: a minute has passed since the last check
  batch,        \* main: due jobs still to download, with their indexes
  results,      \* main: outcomes to book
  stale,        \* history: the list was rebuilt since the batch was collected
  since         \* history: minutes since the profile's last download by this
                \* job list, Forever when there was none

mainVars == <<mode, check_due, batch, results>>
vars == <<items, cron, reloads, jobs, mainVars, stale, since>>

\* Schedule::parse
Schedules == 1..MAX_CRON_INTERVAL_MINS

Longest == Max({MAX_CRON_INTERVAL_MINS, MAX_BACKOFF})

Forever == Longest + 1

Job == [profile_id : Profiles, minutes : Schedules, next_run : 0..Longest,
        failure_count : 0..MAX_EXPONENT]

TypeOK ==
  /\ items \in Seq(Profiles) /\ IsInjective(items)
  /\ cron \in [Profiles -> Crons \cup {NoCron}]
  /\ \A u \in Profiles \ ToSet(items) : cron[u] = NoCron
  /\ reloads \in BOOLEAN
  /\ jobs \in Seq(Job)
  /\ \A i, j \in DOMAIN jobs : jobs[i].profile_id = jobs[j].profile_id => i = j
  /\ mode \in {"wait", "fetch"}
  /\ check_due \in BOOLEAN
  /\ batch \in Seq([idx : Nat, profile_id : Profiles, minutes : Schedules])
  /\ results \in Seq([idx : Nat, profile_id : Profiles, ok : BOOLEAN])
  /\ mode = "wait" => batch = <<>> /\ results = <<>>
  /\ stale \in BOOLEAN
  /\ since \in [Profiles -> 0..Forever]

-----------------------------------------------------------------------------
(***************************************************************************)
(* ProfileCronJob.                                                         *)
(***************************************************************************)
NewJob(u) == [profile_id |-> u, minutes |-> cron[u], next_run |-> cron[u],
              failure_count |-> 0]

is_due(job) == job.next_run = 0

\* Faulty variant: the retry is due at the next check.
mark_failure_no_backoff(job) ==
  [job EXCEPT !.failure_count = Min({@ + 1, MAX_EXPONENT}), !.next_run = 0]

\* Faulty variant: the cap is left out.
mark_failure_no_cap(job) ==
  LET n == Min({job.failure_count + 1, MAX_EXPONENT}) IN
  [job EXCEPT !.failure_count = n, !.next_run = job.minutes * 2^n]

\* Only min(failure_count, 20) counts, so the count is kept up to that.
mark_failure(job) ==
  LET n == Min({job.failure_count + 1, MAX_EXPONENT}) IN
  [job EXCEPT !.failure_count = n,
              !.next_run = Min({job.minutes * 2^n, MAX_BACKOFF})]

mark_success(job) == [job EXCEPT !.failure_count = 0, !.next_run = job.minutes]

-----------------------------------------------------------------------------
Init ==
  /\ items = <<>>
  /\ cron = [u \in Profiles |-> NoCron]
  /\ reloads = FALSE
  /\ jobs = <<>>
  /\ mode = "wait"
  /\ check_due = FALSE
  /\ batch = <<>>
  /\ results = <<>>
  /\ stale = FALSE
  /\ since = [u \in Profiles |-> Forever]

(***************************************************************************)
(* The handlers of api/profile_handlers.rs, as far as they concern cron.   *)
(***************************************************************************)
\* A new profile has no cron, and the jobs stay as they are.
add_profile(u) ==
  /\ u \notin ToSet(items)
  /\ items' = Append(items, u)
  /\ UNCHANGED <<cron, reloads, jobs, mainVars, stale, since>>

\* The job of a deleted profile stays, too.
delete_profile(u) ==
  /\ u \in ToSet(items)
  /\ items' = Without(items, {u})
  /\ cron' = [cron EXCEPT ![u] = NoCron]
  /\ UNCHANGED <<reloads, jobs, mainVars, stale, since>>

\* Any positive number is accepted; with a new URL the cron given is dropped.
update_profile(u, c) ==
  /\ u \in ToSet(items)
  /\ ~reloads
  /\ cron' = [cron EXCEPT ![u] = c]
  /\ reloads' = TRUE
  /\ UNCHANGED <<items, jobs, mainVars, stale, since>>

\* The items with a cron that parses; the others get a warning.  A file that
\* cannot be read or parsed leaves the jobs alone.
load_cron_jobs ==
  LET scheduled == Without(items, {u \in Profiles : cron[u] \notin Schedules}) IN
  /\ reloads
  /\ reloads' = FALSE
  /\ \/ /\ jobs' = [i \in DOMAIN scheduled |-> NewJob(scheduled[i])]
        /\ stale' = (mode = "fetch")
        /\ since' = [u \in Profiles |-> Forever]
     \/ UNCHANGED <<jobs, stale, since>>
  /\ UNCHANGED <<items, cron, mainVars>>

-----------------------------------------------------------------------------
(***************************************************************************)
(* check_and_run_crons.                                                    *)
(***************************************************************************)
DueIndexes ==
  Without([i \in DOMAIN jobs |-> i], {i \in DOMAIN jobs : ~is_due(jobs[i])})

CollectDue ==
  /\ mode = "wait"
  /\ check_due
  /\ IF DueIndexes = <<>>
       THEN check_due' = FALSE /\ UNCHANGED <<mode, batch>>
       ELSE /\ mode' = "fetch"
            /\ batch' = [k \in DOMAIN DueIndexes |->
                           LET i == DueIndexes[k] IN
                           [idx |-> i, profile_id |-> jobs[i].profile_id,
                            minutes |-> jobs[i].minutes]]
            /\ UNCHANGED check_due
  /\ stale' = FALSE
  /\ UNCHANGED <<items, cron, reloads, jobs, results, since>>

\* One download of the batch, successful or not.
Download(ok) ==
  /\ batch # <<>>
  /\ LET b == Head(batch) IN
     /\ results' = Append(results, [idx |-> b.idx, profile_id |-> b.profile_id, ok |-> ok])
     /\ since' = [since EXCEPT ![b.profile_id] = IF stale THEN Forever ELSE 0]
  /\ batch' = Tail(batch)
  /\ UNCHANGED <<items, cron, reloads, jobs, mode, check_due, stale>>

\* Faulty variant: the last result is forgotten.
OutcomesButLast(i) == {k \in DOMAIN results : k < Len(results) /\ results[k].idx = i}

\* The results booked on the job at index i: by index, not by profile.
Outcomes(i) == {k \in DOMAIN results : results[k].idx = i}

Booked(i) ==
  IF Outcomes(i) = {} THEN jobs[i]
  ELSE IF results[Min(Outcomes(i))].ok THEN mark_success(jobs[i])
                                       ELSE mark_failure(jobs[i])

BookResults ==
  /\ mode = "fetch"
  /\ batch = <<>>
  /\ jobs' = [i \in DOMAIN jobs |-> Booked(i)]
  /\ results' = <<>>
  /\ mode' = "wait"
  /\ check_due' = FALSE
  /\ UNCHANGED <<items, cron, reloads, batch, stale, since>>

\* A minute passes.
Tick ==
  /\ check_due' = TRUE
  /\ jobs' = [i \in DOMAIN jobs |-> [jobs[i] EXCEPT !.next_run = Max({0, @ - 1})]]
  /\ since' = [u \in Profiles |-> Min({Forever, since[u] + 1})]
  /\ UNCHANGED <<items, cron, reloads, mode, batch, results, stale>>

-----------------------------------------------------------------------------
Main == CollectDue \/ (\E ok \in BOOLEAN : Download(ok)) \/ BookResults

Handlers ==
  \/ \E u \in Profiles : add_profile(u) \/ delete_profile(u)
  \/ \E u \in Profiles, c \in Crons \cup {NoCron} : update_profile(u, c)
  \/ load_cron_jobs

Next == Main \/ Handlers \/ Tick

Spec == Init /\ [][Next]_vars

\* The main loop goes on, every download has a timeout, and time passes.
FairSpec == Spec /\ WF_vars(Main) /\ WF_vars(Tick)

-----------------------------------------------------------------------------
(***************************************************************************)
(* Properties.                                                             *)
(***************************************************************************)
\* While the job list stays, a subscription is not downloaded again before its
\* interval, or the back-off cap when that is shorter, has passed since the last
\* attempt: no check runs into the downloads of the one before it, and every
\* result moves its job on.
SpacedAttempts ==
  [][\A ok \in BOOLEAN : Download(ok) /\ ~stale =>
       since[Head(batch).profile_id] >= Min({Head(batch).minutes, MAX_BACKOFF})]_vars

\* A job that is due is taken care of: it is downloaded and moved on, or the list
\* is rebuilt, whatever the handlers and other downloads do.
DueIsServed ==
  \A u \in Profiles :
    (\E i \in DOMAIN jobs : jobs[i].profile_id = u /\ is_due(jobs[i]))
      ~> ~(\E i \in DOMAIN jobs : jobs[i].profile_id = u /\ is_due(jobs[i]))

\* scheduler.rs calls failure_count the number of consecutive failures since the
\* last success, of this job.  Results are booked by index: when the list was
\* rebuilt during the downloads, they are booked on other profiles' jobs.
FailuresAreOwn ==
  [][BookResults =>
       \A i \in DOMAIN jobs : jobs'[i] # jobs[i] =>
         \E k \in DOMAIN results : results[k].profile_id = jobs[i].profile_id]_vars
=============================================================================
