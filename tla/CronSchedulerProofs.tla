------------------------- MODULE CronSchedulerProofs -------------------------
(***************************************************************************)
(* Proofs about CronScheduler, for every set of profiles, every schedule   *)
(* and every limit.                                                        *)
(***************************************************************************)
EXTENDS CronScheduler, SequenceFilterFacts

\* How long a job waits at least between two attempts.
Spacing(minutes) == Min({minutes, MAX_BACKOFF})

\* The time since the last attempt and the time left add up to the spacing.
Spaced(job) == since[job.profile_id] + job.next_run >= Spacing(job.minutes)

\* The job at index i was tried and is not booked yet.
Tried(i) == ~stale /\ \E k \in DOMAIN results : results[k].idx = i

\* What is left of a batch on the list it was collected from: jobs that are due,
\* each once, none of them tried yet.
BatchOwn ==
  /\ \A k \in DOMAIN batch :
       LET b == batch[k] IN
       /\ b.idx \in DOMAIN jobs
       /\ jobs[b.idx].profile_id = b.profile_id
       /\ jobs[b.idx].minutes = b.minutes
       /\ is_due(jobs[b.idx])
       /\ ~Tried(b.idx)
  /\ \A k, l \in DOMAIN batch : batch[k].idx = batch[l].idx => k = l

SpacedInv ==
  /\ \A i \in DOMAIN jobs : Spaced(jobs[i]) \/ Tried(i)
  /\ mode = "fetch" /\ ~stale => BatchOwn

-----------------------------------------------------------------------------
(***************************************************************************)
(* The operators of the model.                                             *)
(***************************************************************************)
LEMMA LongestIs ==
  /\ Longest \in Nat /\ MAX_CRON_INTERVAL_MINS <= Longest /\ MAX_BACKOFF <= Longest
  /\ Forever = Longest + 1 /\ MAX_BACKOFF \in Nat \ {0} /\ MAX_EXPONENT \in Nat
BY CronAssumption, MaxPair DEF Longest, Forever

LEMMA SpacingIs ==
  ASSUME NEW m \in Schedules
  PROVE  /\ Spacing(m) \in Nat /\ Spacing(m) <= m /\ Spacing(m) <= MAX_BACKOFF
         /\ m \in Nat /\ m <= Longest
<1>1. m \in Nat /\ m <= Longest
  BY LongestIs, CronAssumption DEF Schedules
<1>2. Spacing(m) = IF m <= MAX_BACKOFF THEN m ELSE MAX_BACKOFF
  BY <1>1, LongestIs, MinPair DEF Spacing
<1> QED BY <1>1, <1>2, LongestIs

LEMMA NewJobType ==
  ASSUME NEW u \in Profiles, cron[u] \in Schedules
  PROVE  NewJob(u) \in Job /\ NewJob(u).profile_id = u
<1>1. cron[u] \in 0..Longest
  BY LongestIs, CronAssumption DEF Schedules
<1>2. 0 \in 0..MAX_EXPONENT
  BY LongestIs
<1> QED BY <1>1, <1>2 DEF NewJob, Job

\* A booked result gives its job a delay that keeps the spacing.
LEMMA SuccessType ==
  ASSUME NEW job \in Job
  PROVE  /\ mark_success(job) \in Job
         /\ mark_success(job).profile_id = job.profile_id
         /\ mark_success(job).minutes = job.minutes
         /\ mark_success(job).next_run >= Spacing(job.minutes)
<1>1. job.minutes \in Schedules
  BY DEF Job
<1>2. job.minutes \in 0..Longest /\ job.minutes >= Spacing(job.minutes)
  BY <1>1, SpacingIs, LongestIs
<1>3. 0 \in 0..MAX_EXPONENT
  BY LongestIs
<1> QED BY <1>2, <1>3 DEF mark_success, Job

LEMMA FailureType ==
  ASSUME NEW job \in Job
  PROVE  /\ mark_failure(job) \in Job
         /\ mark_failure(job).profile_id = job.profile_id
         /\ mark_failure(job).minutes = job.minutes
         /\ mark_failure(job).next_run >= Spacing(job.minutes)
<1> DEFINE m == job.minutes
           n == Min({job.failure_count + 1, MAX_EXPONENT})
           d == Min({m * 2^n, MAX_BACKOFF})
<1>1. m \in Schedules /\ job.failure_count \in 0..MAX_EXPONENT
  BY DEF Job
<1>2. /\ m \in Nat /\ Spacing(m) \in Nat /\ Spacing(m) <= m /\ Spacing(m) <= MAX_BACKOFF
  BY <1>1, SpacingIs
<1>3. n \in 0..MAX_EXPONENT /\ n \in Nat
  <2>1. job.failure_count + 1 \in Nat
    BY <1>1, LongestIs
  <2>2. n = IF job.failure_count + 1 <= MAX_EXPONENT THEN job.failure_count + 1 ELSE MAX_EXPONENT
    BY <2>1, LongestIs, MinPair
  <2> QED BY <2>1, <2>2, LongestIs
<1> HIDE DEF n
<1>4. m * 2^n \in Nat /\ m * 2^n >= m
  <2>1. 2^n \in Nat /\ 2^n >= 1
    BY <1>3, PowerOfTwo
  <2>2. ASSUME NEW a \in Nat, NEW p \in Nat, p >= 1 PROVE a * p \in Nat /\ a * p >= a
    BY <2>2
  <2> HIDE DEF m
  <2> QED BY <1>2, <2>1, <2>2
<1>5. d \in 0..Longest /\ d >= Spacing(m)
  <2> HIDE DEF m
  <2>1. ASSUME NEW a \in Nat, a = m * 2^n
        PROVE  Min({m * 2^n, MAX_BACKOFF}) = IF a <= MAX_BACKOFF THEN a ELSE MAX_BACKOFF
    BY <2>1, LongestIs, MinPair
  <2> QED BY <1>2, <1>4, <2>1, LongestIs
<1> HIDE DEF d
<1>6. mark_failure(job) = [job EXCEPT !.failure_count = n, !.next_run = d]
  BY DEF mark_failure, n, d
<1> QED BY <1>3, <1>5, <1>6 DEF Job

LEMMA BookedType ==
  ASSUME NEW i \in DOMAIN jobs, jobs \in Seq(Job)
  PROVE  /\ Booked(i) \in Job
         /\ Booked(i).profile_id = jobs[i].profile_id
         /\ Booked(i).minutes = jobs[i].minutes
         /\ Outcomes(i) # {} => Booked(i).next_run >= Spacing(jobs[i].minutes)
         /\ Outcomes(i) = {} => Booked(i) = jobs[i]
<1>1. jobs[i] \in Job
  OBVIOUS
<1>2. Booked(i) \in {jobs[i], mark_success(jobs[i]), mark_failure(jobs[i])}
  BY DEF Booked
<1>3. Outcomes(i) # {} => Booked(i) \in {mark_success(jobs[i]), mark_failure(jobs[i])}
  BY DEF Booked
<1>4. Outcomes(i) = {} => Booked(i) = jobs[i]
  BY DEF Booked
<1> HIDE DEF Outcomes
<1> QED BY <1>1, <1>2, <1>3, <1>4, SuccessType, FailureType

\* The due jobs, each index once.
LEMMA DueIndexesType ==
  ASSUME jobs \in Seq(Job)
  PROVE  /\ DueIndexes \in Seq(DOMAIN jobs)
         /\ \A k \in DOMAIN DueIndexes : DueIndexes[k] \in DOMAIN jobs /\ is_due(jobs[DueIndexes[k]])
         /\ \A k, l \in DOMAIN DueIndexes : DueIndexes[k] = DueIndexes[l] => k = l
<1> DEFINE s == [i \in DOMAIN jobs |-> i]
           S == {i \in DOMAIN jobs : ~is_due(jobs[i])}
           t == Without(s, S)
<1>1. s \in Seq(DOMAIN jobs) /\ \A i, j \in DOMAIN s : s[i] = s[j] => i = j
  OBVIOUS
<1>2. ToSet(s) = DOMAIN jobs
  BY DEF ToSet
<1>3. DueIndexes = t
  BY DEF DueIndexes
<1> HIDE DEF s, S
<1>4. t \in Seq(DOMAIN jobs) /\ ToSet(t) = DOMAIN jobs \ S
  BY <1>1, <1>2, WithoutType
<1>5. \A k, l \in DOMAIN t : t[k] = t[l] => k = l
  BY <1>1, WithoutInjective
<1> HIDE DEF t
<1>6. ASSUME NEW k \in DOMAIN t PROVE t[k] \in DOMAIN jobs \ S
  BY <1>4 DEF ToSet
<1>7. ASSUME NEW k \in DOMAIN t PROVE t[k] \in DOMAIN jobs /\ is_due(jobs[t[k]])
  BY <1>6 DEF S
<1> QED BY <1>3, <1>4, <1>5, <1>7

LEMMA TickedType ==
  ASSUME NEW job \in Job
  PROVE  /\ [job EXCEPT !.next_run = Max({0, @ - 1})] \in Job
         /\ Max({0, job.next_run - 1}) \in Nat
         /\ Max({0, job.next_run - 1}) + 1 >= job.next_run
         /\ job.next_run = 0 => Max({0, job.next_run - 1}) = 0
<1>1. job.next_run \in 0..Longest /\ Longest \in Nat
  BY LongestIs DEF Job
<1>2. Max({0, job.next_run - 1}) = IF 0 >= job.next_run - 1 THEN 0 ELSE job.next_run - 1
  BY <1>1, MaxPair
<1>3. Max({0, job.next_run - 1}) \in 0..Longest
  BY <1>1, <1>2
<1> QED BY <1>1, <1>2, <1>3 DEF Job

-----------------------------------------------------------------------------
(***************************************************************************)
(* Type correctness.                                                       *)
(***************************************************************************)
OneJobEach(js) == \A i, j \in DOMAIN js : js[i].profile_id = js[j].profile_id => i = j

\* The list that load_cron_jobs builds.
LEMMA LoadedType ==
  ASSUME TypeOK
  PROVE  LET scheduled == Without(items, {u \in Profiles : cron[u] \notin Schedules})
             js == [i \in DOMAIN scheduled |-> NewJob(scheduled[i])]
         IN  js \in Seq(Job) /\ OneJobEach(js)
<1> DEFINE S == {u \in Profiles : cron[u] \notin Schedules}
           scheduled == Without(items, S)
           js == [i \in DOMAIN scheduled |-> NewJob(scheduled[i])]
<1>1. items \in Seq(Profiles) /\ \A i, j \in DOMAIN items : items[i] = items[j] => i = j
  BY DEF TypeOK, IsInjective
<1> HIDE DEF S
<1>2. scheduled \in Seq(Profiles) /\ ToSet(scheduled) = ToSet(items) \ S
  BY <1>1, WithoutType
<1>3. \A i, j \in DOMAIN scheduled : scheduled[i] = scheduled[j] => i = j
  BY <1>1, WithoutInjective
<1> HIDE DEF scheduled
<1>4. ASSUME NEW i \in DOMAIN scheduled
      PROVE  NewJob(scheduled[i]) \in Job /\ NewJob(scheduled[i]).profile_id = scheduled[i]
  <2>1. scheduled[i] \in Profiles \ S
    BY <1>2 DEF ToSet
  <2>2. cron[scheduled[i]] \in Schedules
    BY <2>1 DEF S
  <2> QED BY <2>1, <2>2, NewJobType
<1>5. DOMAIN scheduled = 1..Len(scheduled) /\ Len(scheduled) \in Nat
  BY <1>2
<1>6. js \in Seq(Job)
  BY <1>4, <1>5
<1>7. OneJobEach(js)
  BY <1>3, <1>4 DEF OneJobEach
<1> QED BY <1>6, <1>7 DEF scheduled, S

\* Changing the jobs in place.
LEMMA InPlaceType ==
  ASSUME TypeOK, NEW f, DOMAIN f = DOMAIN jobs,
         \A i \in DOMAIN jobs : f[i] \in Job /\ f[i].profile_id = jobs[i].profile_id,
         f = [i \in DOMAIN jobs |-> f[i]]
  PROVE  f \in Seq(Job) /\ OneJobEach(f)
<1>1. DOMAIN jobs = 1..Len(jobs) /\ Len(jobs) \in Nat
  BY DEF TypeOK
<1>2. f \in Seq(Job)
  BY <1>1
<1> QED BY <1>2 DEF TypeOK, OneJobEach

LEMMA TypeStep == TypeOK /\ [Next]_vars => TypeOK'
<1> SUFFICES ASSUME TypeOK, [Next]_vars PROVE TypeOK'
  OBVIOUS
<1>1. ASSUME NEW u \in Profiles, add_profile(u) PROVE TypeOK'
  <2>1. /\ u \notin ToSet(items) /\ items' = Append(items, u)
        /\ UNCHANGED <<cron, reloads, jobs, mainVars, stale, since>>
    BY <1>1 DEF add_profile
  <2>2. items' \in Seq(Profiles) /\ ToSet(items') = ToSet(items) \cup {u}
    BY <2>1, ToSetAppend DEF TypeOK
  <2>3. IsInjective(items')
    <3>1. \A i \in 1..Len(items) : items'[i] = items[i] /\ items[i] # u
      BY <2>1 DEF TypeOK, ToSet
    <3>2. DOMAIN items' = 1..(Len(items) + 1) /\ items'[Len(items) + 1] = u /\ DOMAIN items = 1..Len(items)
      BY <2>1 DEF TypeOK
    <3>3. \A i, j \in 1..Len(items) : items[i] = items[j] => i = j
      BY <3>2 DEF TypeOK, IsInjective
    <3>4. Len(items) \in Nat
      BY DEF TypeOK
    <3>5. ASSUME NEW i \in 1..(Len(items) + 1), NEW j \in 1..(Len(items) + 1), items'[i] = items'[j]
          PROVE  i = j
      <4>1. i \in 1..Len(items) \/ i = Len(items) + 1
        BY <3>4
      <4>2. j \in 1..Len(items) \/ j = Len(items) + 1
        BY <3>4
      <4> QED BY <3>1, <3>2, <3>3, <3>5, <4>1, <4>2
    <3> QED BY <3>2, <3>5 DEF IsInjective
  <2> QED BY <2>1, <2>2, <2>3 DEF TypeOK, mainVars
<1>2. ASSUME NEW u \in Profiles, delete_profile(u) PROVE TypeOK'
  <2>1. /\ items' = Without(items, {u}) /\ cron' = [cron EXCEPT ![u] = NoCron]
        /\ UNCHANGED <<reloads, jobs, mainVars, stale, since>>
    BY <1>2 DEF delete_profile
  <2>2. items' \in Seq(Profiles) /\ ToSet(items') = ToSet(items) \ {u}
    BY <2>1, WithoutType DEF TypeOK
  <2>3. IsInjective(items')
    <3>1. \A i, j \in DOMAIN items : items[i] = items[j] => i = j
      BY DEF TypeOK, IsInjective
    <3>2. \A i, j \in DOMAIN Without(items, {u}) :
             Without(items, {u})[i] = Without(items, {u})[j] => i = j
      BY <3>1, WithoutInjective DEF TypeOK
    <3> QED BY <2>1, <3>2 DEF IsInjective
  <2>4. /\ cron' \in [Profiles -> Crons \cup {NoCron}]
        /\ \A v \in Profiles \ ToSet(items') : cron'[v] = NoCron
    BY <2>1, <2>2 DEF TypeOK
  <2> QED BY <2>1, <2>2, <2>3, <2>4 DEF TypeOK, mainVars
<1>3. ASSUME NEW u \in Profiles, NEW c \in Crons \cup {NoCron}, update_profile(u, c) PROVE TypeOK'
  BY <1>3 DEF update_profile, TypeOK, mainVars
<1>4. ASSUME load_cron_jobs PROVE TypeOK'
  <2>1. reloads' = FALSE /\ UNCHANGED <<items, cron, mainVars>>
    BY <1>4 DEF load_cron_jobs
  <2>2. jobs' \in Seq(Job) /\ OneJobEach(jobs') /\ stale' \in BOOLEAN /\ since' \in [Profiles -> 0..Forever]
    <3> DEFINE scheduled == Without(items, {u \in Profiles : cron[u] \notin Schedules})
               js == [i \in DOMAIN scheduled |-> NewJob(scheduled[i])]
    <3>1. js \in Seq(Job) /\ OneJobEach(js)
      BY LoadedType
    <3>2. \/ /\ jobs' = js /\ stale' = (mode = "fetch")
             /\ since' = [u \in Profiles |-> Forever]
          \/ UNCHANGED <<jobs, stale, since>>
      BY <1>4 DEF load_cron_jobs
    <3> HIDE DEF js
    <3>3. Forever \in 0..Forever
      BY LongestIs
    <3> QED BY <3>1, <3>2, <3>3 DEF TypeOK, OneJobEach
  <2> QED BY <2>1, <2>2 DEF TypeOK, OneJobEach, mainVars
<1>5. ASSUME CollectDue PROVE TypeOK'
  <2>1. /\ mode = "wait" /\ stale' = FALSE
        /\ UNCHANGED <<items, cron, reloads, jobs, results, since>>
    BY <1>5 DEF CollectDue
  <2>2. /\ check_due' \in BOOLEAN
        /\ batch' \in Seq([idx : Nat, profile_id : Profiles, minutes : Schedules])
        /\ (mode' = "wait" /\ batch' = batch) \/ mode' = "fetch"
    <3>1. CASE DueIndexes = <<>>
      BY <1>5, <3>1 DEF CollectDue, TypeOK
    <3>2. CASE DueIndexes # <<>>
      <4> DEFINE Entry(i) == [idx |-> i, profile_id |-> jobs[i].profile_id, minutes |-> jobs[i].minutes]
      <4>1. /\ mode' = "fetch" /\ check_due' = check_due
            /\ batch' = [k \in DOMAIN DueIndexes |-> Entry(DueIndexes[k])]
        BY <1>5, <3>2 DEF CollectDue
      <4>2. /\ DueIndexes \in Seq(DOMAIN jobs)
            /\ \A k \in DOMAIN DueIndexes : DueIndexes[k] \in DOMAIN jobs
        BY DueIndexesType DEF TypeOK
      <4>3. ASSUME NEW i \in DOMAIN jobs
            PROVE  Entry(i) \in [idx : Nat, profile_id : Profiles, minutes : Schedules]
        <5>1. jobs[i] \in Job /\ i \in Nat
          BY DEF TypeOK
        <5> QED BY <5>1 DEF Job
      <4>4. DOMAIN DueIndexes = 1..Len(DueIndexes) /\ Len(DueIndexes) \in Nat
        BY <4>2
      <4>5. batch' \in Seq([idx : Nat, profile_id : Profiles, minutes : Schedules])
        <5> HIDE DEF Entry
        <5> QED BY <4>1, <4>2, <4>3, <4>4
      <4> QED BY <4>1, <4>5 DEF TypeOK
    <3> QED BY <3>1, <3>2
  <2> QED BY <2>1, <2>2 DEF TypeOK
<1>6. ASSUME NEW ok \in BOOLEAN, Download(ok) PROVE TypeOK'
  <2>1. /\ batch # <<>> /\ batch' = Tail(batch)
        /\ results' = Append(results, [idx |-> Head(batch).idx, profile_id |-> Head(batch).profile_id, ok |-> ok])
        /\ since' = [since EXCEPT ![Head(batch).profile_id] = IF stale THEN Forever ELSE 0]
        /\ UNCHANGED <<items, cron, reloads, jobs, mode, check_due, stale>>
    BY <1>6 DEF Download
  <2> DEFINE Entries == [idx : Nat, profile_id : Profiles, minutes : Schedules]
  <2>2. Head(batch) \in Entries /\ Tail(batch) \in Seq(Entries)
    <3>1. batch \in Seq(Entries)
      BY DEF TypeOK
    <3> HIDE DEF Entries
    <3> QED BY <2>1, <3>1
  <2>3. batch' \in Seq([idx : Nat, profile_id : Profiles, minutes : Schedules])
    BY <2>1, <2>2
  <2>4. [idx |-> Head(batch).idx, profile_id |-> Head(batch).profile_id, ok |-> ok]
           \in [idx : Nat, profile_id : Profiles, ok : BOOLEAN]
    BY <2>2
  <2>5. results' \in Seq([idx : Nat, profile_id : Profiles, ok : BOOLEAN])
    BY <2>1, <2>4 DEF TypeOK
  <2>6. since' \in [Profiles -> 0..Forever]
    BY <2>1, <2>2, LongestIs DEF TypeOK
  <2>7. mode = "fetch"
    BY <2>1 DEF TypeOK
  <2> QED BY <2>1, <2>3, <2>5, <2>6, <2>7 DEF TypeOK
<1>7. ASSUME BookResults PROVE TypeOK'
  <2>1. /\ batch = <<>> /\ batch' = batch /\ results' = <<>> /\ mode' = "wait" /\ check_due' = FALSE
        /\ UNCHANGED <<items, cron, reloads, stale, since>>
        /\ jobs' = [i \in DOMAIN jobs |-> Booked(i)]
    BY <1>7 DEF BookResults
  <2>2. jobs' \in Seq(Job) /\ OneJobEach(jobs')
    <3>1. \A i \in DOMAIN jobs : Booked(i) \in Job /\ Booked(i).profile_id = jobs[i].profile_id
      BY BookedType DEF TypeOK
    <3>2. ASSUME NEW f, f = [i \in DOMAIN jobs |-> Booked(i)] PROVE f \in Seq(Job) /\ OneJobEach(f)
      <4>1. /\ DOMAIN f = DOMAIN jobs /\ f = [i \in DOMAIN jobs |-> f[i]]
            /\ \A i \in DOMAIN jobs : f[i] \in Job /\ f[i].profile_id = jobs[i].profile_id
        BY <3>1, <3>2
      <4> QED BY <4>1, InPlaceType
    <3> QED BY <2>1, <3>2
  <2>3. results' \in Seq([idx : Nat, profile_id : Profiles, ok : BOOLEAN])
    BY <2>1
  <2> QED BY <2>1, <2>2, <2>3 DEF TypeOK, OneJobEach
<1>8. ASSUME Tick PROVE TypeOK'
  <2> DEFINE Ticked(i) == [jobs[i] EXCEPT !.next_run = Max({0, @ - 1})]
  <2>1. /\ check_due' = TRUE
        /\ jobs' = [i \in DOMAIN jobs |-> Ticked(i)]
        /\ since' = [u \in Profiles |-> Min({Forever, since[u] + 1})]
        /\ UNCHANGED <<items, cron, reloads, mode, batch, results, stale>>
    BY <1>8 DEF Tick
  <2>2. jobs' \in Seq(Job) /\ OneJobEach(jobs')
    <3>1. ASSUME NEW i \in DOMAIN jobs
          PROVE  Ticked(i) \in Job /\ Ticked(i).profile_id = jobs[i].profile_id
      <4>1. jobs[i] \in Job
        BY DEF TypeOK
      <4>2. Ticked(i) \in Job
        BY <4>1, TickedType
      <4>3. Ticked(i).profile_id = jobs[i].profile_id
        BY <4>1 DEF Job
      <4> QED BY <4>2, <4>3
    <3> HIDE DEF Ticked
    <3>2. ASSUME NEW f, f = [i \in DOMAIN jobs |-> Ticked(i)] PROVE f \in Seq(Job) /\ OneJobEach(f)
      <4>1. /\ DOMAIN f = DOMAIN jobs /\ f = [i \in DOMAIN jobs |-> f[i]]
            /\ \A i \in DOMAIN jobs : f[i] \in Job /\ f[i].profile_id = jobs[i].profile_id
        BY <3>1, <3>2
      <4> QED BY <4>1, InPlaceType
    <3> QED BY <2>1, <3>2
  <2>3. since' \in [Profiles -> 0..Forever]
    <3>1. ASSUME NEW u \in Profiles PROVE Min({Forever, since[u] + 1}) \in 0..Forever
      <4>1. since[u] \in 0..Forever /\ Forever \in Nat
        BY LongestIs DEF TypeOK
      <4>2. Min({Forever, since[u] + 1}) = IF Forever <= since[u] + 1 THEN Forever ELSE since[u] + 1
        BY <4>1, MinPair
      <4> QED BY <4>1, <4>2
    <3> QED BY <2>1, <3>1
  <2> HIDE DEF Ticked
  <2> QED BY <2>1, <2>2, <2>3 DEF TypeOK, OneJobEach
<1>9. CASE UNCHANGED vars
  BY <1>9 DEF vars, mainVars, TypeOK
<1> QED BY <1>1, <1>2, <1>3, <1>4, <1>5, <1>6, <1>7, <1>8, <1>9 DEF Next, Main, Handlers

LEMMA TypeInit == Init => TypeOK
<1> SUFFICES ASSUME Init PROVE TypeOK
  OBVIOUS
<1>1. /\ <<>> \in Seq(Profiles) /\ <<>> \in Seq(Job)
      /\ <<>> \in Seq([idx : Nat, profile_id : Profiles, minutes : Schedules])
      /\ <<>> \in Seq([idx : Nat, profile_id : Profiles, ok : BOOLEAN])
      /\ IsInjective(<<>>)
  BY DEF IsInjective
<1>2. Forever \in 0..Forever
  BY LongestIs
<1>3. /\ since \in [Profiles -> 0..Forever] /\ cron \in [Profiles -> Crons \cup {NoCron}]
      /\ \A u \in Profiles : cron[u] = NoCron
  BY <1>2 DEF Init
<1>4. DOMAIN jobs = {}
  BY DEF Init
<1> QED BY <1>1, <1>3, <1>4 DEF Init, TypeOK

\* However the jobs are rebuilt, downloaded and booked, no profile gets two jobs
\* and no delay exceeds the longest interval or the back-off cap.
THEOREM TypeOKAlways == Spec => []TypeOK
BY TypeInit, TypeStep, PTL DEF Spec

-----------------------------------------------------------------------------
(***************************************************************************)
(* The distance between attempts.                                          *)
(***************************************************************************)
LEMMA SpacedStep == TypeOK /\ SpacedInv /\ [Next]_vars => SpacedInv'
<1> SUFFICES ASSUME TypeOK, SpacedInv, [Next]_vars PROVE SpacedInv'
  OBVIOUS
<1>s. UNCHANGED <<jobs, mode, batch, results, stale, since>> => SpacedInv'
  BY DEF SpacedInv, BatchOwn, Tried, Spaced, is_due
<1>j. ASSUME NEW i \in DOMAIN jobs
      PROVE  jobs[i] \in Job /\ jobs[i].profile_id \in Profiles /\ jobs[i].minutes \in Schedules
             /\ jobs[i].next_run \in 0..Longest
  <2>1. jobs[i] \in Job
    BY DEF TypeOK
  <2> QED BY <2>1 DEF Job
<1>1. ASSUME NEW u \in Profiles, add_profile(u) PROVE SpacedInv'
  BY <1>1, <1>s DEF add_profile, mainVars
<1>2. ASSUME NEW u \in Profiles, delete_profile(u) PROVE SpacedInv'
  BY <1>2, <1>s DEF delete_profile, mainVars
<1>3. ASSUME NEW u \in Profiles, NEW c \in Crons \cup {NoCron}, update_profile(u, c) PROVE SpacedInv'
  BY <1>3, <1>s DEF update_profile, mainVars
\* A rebuilt list has attempted nothing, and leaves the batch behind.
<1>4. ASSUME load_cron_jobs PROVE SpacedInv'
  <2> DEFINE scheduled == Without(items, {u \in Profiles : cron[u] \notin Schedules})
             js == [i \in DOMAIN scheduled |-> NewJob(scheduled[i])]
  <2>1. UNCHANGED mainVars
    BY <1>4 DEF load_cron_jobs
  <2>2. CASE UNCHANGED <<jobs, stale, since>>
    BY <1>s, <2>1, <2>2 DEF mainVars
  <2>3. CASE /\ jobs' = js /\ stale' = (mode = "fetch")
             /\ since' = [u \in Profiles |-> Forever]
    <3>1. js \in Seq(Job)
      BY LoadedType
    <3> HIDE DEF js
    <3>2. ASSUME NEW i \in DOMAIN jobs' PROVE Spaced(jobs[i])'
      <4>1. jobs'[i] \in Job /\ jobs'[i].profile_id \in Profiles
        <5>1. ASSUME NEW q \in Seq(Job), NEW k \in DOMAIN q PROVE q[k] \in Job
          OBVIOUS
        <5>2. jobs'[i] \in Job
          BY <2>3, <3>1, <5>1
        <5> QED BY <5>2 DEF Job
      <4>2. since'[jobs'[i].profile_id] = Forever
        BY <2>3, <4>1
      <4>3. jobs'[i].minutes \in Schedules /\ jobs'[i].next_run \in 0..Longest
        BY <4>1 DEF Job
      <4> QED BY <4>2, <4>3, SpacingIs, LongestIs DEF Spaced
    <3> QED BY <2>1, <2>3, <3>2 DEF SpacedInv, mainVars
  <2> QED BY <1>4, <2>2, <2>3 DEF load_cron_jobs
\* The due jobs make the batch: between two batches nothing is tried.
<1>5. ASSUME CollectDue PROVE SpacedInv'
  <2>1. mode = "wait" /\ stale' = FALSE /\ UNCHANGED <<jobs, results, since>>
    BY <1>5 DEF CollectDue
  <2>2. results = <<>>
    BY <2>1 DEF TypeOK
  <2>3. \A i \in DOMAIN jobs : ~Tried(i) /\ ~Tried(i)' /\ Spaced(jobs[i])
    BY <2>1, <2>2 DEF SpacedInv, Tried
  <2>4. \A i \in DOMAIN jobs' : Spaced(jobs[i])'
    BY <2>1, <2>3 DEF Spaced
  <2>5. mode' = "fetch" => BatchOwn'
    <3> SUFFICES ASSUME mode' = "fetch" PROVE BatchOwn'
      OBVIOUS
    <3> DEFINE Entry(i) == [idx |-> i, profile_id |-> jobs[i].profile_id, minutes |-> jobs[i].minutes]
    <3>1. DueIndexes # <<>>
      BY <1>5, <2>1 DEF CollectDue
    <3>2. batch' = [k \in DOMAIN DueIndexes |-> Entry(DueIndexes[k])]
      BY <1>5, <3>1 DEF CollectDue
    <3>3. /\ \A k \in DOMAIN DueIndexes : DueIndexes[k] \in DOMAIN jobs /\ is_due(jobs[DueIndexes[k]])
          /\ \A k, l \in DOMAIN DueIndexes : DueIndexes[k] = DueIndexes[l] => k = l
      BY DueIndexesType DEF TypeOK
    <3>4. ASSUME NEW k \in DOMAIN batch'
          PROVE  /\ k \in DOMAIN DueIndexes
                 /\ batch'[k].idx = DueIndexes[k]
                 /\ batch'[k].profile_id = jobs[DueIndexes[k]].profile_id
                 /\ batch'[k].minutes = jobs[DueIndexes[k]].minutes
      BY <3>2
    <3> HIDE DEF Entry
    <3> QED BY <2>1, <2>3, <3>3, <3>4 DEF BatchOwn, is_due
  <2> QED BY <2>4, <2>5 DEF SpacedInv
\* The job tried is due, and no other job is of its profile.
<1>6. ASSUME NEW ok \in BOOLEAN, Download(ok) PROVE SpacedInv'
  <2> DEFINE b == Head(batch)
             r == [idx |-> b.idx, profile_id |-> b.profile_id, ok |-> ok]
             Entries == [idx : Nat, profile_id : Profiles, minutes : Schedules]
  <2>1. /\ batch # <<>> /\ batch' = Tail(batch)
        /\ results' = Append(results, r)
        /\ since' = [since EXCEPT ![b.profile_id] = IF stale THEN Forever ELSE 0]
        /\ UNCHANGED <<jobs, mode, stale>>
    BY <1>6 DEF Download
  <2>2. batch \in Seq(Entries)
    BY DEF TypeOK
  <2>3. /\ b = batch[1] /\ b \in Entries /\ DOMAIN batch = 1..Len(batch) /\ Len(batch) \in Nat \ {0}
        /\ DOMAIN batch' = 1..(Len(batch) - 1)
        /\ \A k \in 1..(Len(batch) - 1) : batch'[k] = batch[k + 1]
    <3> HIDE DEF Entries
    <3> QED BY <2>1, <2>2
  <2>4. r \in [idx : Nat, profile_id : Profiles, ok : BOOLEAN] /\ b.profile_id \in Profiles
    BY <2>3
  <2>5. /\ DOMAIN results' = 1..(Len(results) + 1) /\ DOMAIN results = 1..Len(results)
        /\ Len(results) \in Nat
        /\ results'[Len(results) + 1] = r
        /\ \A k \in 1..Len(results) : results'[k] = results[k]
    <3> HIDE DEF r
    <3> QED BY <2>1, <2>4 DEF TypeOK
  <2>6. mode = "fetch"
    BY <2>1 DEF TypeOK
  <2>7. ASSUME NEW i, stale = FALSE PROVE Tried(i)' <=> Tried(i) \/ i = b.idx
    <3>1. r.idx = b.idx
      OBVIOUS
    <3> HIDE DEF r, b
    <3> QED BY <2>1, <2>5, <2>7, <3>1 DEF Tried
  <2>8. CASE stale
    <3>1. ASSUME NEW i \in DOMAIN jobs PROVE Spaced(jobs[i])'
      <4>1. Spaced(jobs[i])
        BY <2>8 DEF SpacedInv, Tried
      <4>2. since'[jobs[i].profile_id] \in {since[jobs[i].profile_id], Forever}
        BY <1>j, <2>1, <2>8 DEF TypeOK
      <4>3. /\ since[jobs[i].profile_id] \in 0..Forever /\ jobs[i].next_run \in Nat
            /\ Spacing(jobs[i].minutes) <= Forever /\ Spacing(jobs[i].minutes) \in Nat
        <5>1. since[jobs[i].profile_id] \in 0..Forever
          BY <1>j DEF TypeOK
        <5>2. Spacing(jobs[i].minutes) \in Nat /\ Spacing(jobs[i].minutes) <= Longest
          BY <1>j, SpacingIs, LongestIs
        <5> QED BY <1>j, <5>1, <5>2, LongestIs
      <4>4. jobs'[i] = jobs[i]
        BY <2>1
      <4>5. since'[jobs[i].profile_id] + jobs[i].next_run >= Spacing(jobs[i].minutes)
        BY <4>1, <4>2, <4>3, LongestIs DEF Spaced
      <4> QED BY <4>4, <4>5 DEF Spaced
    <3> QED BY <2>1, <2>8, <3>1 DEF SpacedInv
  <2>9. CASE stale = FALSE
    <3>1. BatchOwn
      BY <2>6, <2>9 DEF SpacedInv
    <3>2. /\ b.idx \in DOMAIN jobs /\ jobs[b.idx].profile_id = b.profile_id
      BY <2>3, <3>1 DEF BatchOwn
    <3>3. ASSUME NEW i \in DOMAIN jobs PROVE Spaced(jobs[i])' \/ Tried(i)'
      <4>1. CASE i = b.idx
        BY <2>7, <2>9, <4>1
      <4>2. CASE i # b.idx
        <5>1. jobs[i].profile_id # b.profile_id
          BY <3>2, <4>2 DEF TypeOK
        <5>2. since'[jobs[i].profile_id] = since[jobs[i].profile_id]
          BY <1>j, <2>1, <5>1 DEF TypeOK
        <5> QED BY <2>1, <2>7, <2>9, <5>2 DEF SpacedInv, Spaced
      <4> QED BY <4>1, <4>2
    <3>4. BatchOwn'
      <4>1. ASSUME NEW k \in 1..(Len(batch) - 1)
            PROVE  /\ k + 1 \in DOMAIN batch /\ 1 \in DOMAIN batch
                   /\ batch[k + 1].idx # b.idx
                   /\ ~Tried(batch[k + 1].idx)
        <5>1. k + 1 \in DOMAIN batch /\ 1 \in DOMAIN batch /\ k + 1 # 1
          BY <2>3
        <5> QED BY <2>3, <3>1, <5>1 DEF BatchOwn
      <4>2. \A k \in DOMAIN batch' : ~Tried(batch[k].idx)'
        BY <2>3, <2>7, <2>9, <4>1
      <4> HIDE DEF b
      <4>3. ASSUME NEW k \in DOMAIN batch', NEW l \in DOMAIN batch', batch'[k].idx = batch'[l].idx
            PROVE  k = l
        <5>1. k + 1 = l + 1
          BY <2>3, <3>1, <4>1, <4>3 DEF BatchOwn
        <5> QED BY <2>3, <5>1
      <4> QED BY <2>1, <2>3, <3>1, <4>1, <4>2, <4>3 DEF BatchOwn, is_due
    <3> QED BY <2>1, <3>3, <3>4 DEF SpacedInv
  <2> QED BY <2>8, <2>9 DEF TypeOK
\* Every job tried gets a delay of at least its spacing.
<1>7. ASSUME BookResults PROVE SpacedInv'
  <2>1. /\ mode' = "wait" /\ results' = <<>> /\ UNCHANGED <<stale, since>>
        /\ jobs' = [i \in DOMAIN jobs |-> Booked(i)]
    BY <1>7 DEF BookResults
  <2>2. ASSUME NEW i \in DOMAIN jobs PROVE Spaced(jobs[i])'
    <3>1. /\ Booked(i) \in Job
          /\ Booked(i).profile_id = jobs[i].profile_id /\ Booked(i).minutes = jobs[i].minutes
          /\ Outcomes(i) # {} => Booked(i).next_run >= Spacing(jobs[i].minutes)
          /\ Outcomes(i) = {} => Booked(i) = jobs[i]
      BY BookedType DEF TypeOK
    <3>2. /\ since[jobs[i].profile_id] \in Nat /\ Spacing(jobs[i].minutes) \in Nat
          /\ Booked(i).next_run \in Nat
      <4>1. since[jobs[i].profile_id] \in 0..Forever /\ Booked(i).next_run \in 0..Longest
        BY <1>j, <3>1 DEF TypeOK, Job
      <4> QED BY <1>j, <4>1, LongestIs, SpacingIs
    <3>3. since[jobs[i].profile_id] + Booked(i).next_run >= Spacing(jobs[i].minutes)
      <4>1. CASE Outcomes(i) # {}
        BY <3>1, <3>2, <4>1
      <4>2. CASE Outcomes(i) = {}
        <5>1. ~Tried(i)
          BY <4>2 DEF Tried, Outcomes
        <5>2. Spaced(jobs[i])
          BY <5>1 DEF SpacedInv
        <5> QED BY <3>1, <4>2, <5>2 DEF Spaced
      <4> QED BY <4>1, <4>2
    <3>4. jobs'[i] = Booked(i)
      BY <2>1
    <3> QED BY <2>1, <3>1, <3>3, <3>4 DEF Spaced
  <2>3. DOMAIN jobs' = DOMAIN jobs
    BY <2>1
  <2> QED BY <2>1, <2>2, <2>3 DEF SpacedInv
\* What goes off the delay goes onto the time since.
<1>8. ASSUME Tick PROVE SpacedInv'
  <2> DEFINE Ticked(i) == [jobs[i] EXCEPT !.next_run = Max({0, @ - 1})]
  <2>1. /\ jobs' = [i \in DOMAIN jobs |-> Ticked(i)]
        /\ since' = [u \in Profiles |-> Min({Forever, since[u] + 1})]
        /\ UNCHANGED <<mode, batch, results, stale>>
    BY <1>8 DEF Tick
  <2>2. ASSUME NEW i \in DOMAIN jobs
        PROVE  /\ Ticked(i).profile_id = jobs[i].profile_id /\ Ticked(i).minutes = jobs[i].minutes
               /\ Ticked(i).next_run = Max({0, jobs[i].next_run - 1})
    <3>1. jobs[i] \in Job
      BY <1>j
    <3> QED BY <3>1 DEF Job
  <2>3. ASSUME NEW i \in DOMAIN jobs
        PROVE  /\ Ticked(i).next_run \in Nat /\ Ticked(i).next_run + 1 >= jobs[i].next_run
               /\ is_due(jobs[i]) => is_due(Ticked(i))
    <3>1. jobs[i] \in Job
      BY <1>j
    <3>2. /\ Max({0, jobs[i].next_run - 1}) \in Nat
          /\ Max({0, jobs[i].next_run - 1}) + 1 >= jobs[i].next_run
          /\ jobs[i].next_run = 0 => Max({0, jobs[i].next_run - 1}) = 0
      BY <3>1, TickedType
    <3> HIDE DEF Ticked
    <3> QED BY <2>2, <3>2 DEF is_due
  <2> HIDE DEF Ticked
  <2>4. DOMAIN jobs' = DOMAIN jobs /\ \A i \in DOMAIN jobs : jobs'[i] = Ticked(i)
    BY <2>1
  <2>5. ASSUME NEW i \in DOMAIN jobs, Spaced(jobs[i]) PROVE Spaced(jobs[i])'
    <3> DEFINE u == jobs[i].profile_id
               m == jobs[i].minutes
    <3>1. u \in Profiles /\ m \in Schedules /\ jobs[i].next_run \in Nat
      BY <1>j, LongestIs
    <3>2. since[u] \in Nat /\ since[u] <= Forever
      BY <3>1, LongestIs DEF TypeOK
    <3>3. since'[u] = IF Forever <= since[u] + 1 THEN Forever ELSE since[u] + 1
      <4>1. since'[u] = Min({Forever, since[u] + 1})
        BY <2>1, <3>1
      <4> QED BY <3>2, <4>1, LongestIs, MinPair
    <3>4. since[u] + jobs[i].next_run >= Spacing(m)
      BY <2>5 DEF Spaced
    <3>5. since'[u] + Ticked(i).next_run >= Spacing(m)
      BY <2>3, <3>1, <3>2, <3>3, <3>4, SpacingIs, LongestIs
    <3> QED BY <2>2, <2>4, <3>5 DEF Spaced
  <2>6. \A i : Tried(i)' <=> Tried(i)
    BY <2>1 DEF Tried
  <2>7. BatchOwn => BatchOwn'
    BY <2>1, <2>2, <2>3, <2>4, <2>6 DEF BatchOwn
  <2> QED BY <2>1, <2>4, <2>5, <2>6, <2>7 DEF SpacedInv
<1>9. CASE UNCHANGED vars
  BY <1>9, <1>s DEF vars, mainVars
<1> QED BY <1>1, <1>2, <1>3, <1>4, <1>5, <1>6, <1>7, <1>8, <1>9 DEF Next, Main, Handlers

LEMMA SpacedNow ==
  ASSUME TypeOK, SpacedInv, NEW ok \in BOOLEAN, Download(ok), ~stale
  PROVE  since[Head(batch).profile_id] >= Min({Head(batch).minutes, MAX_BACKOFF})
<1> DEFINE b == Head(batch)
<1>1. batch # <<>> /\ mode = "fetch"
  BY DEF Download, TypeOK
<1>2. b = batch[1] /\ 1 \in DOMAIN batch
  <2>1. batch \in Seq([idx : Nat, profile_id : Profiles, minutes : Schedules])
    BY DEF TypeOK
  <2>2. ASSUME NEW T, NEW s \in Seq(T), s # <<>> PROVE Head(s) = s[1] /\ 1 \in DOMAIN s
    BY <2>2
  <2> QED BY <1>1, <2>1, <2>2
<1>3. BatchOwn
  BY <1>1 DEF SpacedInv
<1>4. /\ b.idx \in DOMAIN jobs /\ jobs[b.idx].profile_id = b.profile_id
      /\ jobs[b.idx].minutes = b.minutes /\ is_due(jobs[b.idx]) /\ ~Tried(b.idx)
  BY <1>2, <1>3 DEF BatchOwn
<1>5. Spaced(jobs[b.idx]) /\ jobs[b.idx].next_run = 0
  BY <1>4 DEF SpacedInv, is_due
<1>6. since[b.profile_id] \in Nat
  <2>1. jobs[b.idx] \in Job
    BY <1>4 DEF TypeOK
  <2>2. b.profile_id \in Profiles
    BY <1>4, <2>1 DEF Job
  <2> QED BY <2>2, LongestIs DEF TypeOK
<1> QED BY <1>4, <1>5, <1>6 DEF Spaced, Spacing

\* While the list of jobs stays, two downloads of a subscription are at least its
\* interval, or the back-off cap if that is shorter, apart: whatever the handlers
\* change meanwhile, however long the downloads of a batch take and wherever the
\* results of an outdated batch are booked.
THEOREM SpacedAttemptsAlways == Spec => SpacedAttempts
<1> DEFINE IInv == TypeOK /\ SpacedInv
           Apart == \A ok \in BOOLEAN : Download(ok) /\ ~stale =>
                      since[Head(batch).profile_id] >= Min({Head(batch).minutes, MAX_BACKOFF})
<1>1. Init => IInv
  <2>1. Init => SpacedInv
    BY DEF Init, SpacedInv
  <2> QED BY <2>1, TypeInit
<1>2. IInv /\ [Next]_vars => IInv'
  BY TypeStep, SpacedStep
<1>3. IInv /\ [Next]_vars => [Apart]_vars
  BY SpacedNow
<1> HIDE DEF IInv, Apart
<1>4. Spec => [][Apart]_vars
  BY <1>1, <1>2, <1>3, PTL DEF Spec
<1> QED BY <1>4 DEF SpacedAttempts, Apart

-----------------------------------------------------------------------------
(***************************************************************************)
(* Whose results are booked.                                               *)
(***************************************************************************)
\* Results that are booked on the list their batch was collected from have the
\* index of their profile's own job.
ResultsOwn ==
  ~stale => \A k \in DOMAIN results :
              /\ results[k].idx \in DOMAIN jobs
              /\ jobs[results[k].idx].profile_id = results[k].profile_id

LEMMA ResultsStep == TypeOK /\ SpacedInv /\ ResultsOwn /\ [Next]_vars => ResultsOwn'
<1> SUFFICES ASSUME TypeOK, SpacedInv, ResultsOwn, [Next]_vars PROVE ResultsOwn'
  OBVIOUS
<1>s. UNCHANGED <<jobs, results, stale>> => ResultsOwn'
  BY DEF ResultsOwn
<1>e. results' = <<>> => ResultsOwn'
  BY DEF ResultsOwn
<1>w. mode = "wait" => results = <<>>
  BY DEF TypeOK
<1>1. CASE \E u \in Profiles : add_profile(u) \/ delete_profile(u)
  BY <1>1, <1>s DEF add_profile, delete_profile, mainVars
<1>2. CASE \E u \in Profiles, c \in Crons \cup {NoCron} : update_profile(u, c)
  BY <1>2, <1>s DEF update_profile, mainVars
<1>3. CASE load_cron_jobs
  <2>1. results' = results /\ (stale' = (mode = "fetch") \/ UNCHANGED <<jobs, stale>>)
    BY <1>3 DEF load_cron_jobs, mainVars
  <2>2. CASE mode = "fetch" /\ stale' = (mode = "fetch")
    BY <2>2 DEF ResultsOwn
  <2>3. CASE mode # "fetch"
    <3>1. mode = "wait"
      BY <2>3 DEF TypeOK
    <3> QED BY <1>e, <1>w, <2>1, <3>1
  <2>4. CASE UNCHANGED <<jobs, stale>>
    BY <1>s, <2>1, <2>4
  <2> QED BY <2>1, <2>2, <2>3, <2>4
<1>4. CASE CollectDue
  BY <1>4, <1>e, <1>w DEF CollectDue
<1>5. ASSUME NEW ok \in BOOLEAN, Download(ok) PROVE ResultsOwn'
  <2> DEFINE b == Head(batch)
             r == [idx |-> b.idx, profile_id |-> b.profile_id, ok |-> ok]
             Entries == [idx : Nat, profile_id : Profiles, minutes : Schedules]
  <2>1. batch # <<>> /\ results' = Append(results, r) /\ UNCHANGED <<jobs, stale>>
    BY <1>5 DEF Download
  <2>2. b = batch[1] /\ 1 \in DOMAIN batch /\ b \in Entries
    <3>1. batch \in Seq(Entries)
      BY DEF TypeOK
    <3> HIDE DEF Entries
    <3> QED BY <2>1, <3>1
  <2>3. ~stale => b.idx \in DOMAIN jobs /\ jobs[b.idx].profile_id = b.profile_id
    <3>1. mode = "fetch"
      BY <2>1 DEF TypeOK
    <3>2. ~stale => BatchOwn
      BY <3>1 DEF SpacedInv
    <3> QED BY <2>2, <3>2 DEF BatchOwn
  <2>4. r \in [idx : Nat, profile_id : Profiles, ok : BOOLEAN] /\ r.idx = b.idx /\ r.profile_id = b.profile_id
    BY <2>2
  <2> HIDE DEF r, b
  <2>5. /\ DOMAIN results' = 1..(Len(results) + 1) /\ DOMAIN results = 1..Len(results)
        /\ Len(results) \in Nat /\ results'[Len(results) + 1] = r
        /\ \A k \in 1..Len(results) : results'[k] = results[k]
    BY <2>1, <2>4 DEF TypeOK
  <2> QED BY <2>1, <2>3, <2>4, <2>5 DEF ResultsOwn
<1>6. CASE BookResults
  BY <1>6, <1>e DEF BookResults
<1>7. CASE Tick
  <2> DEFINE Ticked(i) == [jobs[i] EXCEPT !.next_run = Max({0, @ - 1})]
  <2>1. jobs' = [i \in DOMAIN jobs |-> Ticked(i)] /\ UNCHANGED <<results, stale>>
    BY <1>7 DEF Tick
  <2>2. ASSUME NEW i \in DOMAIN jobs PROVE Ticked(i).profile_id = jobs[i].profile_id
    <3>1. jobs[i] \in Job
      BY DEF TypeOK
    <3> QED BY <3>1 DEF Job
  <2> HIDE DEF Ticked
  <2> QED BY <2>1, <2>2 DEF ResultsOwn
<1>8. CASE UNCHANGED vars
  BY <1>8, <1>s DEF vars, mainVars
<1> QED BY <1>1, <1>2, <1>3, <1>4, <1>5, <1>6, <1>7, <1>8 DEF Next, Main, Handlers

\* FailuresAreOwn fails only by a rebuilt list: as long as the list is the one
\* that the batch was collected from, a job only moves on by a result of its own
\* profile.
THEOREM FailuresAreOwnUnlessRebuilt ==
  Spec => [][BookResults /\ ~stale =>
               \A i \in DOMAIN jobs : jobs'[i] # jobs[i] =>
                 \E k \in DOMAIN results : results[k].profile_id = jobs[i].profile_id]_vars
<1> DEFINE IInv == TypeOK /\ SpacedInv /\ ResultsOwn
           Own == \A i \in DOMAIN jobs : jobs'[i] # jobs[i] =>
                    \E k \in DOMAIN results : results[k].profile_id = jobs[i].profile_id
           OwnStep == BookResults /\ ~stale => Own
<1>1. Init => IInv
  <2>1. Init => SpacedInv /\ ResultsOwn
    BY DEF Init, SpacedInv, ResultsOwn
  <2> QED BY <2>1, TypeInit
<1>2. IInv /\ [Next]_vars => IInv'
  BY TypeStep, SpacedStep, ResultsStep
<1>3. IInv /\ [Next]_vars => [OwnStep]_vars
  <2> SUFFICES ASSUME IInv, BookResults, ~stale, NEW i \in DOMAIN jobs, jobs'[i] # jobs[i]
               PROVE  \E k \in DOMAIN results : results[k].profile_id = jobs[i].profile_id
    OBVIOUS
  <2>1. jobs'[i] = Booked(i)
    BY DEF BookResults
  <2>2. Outcomes(i) # {}
    BY <2>1 DEF Booked
  <2>3. PICK k \in DOMAIN results : results[k].idx = i
    BY <2>2 DEF Outcomes
  <2> QED BY <2>3 DEF ResultsOwn
<1> HIDE DEF IInv, Own
<1>4. Spec => [][OwnStep]_vars
  <2> HIDE DEF OwnStep
  <2> QED BY <1>1, <1>2, <1>3, PTL DEF Spec
<1> QED BY <1>4 DEF Own
=============================================================================
