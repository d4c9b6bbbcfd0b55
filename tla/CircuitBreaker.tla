--------------------------- MODULE CircuitBreaker ---------------------------
(***************************************************************************)
(* The circuit breaker of control-tower-service-core/src/state.rs as       *)
(* operators on its value.  Instants are natural numbers (the monotonic    *)
(* clock read by Instant::now) and NoInstant stands for `None`.            *)
(***************************************************************************)
EXTENDS Integers

CONSTANTS MAX_FAILURES,  \* CIRCUIT_BREAKER_MAX_FAILURES
          COOLDOWN       \* CIRCUIT_BREAKER_COOLDOWN_SECS

ASSUME BreakerAssumption ==
  /\ MAX_FAILURES \in Nat \ {0}
  /\ COOLDOWN \in Nat \ {0}

NoInstant == -1

Breaker == [failure_count : 0..MAX_FAILURES,
            is_broken     : BOOLEAN,
            broken_at     : Nat \cup {NoInstant}]

NewBreaker == [failure_count |-> 0, is_broken |-> FALSE, broken_at |-> NoInstant]

\* Faulty variant: the breaker never refuses.
is_allowed_always(cb, t) == cb.failure_count <= MAX_FAILURES

is_allowed(cb, t) ==
  \/ ~cb.is_broken
  \/ /\ cb.broken_at # NoInstant
     /\ t - cb.broken_at >= COOLDOWN

\* Faulty variant: failures go on being counted while the breaker is broken.
record_failure_unchecked(cb, t) ==
  LET count == cb.failure_count + 1 IN
  IF count >= MAX_FAILURES
    THEN [failure_count |-> count, is_broken |-> TRUE, broken_at |-> t]
    ELSE [cb EXCEPT !.failure_count = count]

record_failure(cb, t) ==
  LET count == cb.failure_count + 1 IN
  IF cb.is_broken
    THEN cb
    ELSE IF count >= MAX_FAILURES
           THEN [failure_count |-> count, is_broken |-> TRUE, broken_at |-> t]
           ELSE [cb EXCEPT !.failure_count = count]

\* Faulty variant: the failure count survives a success.
record_success_keeps_count(cb) ==
  [cb EXCEPT !.is_broken = FALSE, !.broken_at = NoInstant]

record_success(cb) == NewBreaker

\* Some(seconds left) as a number, None as NoInstant.
remaining_cooldown_secs(cb, t) ==
  IF \/ ~cb.is_broken
     \/ cb.broken_at = NoInstant
     \/ t - cb.broken_at >= COOLDOWN
    THEN NoInstant
    ELSE COOLDOWN - (t - cb.broken_at)

\* The shape every breaker value has: it is broken exactly when the count has
\* reached the limit, and only a broken one carries an instant.
BreakerShape(cb) ==
  /\ cb.is_broken <=> cb.failure_count = MAX_FAILURES
  /\ cb.is_broken <=> cb.broken_at # NoInstant
=============================================================================
