--------------------------- MODULE CircuitBreaker ---------------------------
(***************************************************************************)
(* The circuit breaker of one provider, crates/runtime/src/                *)
(* circuit_breaker.rs: its state and what acquire(), complete() and        *)
(* abandon() make of it under the breaker's mutex.  An epoch is a period   *)
(* between two transitions; a permit remembers the epoch it was given in,  *)
(* and its outcome counts in that epoch only.                              *)
(***************************************************************************)
EXTENDS Integers

CONSTANTS
  FailureThreshold,  \* failure_threshold
  HalfOpenMaxCalls,  \* half_open_max_calls
  SuccessThreshold   \* success_threshold

ASSUME BreakerAssumption ==
  {FailureThreshold, HalfOpenMaxCalls, SuccessThreshold} \subseteq Nat \ {0}

(* due is whether the recovery delay of an open circuit has passed.          *)
Breaker == [phase : {"closed", "open", "half_open"}, due : BOOLEAN, failures : Nat,
            inFlight : Nat, successes : Nat, epoch : Nat]
NewBreaker == [phase |-> "closed", due |-> FALSE, failures |-> 0, inFlight |-> 0,
               successes |-> 0, epoch |-> 0]

Permit   == [kind : {"none", "closed", "probe"}, epoch : Nat]
NoPermit == [kind |-> "none", epoch |-> 0]

Outcomes == {"healthy", "failed", "neutral"}

Transition(b, phase) == [NewBreaker EXCEPT !.phase = phase, !.epoch = b.epoch + 1]

-----------------------------------------------------------------------------
(* acquire(): an open circuit whose delay is over first becomes half-open.   *)
Probed(b) == IF b.phase = "open" /\ b.due THEN Transition(b, "half_open") ELSE b

Admits(b) ==
  \/ b.phase = "closed"
  \/ b.phase = "half_open" /\ b.inFlight < HalfOpenMaxCalls

Admitted(b) == IF b.phase = "half_open" THEN [b EXCEPT !.inFlight = @ + 1] ELSE b

PermitOf(b) == [kind |-> IF b.phase = "half_open" THEN "probe" ELSE "closed",
                epoch |-> b.epoch]

-----------------------------------------------------------------------------
Monus1(n) == IF n > 0 THEN n - 1 ELSE 0

CompleteClosed(b, outcome) ==
  CASE outcome = "healthy" -> [b EXCEPT !.failures = 0]
    [] outcome = "failed"  ->
         IF b.failures + 1 >= FailureThreshold
           THEN Transition(b, "open")
           ELSE [b EXCEPT !.failures = @ + 1]
    [] outcome = "neutral" -> b

CompleteProbe(b, outcome) ==
  LET left == [b EXCEPT !.inFlight = Monus1(@), !.successes = @ + 1] IN
    CASE outcome # "healthy" -> Transition(b, "open")
      [] outcome = "healthy" ->
           IF left.successes >= SuccessThreshold /\ left.inFlight = 0
             THEN Transition(b, "closed")
             ELSE left

(* Mutant: the epoch of the permit is not compared.                          *)
CompleteAnyEpoch(b, permit, outcome) ==
  CASE permit.kind # "none" /\ b.phase = "closed"    -> CompleteClosed(b, outcome)
    [] permit.kind # "none" /\ b.phase = "half_open" -> CompleteProbe(b, outcome)
    [] OTHER -> b

(* complete(): the outcome of a call of this epoch.                          *)
Complete(b, permit, outcome) ==
  CASE permit.epoch # b.epoch -> b
    [] permit.epoch = b.epoch /\ permit.kind = "closed" /\ b.phase = "closed" ->
         CompleteClosed(b, outcome)
    [] permit.epoch = b.epoch /\ permit.kind = "probe" /\ b.phase = "half_open" ->
         CompleteProbe(b, outcome)
    [] OTHER -> b

(* Mutant: an abandoned probe is never given back.                           *)
AbandonNothing(b, permit) == b

(* abandon(): the permit is dropped without an outcome.                      *)
Abandon(b, permit) ==
  IF permit.kind = "probe" /\ permit.epoch = b.epoch /\ b.phase = "half_open"
    THEN [b EXCEPT !.inFlight = Monus1(@)]
    ELSE b
=============================================================================
