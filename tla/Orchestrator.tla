---------------------------- MODULE Orchestrator ----------------------------
(***************************************************************************)
(* The synchronous execution pipeline, crates/runtime/src/orchestrator.rs, *)
(* with the admission gates (admission.rs) and the circuit breakers it     *)
(* goes through.  A call enters the activity tracker, takes a global slot, *)
(* and then tries its routes in order: a permit of the provider's breaker, *)
(* a slot of the provider's gate, capability discovery, the provider call, *)
(* output materialization.  Around every await a call can be cancelled by  *)
(* its caller, by shutdown or by its deadline, and each await can end for  *)
(* either reason when several are ready (tokio's select! is unbiased); or  *)
(* the whole future is dropped with the client's connection.               *)
(*                                                                         *)
(* A slot is held exactly in the phases between its acquire and the end of *)
(* the scope that owns it (OwnedSemaphorePermit is released on drop), so   *)
(* the holders of a gate are read off the phases.  Calls here carry no     *)
(* idempotency key: Idempotency models that.                               *)
(***************************************************************************)
EXTENDS CircuitBreaker, Errors, FiniteSets, Sequences

CONSTANTS
  Calls,
  Providers,
  RoutesOf,        \* the routes of a call, the primary first
  PolicyOf,        \* its fallback policy
  GlobalMax,       \* global_limit.max_concurrent
  GlobalQueue,     \* global_limit.max_queued
  ProviderMax,     \* default_provider_limit.max_concurrent
  ProviderQueues,  \* the values tried of default_provider_limit.max_queued
  DiscoveryFaults, \* the errors of discovery and negotiation,
  ProviderFaults,  \* of a provider call
  OutputFaults,    \* and of materialization
  MaxEpoch         \* bound: a circuit recovers only below it

(* A route names a provider and a model: the provider may come twice.        *)
ASSUME RouteAssumption ==
  /\ IsFiniteSet(Calls)
  /\ RoutesOf \in [Calls -> Seq(Providers) \ {<<>>}]
  /\ PolicyOf \in [Calls -> Policies]

ASSUME GateAssumption ==
  /\ {GlobalMax, ProviderMax} \subseteq Nat \ {0}
  /\ ProviderQueues \cup {GlobalQueue, MaxEpoch} \subseteq Nat
  /\ DiscoveryFaults \cup ProviderFaults \cup OutputFaults \subseteq Error
  /\ \A e \in DiscoveryFaults \cup OutputFaults : ~e.unknown

VARIABLES
  call,      \* where each call is
  fate,      \* history: what the provider of each route did with the call
  breaker,   \* circuit_breakers
  active,    \* ActivityTracker::active
  stop,      \* shutdown()
  maxQueued  \* default_provider_limit.max_queued, fixed at construction

vars == <<call, fate, breaker, active, stop, maxQueued>>

Waiting    == {"global_wait", "provider_wait"}
AtProvider == {"capabilities", "running", "grace", "materializing", "unwinding"}
Ended      == {"done", "dropped"}
Inside     == {"entered", "admission", "route", "gate"} \cup Waiting \cup AtProvider
Phase      == {"new", "checked"} \cup Inside \cup Ended

(* error is the error of the last route; cut, why an await was cut short.    *)
Success == [code |-> "none", unknown |-> FALSE]
Call == [phase : Phase, route : Nat, permit : Permit, error : Error \cup {Success},
         cut : {"none", "cancelled", "timeout"}, cancelled : BOOLEAN, late : BOOLEAN]
NewCall == [phase |-> "new", route |-> 1, permit |-> NoPermit, error |-> Success,
            cut |-> "none", cancelled |-> FALSE, late |-> FALSE]

Fates == {"untried", "running", "paid", "failed", "unknown"}

(* Notified is created in arming, active loaded in armed, and the task sleeps *)
(* in parked; woken is whether notify_waiters() reached it.                  *)
StopPhase == {"serving", "closing", "arming", "armed", "loaded", "parked",
              "releasing", "returned"}
Stop == [phase : StopPhase, woken : BOOLEAN, overran : BOOLEAN]

In(phases)    == {c \in Calls : call[c].phase \in phases}
Provider(c)   == RoutesOf[c][call[c].route]
Stopping      == stop.phase # "serving"
Open          == stop.phase \in {"serving", "closing"}

(* Types; and the activity tracker counts the calls inside.                  *)
TypeOK ==
  /\ call \in [Calls -> Call]
  /\ \A c \in Calls : call[c].route \in DOMAIN RoutesOf[c]
  /\ DOMAIN fate = Calls
  /\ \A c \in Calls : fate[c] \in [DOMAIN RoutesOf[c] -> Fates]
  /\ breaker \in [Providers -> Breaker]
  /\ stop \in Stop
  /\ active = Cardinality(In(Inside))
  /\ maxQueued \in ProviderQueues

Init ==
  /\ call = [c \in Calls |-> NewCall]
  /\ fate = [c \in Calls |-> [i \in DOMAIN RoutesOf[c] |-> "untried"]]
  /\ breaker = [p \in Providers |-> NewBreaker]
  /\ active = 0
  /\ stop = [phase |-> "serving", woken |-> FALSE, overran |-> FALSE]
  /\ maxQueued \in ProviderQueues

-----------------------------------------------------------------------------
(* The end of a call: its slots are released with their scopes, and the last *)
(* guard of the tracker notifies whoever is registered.                      *)

Registered == stop.phase \in {"armed", "loaded", "parked"}

Exit ==
  /\ active' = active - 1
  /\ stop' = [stop EXCEPT !.woken = @ \/ (active = 1 /\ Registered)]
  /\ UNCHANGED maxQueued

Inactive == UNCHANGED <<active, stop, maxQueued>>

Update(c, new) == call' = [call EXCEPT ![c] = new]
Goto(c, phase) == Update(c, [call[c] EXCEPT !.phase = phase])

(* The deadline and the token of an ended call no longer matter.             *)
Closed(c, phase, error) ==
  Update(c, [call[c] EXCEPT !.phase = phase, !.permit = NoPermit, !.error = error,
                            !.cancelled = FALSE, !.late = FALSE])

Leave(c, error) == Closed(c, "done", error) /\ Exit

(* A failed route: the next one, or the end.                                 *)
NextRoute(c, error) ==
  IF call[c].route < Len(RoutesOf[c]) /\ ShouldFallback(error, PolicyOf[c])
    THEN /\ Update(c, [call[c] EXCEPT !.phase = "route", !.route = @ + 1,
                                      !.permit = NoPermit, !.error = error])
         /\ Inactive
    ELSE Leave(c, error)

SetBreaker(p, b) == breaker' = [breaker EXCEPT ![p] = b]
Finish(c, outcome) ==
  SetBreaker(Provider(c), Complete(breaker[Provider(c)], call[c].permit, outcome))
GiveUp(c) == SetBreaker(Provider(c), Abandon(breaker[Provider(c)], call[c].permit))

(* The end of execute_route() behind the gate.                               *)
RouteFails(c, error) ==
  /\ Finish(c, IF CountsAsFailure(error) THEN "failed" ELSE "neutral")
  /\ NextRoute(c, error)

SetFate(c, f) == fate' = [fate EXCEPT ![c][call[c].route] = f]

(* Mutant: the deadline is not among the reasons.                            *)
CutsByHand(c) == IF call[c].cancelled \/ Stopping THEN {"cancelled"} ELSE {}

(* What may end an await before its future does.                             *)
Cuts(c) ==
  (IF call[c].cancelled \/ Stopping THEN {"cancelled"} ELSE {})
    \cup (IF call[c].late THEN {"timeout"} ELSE {})

(* The same before the first poll, where the deadline is looked at first.    *)
EarlyCuts(c) == IF call[c].late THEN {"timeout"} ELSE Cuts(c)

-----------------------------------------------------------------------------
(* execute_with_optional_events() up to execute_leader(): the token is       *)
(* looked at before and after the call is counted, then the request is       *)
(* validated.                                                                *)
Check(c) ==
  /\ call[c].phase = "new"
  /\ IF Stopping THEN Closed(c, "done", Known("cancelled")) ELSE Goto(c, "checked")
  /\ Inactive
  /\ UNCHANGED <<fate, breaker>>

Enter(c) ==
  /\ call[c].phase = "checked"
  /\ Goto(c, "entered")
  /\ active' = active + 1
  /\ UNCHANGED <<fate, breaker, stop, maxQueued>>

Recheck(c) ==
  /\ call[c].phase = "entered"
  /\ \/ Stopping /\ Leave(c, Known("cancelled"))
     \/ ~Stopping /\ Goto(c, "admission") /\ Inactive
     \/ ~Stopping /\ Leave(c, Known("invalid_request"))
  /\ UNCHANGED <<fate, breaker>>

-----------------------------------------------------------------------------
(* AdmissionGate::acquire() inside await_controlled(), for the holders and   *)
(* the queue of a gate.  A freed slot goes to a waiter before a newcomer;    *)
(* a closed gate queues nobody.                                              *)
Gate(holders, waiters, max, queue) ==
  [holders |-> Cardinality(holders), waiters |-> Cardinality(waiters),
   max |-> max, queue |-> queue]
GlobalGate ==
  Gate(In({"route", "gate", "provider_wait"} \cup AtProvider), In({"global_wait"}),
       GlobalMax, GlobalQueue)
ProviderGate(p) ==
  Gate({c \in In(AtProvider) : Provider(c) = p},
       {c \in In({"provider_wait"}) : Provider(c) = p}, ProviderMax, maxQueued)

Free(gate)     == Open /\ gate.holders < gate.max
Takes(gate)    == gate.waiters = 0 /\ Free(gate)
Queues(gate)   == ~Takes(gate) /\ Open /\ gate.waiters < gate.queue
Overflows(gate) == ~Takes(gate) /\ gate.waiters >= gate.queue

(* The errors a newcomer may leave with.                                     *)
Refusals(c, gate) ==
  {Known(k) : k \in EarlyCuts(c)}
    \cup (IF ~call[c].late /\ Overflows(gate) THEN {Known("overloaded")} ELSE {})

AcquireGlobal(c) ==
  /\ call[c].phase = "admission"
  /\ \/ ~call[c].late /\ Takes(GlobalGate) /\ Goto(c, "route") /\ Inactive
     \/ ~call[c].late /\ Queues(GlobalGate) /\ Goto(c, "global_wait") /\ Inactive
     \/ \E e \in Refusals(c, GlobalGate) : Leave(c, e)
  /\ UNCHANGED <<fate, breaker>>

WaitGlobal(c) ==
  /\ call[c].phase = "global_wait"
  /\ \/ Free(GlobalGate) /\ Goto(c, "route") /\ Inactive
     \/ \E k \in Cuts(c) : Leave(c, Known(k))
  /\ UNCHANGED <<fate, breaker>>

-----------------------------------------------------------------------------
(* execute_route(): the breaker first, so an open circuit fails fast; an     *)
(* error of the gate abandons the permit.                                    *)
AcquireBreaker(c) ==
  LET b == Probed(breaker[Provider(c)]) IN
    /\ call[c].phase = "route"
    /\ \/ /\ Admits(b)
          /\ Update(c, [call[c] EXCEPT !.phase = "gate", !.permit = PermitOf(b)])
          /\ SetBreaker(Provider(c), Admitted(b))
          /\ Inactive
       \/ /\ ~Admits(b)
          /\ NextRoute(c, Known("overloaded"))
          /\ SetBreaker(Provider(c), b)
    /\ UNCHANGED fate

Turned(c, error) == GiveUp(c) /\ NextRoute(c, error)

AcquireProvider(c) ==
  LET gate == ProviderGate(Provider(c)) IN
    /\ call[c].phase = "gate"
    /\ \/ /\ \/ ~call[c].late /\ Takes(gate) /\ Goto(c, "capabilities")
             \/ ~call[c].late /\ Queues(gate) /\ Goto(c, "provider_wait")
          /\ Inactive
          /\ UNCHANGED breaker
       \/ \E e \in Refusals(c, gate) : Turned(c, e)
    /\ UNCHANGED fate

(* A slot that comes with the deadline: discovery looks at it first.         *)
WaitProvider(c) ==
  LET gate == ProviderGate(Provider(c)) IN
    /\ call[c].phase = "provider_wait"
    /\ \/ /\ Free(gate) /\ ~call[c].late
          /\ Goto(c, "capabilities") /\ Inactive
          /\ UNCHANGED breaker
       \/ Free(gate) /\ call[c].late /\ RouteFails(c, Known("timeout"))
       \/ \E k \in Cuts(c) : Turned(c, Known(k))
    /\ UNCHANGED fate

-----------------------------------------------------------------------------
(* execute_route_admitted(): discovery and negotiation, then the provider.   *)
(* A result that loses to a cut is awaited for the cancellation grace and    *)
(* thrown away.                                                              *)
CutTo(c, phase) ==
  \E k \in Cuts(c) : Update(c, [call[c] EXCEPT !.phase = phase, !.cut = k])

Discover(c) ==
  /\ call[c].phase = "capabilities"
  /\ \/ ~call[c].late /\ Goto(c, "running") /\ SetFate(c, "running") /\ Inactive
          /\ UNCHANGED breaker
     \/ call[c].late /\ RouteFails(c, Known("timeout")) /\ UNCHANGED fate
     \/ \E e \in DiscoveryFaults : RouteFails(c, e) /\ UNCHANGED fate

(* The provider's answer, in time or in the grace of a cut.                  *)
Paid(c) ==
  /\ call[c].phase \in {"running", "grace"}
  /\ SetFate(c, "paid")
  /\ \/ ~call[c].late /\ Goto(c, "materializing") /\ Inactive /\ UNCHANGED breaker
     \/ call[c].late /\ RouteFails(c, Known("timeout"))
     \/ RouteFails(c, Known("protocol"))

Refused(c, e) == SetFate(c, IF Ambiguous(e) THEN "unknown" ELSE "failed")

Fails(c) ==
  /\ call[c].phase = "running"
  /\ \E e \in ProviderFaults : Refused(c, e) /\ RouteFails(c, Classified(e))

(* Mutant: a call that did not stop in its grace just timed out.             *)
CutErrorKnown(c) == Known(call[c].cut)

CutError(c) == Unknown(call[c].cut)

FailsInGrace(c) ==
  /\ call[c].phase = "grace"
  /\ \E e \in ProviderFaults :
       /\ Refused(c, e)
       /\ RouteFails(c, IF e.code \in {"timeout", "cancelled"} THEN CutError(c) ELSE e)

GraceOver(c) ==
  /\ call[c].phase = "grace"
  /\ SetFate(c, "unknown")
  /\ RouteFails(c, CutError(c))

(* The images are verified and stored; then metadata is attached, outside    *)
(* the routes.                                                               *)
Materialize(c) ==
  /\ call[c].phase = "materializing"
  /\ \/ /\ \E e \in {Success} \cup OutputFaults : Leave(c, e)
        /\ Finish(c, "healthy")
     \/ \E e \in OutputFaults : RouteFails(c, e)
  /\ UNCHANGED fate

Cut(c) ==
  /\ \/ call[c].phase = "running" /\ CutTo(c, "grace")
     \/ call[c].phase \in {"capabilities", "materializing"} /\ CutTo(c, "unwinding")
  /\ Inactive
  /\ UNCHANGED <<fate, breaker>>

Unwound(c) ==
  /\ call[c].phase = "unwinding"
  /\ RouteFails(c, Known(call[c].cut))
  /\ UNCHANGED fate

-----------------------------------------------------------------------------
(* The environment of a call: the caller's token, the clock, and a client    *)
(* whose connection takes the future away.                                   *)
Cancel(c) ==
  /\ call[c].phase \notin Ended \cup {"new"} /\ ~call[c].cancelled
  /\ Update(c, [call[c] EXCEPT !.cancelled = TRUE])
  /\ UNCHANGED <<fate, breaker, active, stop, maxQueued>>

Expire(c) ==
  /\ call[c].phase \in Inside \ {"entered"} /\ ~call[c].late
  /\ Update(c, [call[c] EXCEPT !.late = TRUE])
  /\ UNCHANGED <<fate, breaker, active, stop, maxQueued>>

Drop(c) ==
  /\ call[c].phase \in Waiting \cup AtProvider
  /\ Closed(c, "dropped", call[c].error) /\ Exit
  /\ GiveUp(c)
  /\ IF call[c].phase \in {"running", "grace"} THEN SetFate(c, "unknown") ELSE UNCHANGED fate

(* The recovery delay of an open circuit passes.                             *)
Recover(p) ==
  /\ breaker[p].phase = "open" /\ ~breaker[p].due /\ breaker[p].epoch < MaxEpoch
  /\ SetBreaker(p, [breaker[p] EXCEPT !.due = TRUE])
  /\ UNCHANGED <<call, fate, active, stop, maxQueued>>

-----------------------------------------------------------------------------
(* shutdown().                                                               *)
StopWith(new) == stop' = new /\ UNCHANGED <<call, fate, breaker, active, maxQueued>>

CancelAll == stop.phase = "serving" /\ StopWith([stop EXCEPT !.phase = "closing"])

CloseGates == stop.phase = "closing" /\ StopWith([stop EXCEPT !.phase = "arming"])

(* wait_until_idle(): Notified is created, then the counter is loaded.       *)
Arm ==
  /\ stop.phase = "arming"
  /\ StopWith([stop EXCEPT !.phase = "armed", !.woken = FALSE])

Load ==
  /\ stop.phase = "armed"
  /\ StopWith([stop EXCEPT !.phase = IF active = 0 THEN "releasing" ELSE "loaded"])

Park == stop.phase = "loaded" /\ StopWith([stop EXCEPT !.phase = "parked"])

Wake ==
  /\ stop.phase = "parked" /\ stop.woken
  /\ StopWith([stop EXCEPT !.phase = "arming"])

(* shutdown_grace elapses.                                                   *)
Overrun ==
  /\ stop.phase = "parked"
  /\ StopWith([stop EXCEPT !.phase = "releasing", !.overran = TRUE])

(* Every provider's shutdown() has returned.                                 *)
Return ==
  stop.phase = "releasing" /\ StopWith([stop EXCEPT !.phase = "returned"])

-----------------------------------------------------------------------------
(* What a call does on its own, and what it waits for.                       *)
Advance(c) ==
  \/ Enter(c) \/ Recheck(c) \/ AcquireGlobal(c) \/ WaitGlobal(c)
  \/ AcquireBreaker(c) \/ AcquireProvider(c) \/ WaitProvider(c)
  \/ Cut(c) \/ GraceOver(c) \/ Unwound(c)

Answer(c) == Discover(c) \/ Paid(c) \/ Fails(c) \/ FailsInGrace(c) \/ Materialize(c)

Shutdown ==
  \/ CancelAll \/ CloseGates \/ Arm \/ Load \/ Park \/ Wake \/ Overrun \/ Return

(* Everything has ended.                                                     *)
Finished == In(Ended) = Calls /\ stop.phase = "returned" /\ UNCHANGED vars

Next ==
  \/ \E c \in Calls : \/ Check(c) \/ Advance(c) \/ Answer(c)
                      \/ Cancel(c) \/ Expire(c) \/ Drop(c)
  \/ \E p \in Providers : Recover(p)
  \/ Shutdown
  \/ Finished

Spec == Init /\ [][Next]_vars

(* Timers fire, and a task whose await is over is polled; providers, callers *)
(* and operators owe nothing.                                                *)
Fairness == \A c \in Calls : WF_vars(Advance(c)) /\ WF_vars(Expire(c))

FairSpec == Spec /\ Fairness

-----------------------------------------------------------------------------
(* A call whose provider may still be doing, or may have done, its work      *)
(* starts no later route: execute_leader() and should_fallback() on every    *)
(* path by which a provider call can end.                                    *)
UnknownIsFinal ==
  \A c \in Calls : \A i, j \in DOMAIN RoutesOf[c] :
    i < j /\ fate[c][i] \in {"running", "unknown"} => fate[c][j] = "untried"

(* A call that ends with an error of known outcome left no provider call     *)
(* whose outcome is unknown: await_provider_execution() loses no result.     *)
TruthfulErrors ==
  \A c \in In({"done"}) :
    ~call[c].error.unknown =>
      \A i \in DOMAIN RoutesOf[c] : fate[c][i] \in {"untried", "paid", "failed"}

(* What a call says of the work it may have paid for, and what it does about *)
(* it: neither does an unknown outcome lead to a second attempt, nor is one  *)
(* reported as known.                                                        *)
Truthful == UnknownIsFinal /\ TruthfulErrors

(* A half-open circuit counts exactly the probes that are under way, and     *)
(* never more than half_open_max_calls, whatever became of the calls that    *)
(* took them (finished, refused by the gate, dropped).                       *)
Probes(p) ==
  {c \in Calls : /\ call[c].permit.kind = "probe"
                 /\ call[c].permit.epoch = breaker[p].epoch
                 /\ Provider(c) = p}
ProbesExact ==
  \A p \in Providers :
    breaker[p].phase = "half_open" =>
      /\ breaker[p].inFlight = Cardinality(Probes(p))
      /\ breaker[p].inFlight <= HalfOpenMaxCalls

(* A circuit changes its phase only when the recovery delay is over, or on   *)
(* the result of a call admitted in the phase it is in; and it closes only   *)
(* when that was the last probe under way.                                   *)
BreakerMovesOnEvidence ==
  [][\A p \in Providers :
       breaker'[p].phase # breaker[p].phase =>
         \/ breaker[p].phase = "open" /\ breaker[p].due
         \/ \E c \in Calls :
              /\ Provider(c) = p
              /\ call[c].permit.kind # "none" /\ call[c].permit.epoch = breaker[p].epoch
              /\ call'[c].permit = NoPermit
              /\ breaker'[p].phase = "closed" => Probes(p) = {c}]_vars

(* A shutdown that sleeps on an idle runtime has been woken: the last call   *)
(* cannot leave between the load of the counter and the sleep unnoticed.     *)
IdleIsNoticed == stop.phase = "parked" /\ active = 0 => stop.woken

(* Providers are released under a call only if the shutdown grace ran out:   *)
(* no call slips past the two looks at the token while shutdown() counts.    *)
QuietRelease ==
  stop.phase \in {"releasing", "returned"} /\ ~stop.overran =>
    In(Inside \ {"entered"}) = {}

(* The counters agree with the calls they count: probes, active requests and *)
(* the work that shutdown() leaves behind.                                   *)
Coherent == TypeOK /\ ProbesExact /\ IdleIsNoticed /\ QuietRelease

(* Every call ends, even if no provider ever answers, no slot is ever freed  *)
(* and nobody cancels it: its deadline and the graces see to it.             *)
EveryCallEnds ==
  \A c \in Calls : (call[c].phase \in Inside) ~> (call[c].phase \in Ended)

-----------------------------------------------------------------------------
(* docs/api.md: "The runtime never reroutes ... cancellation ... failures":  *)
(* no provider call starts after the runtime has noticed, at an earlier      *)
(* provider, that the call was cancelled.                                    *)
CancelledStaysPut ==
  [][\A c \in Calls : \A i \in DOMAIN RoutesOf[c] :
       fate[c][i] = "untried" /\ fate'[c][i] = "running" => call[c].cut # "cancelled"]_vars
=============================================================================
