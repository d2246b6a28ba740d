------------------------- MODULE OrchestratorProofs -------------------------
(***************************************************************************)
(* Proofs about Orchestrator: what a call says of the work it may have     *)
(* paid for, and what the counters of the breakers, of the activity        *)
(* tracker and of shutdown() count, for every set of calls, routes, limits *)
(* and errors.                                                             *)
(***************************************************************************)
EXTENDS Orchestrator, FiniteSetTheorems, TLAPS

(***************************************************************************)
(* The inductive invariant.  Every route before the one a call is on has   *)
(* ended with a known outcome, every route after it is untried, and the    *)
(* phase of the call says what the provider of its own route is doing.     *)
(* A call has a permit exactly while it is behind the breaker, and a       *)
(* permit of the breaker's own epoch is one of the phase it is in.         *)
(***************************************************************************)
Clear     == {"untried", "paid", "failed"}
Before    == {"new", "checked", "entered", "admission", "global_wait", "route", "gate",
              "provider_wait", "capabilities"}
Permitted == {"gate", "provider_wait"} \cup AtProvider

(* The routes around route i: what is behind a call, what is ahead of it.    *)
Around(f, i) ==
  \A j \in DOMAIN f : (j < i => f[j] \in Clear) /\ (j > i => f[j] = "untried")

(* An error that hides nothing of what the provider of route i did.          *)
Told(f, i, error) ==
  Around(f, i) /\ (f[i] \in Clear \/ (f[i] = "unknown" /\ error.unknown))

FateOK(k, f) ==
  /\ Around(f, k.route)
  /\ k.phase \in Before => f[k.route] = "untried"
  /\ k.phase \in {"running", "grace"} => f[k.route] = "running"
  /\ k.phase \in {"materializing", "unwinding"} => f[k.route] \in {"untried", "paid"}
  /\ k.phase = "done" => Told(f, k.route, k.error)
  /\ k.phase = "dropped" => f[k.route] # "running"

At(cl, c) == RoutesOf[c][cl[c].route]

PermitOK(cl, br, c) ==
  LET k == cl[c]  b == br[At(cl, c)] IN
  /\ k.phase \in Permitted => k.permit.kind # "none"
  /\ k.phase \notin Permitted => k.permit = NoPermit
  /\ k.permit.epoch <= b.epoch
  /\ k.permit.epoch = b.epoch => /\ k.permit.kind = "closed" => b.phase = "closed"
                                 /\ k.permit.kind = "probe" => b.phase = "half_open"

ProbesOf(cl, br, p) ==
  {c \in Calls : cl[c].permit.kind = "probe" /\ cl[c].permit.epoch = br[p].epoch /\ At(cl, c) = p}

Exact(cl, br) ==
  \A p \in Providers :
    br[p].phase = "half_open" => /\ br[p].inFlight = Cardinality(ProbesOf(cl, br, p))
                                 /\ br[p].inFlight <= HalfOpenMaxCalls

Guarded(cl, br) == (\A c \in Calls : PermitOK(cl, br, c)) /\ Exact(cl, br)

Types ==
  /\ call \in [Calls -> Call]
  /\ \A c \in Calls : call[c].route \in DOMAIN RoutesOf[c]
  /\ DOMAIN fate = Calls
  /\ \A c \in Calls : fate[c] \in [DOMAIN RoutesOf[c] -> Fates]
  /\ breaker \in [Providers -> Breaker]
  /\ stop \in Stop
  /\ maxQueued \in ProviderQueues
  /\ \A c \in Calls : call[c].phase \in {"grace", "unwinding"} => call[c].cut # "none"

Counted ==
  /\ active = Cardinality(In(Inside))
  /\ stop.phase \in {"loaded", "parked"} /\ active = 0 => stop.woken
  /\ QuietRelease

IInv ==
  /\ Types /\ Counted
  /\ \A c \in Calls : FateOK(call[c], fate[c])
  /\ Guarded(call, breaker)

-----------------------------------------------------------------------------
(* The breaker of one provider: what the release of a permit makes of it.    *)
(* Either the circuit stays in its phase, and a probe of this epoch is given *)
(* back; or the next epoch begins with no probe under way.                   *)
Returned(b, permit) ==
  IF permit.kind = "probe" /\ permit.epoch = b.epoch /\ b.phase = "half_open"
    THEN Monus1(b.inFlight) ELSE b.inFlight

Stays(b, permit, d) ==
  d.epoch = b.epoch /\ d.phase = b.phase /\ d.inFlight = Returned(b, permit)

Turns(b, d) == d.epoch = b.epoch + 1 /\ d.inFlight = 0

(* What moved the circuit: its delay, or the outcome of a call of its epoch. *)
Evidence(b, permit, d) ==
  d.phase # b.phase =>
    \/ b.phase = "open" /\ b.due
    \/ /\ permit.kind # "none" /\ permit.epoch = b.epoch
       /\ d.phase = "closed" => /\ permit.kind = "probe" /\ b.phase = "half_open"
                               /\ Monus1(b.inFlight) = 0

Follows(b, permit, d) ==
  /\ d \in Breaker
  /\ Stays(b, permit, d) \/ Turns(b, d)
  /\ Evidence(b, permit, d)

LEMMA TransitionIs ==
  ASSUME NEW b \in Breaker, NEW phase \in {"closed", "open", "half_open"}
  PROVE  /\ Transition(b, phase) \in Breaker
         /\ Transition(b, phase).phase = phase
         /\ Turns(b, Transition(b, phase))
  <1>1. NewBreaker \in Breaker /\ NewBreaker.inFlight = 0
        BY DEF Breaker, NewBreaker
  <1>2. b.epoch + 1 \in Nat
        BY DEF Breaker
  <1>3. QED
        BY <1>1, <1>2 DEF Transition, Breaker, Turns

LEMMA ProbedIs ==
  ASSUME NEW b \in Breaker, NEW permit \in Permit, permit.kind = "none"
  PROVE  Follows(b, permit, Probed(b))
  <1>1. CASE b.phase = "open" /\ b.due
        BY <1>1, TransitionIs DEF Probed, Follows, Evidence
  <1>2. CASE ~(b.phase = "open" /\ b.due)
        BY <1>2 DEF Probed, Follows, Evidence, Stays, Returned
  <1>3. QED
        BY <1>1, <1>2

LEMMA AbandonIs ==
  ASSUME NEW b \in Breaker, NEW permit \in Permit
  PROVE  Follows(b, permit, Abandon(b, permit))
  <1>1. Monus1(b.inFlight) \in Nat
        BY DEF Breaker, Monus1
  <1>2. QED
        BY <1>1 DEF Abandon, Follows, Evidence, Stays, Returned, Breaker

LEMMA CompleteIs ==
  ASSUME NEW b \in Breaker, NEW permit \in Permit, NEW outcome \in Outcomes
  PROVE  Follows(b, permit, Complete(b, permit, outcome))
  <1>1. CASE permit.epoch = b.epoch /\ permit.kind = "closed" /\ b.phase = "closed"
        <2>1. Complete(b, permit, outcome) = CompleteClosed(b, outcome)
              BY <1>1 DEF Complete
        <2>2. CASE outcome = "failed" /\ b.failures + 1 >= FailureThreshold
              <3>1. Complete(b, permit, outcome) = Transition(b, "open")
                    BY <2>1, <2>2 DEF CompleteClosed
              <3>2. QED
                    BY <1>1, <3>1, TransitionIs DEF Follows, Evidence
        <2>3. CASE ~(outcome = "failed" /\ b.failures + 1 >= FailureThreshold)
              <3>1. Complete(b, permit, outcome) \in
                      {b, [b EXCEPT !.failures = 0], [b EXCEPT !.failures = @ + 1]}
                    BY <2>1, <2>3 DEF CompleteClosed, Outcomes
              <3>2. /\ [b EXCEPT !.failures = 0] \in Breaker
                    /\ [b EXCEPT !.failures = @ + 1] \in Breaker
                    <4>1. b.failures + 1 \in Nat
                          BY DEF Breaker
                    <4>2. QED
                          BY <4>1 DEF Breaker
              <3>3. /\ Complete(b, permit, outcome) \in Breaker
                    /\ Complete(b, permit, outcome).phase = b.phase
                    /\ Complete(b, permit, outcome).epoch = b.epoch
                    /\ Complete(b, permit, outcome).inFlight = b.inFlight
                    BY <3>1, <3>2 DEF Breaker
              <3>4. QED
                    BY <1>1, <3>3 DEF Follows, Evidence, Stays, Returned
        <2>4. QED
              BY <2>2, <2>3
  <1>2. CASE permit.epoch = b.epoch /\ permit.kind = "probe" /\ b.phase = "half_open"
        <2> DEFINE left == [b EXCEPT !.inFlight = Monus1(@), !.successes = @ + 1]
        <2>1. Complete(b, permit, outcome) = CompleteProbe(b, outcome)
              BY <1>2 DEF Complete
        <2>2. Monus1(b.inFlight) \in Nat /\ b.successes + 1 \in Nat
              BY DEF Breaker, Monus1
        <2>3. /\ left \in Breaker /\ left.inFlight = Monus1(b.inFlight)
              /\ left.phase = b.phase /\ left.epoch = b.epoch
              BY <2>2 DEF Breaker
        <2>4. \/ Complete(b, permit, outcome) = Transition(b, "open")
              \/ Complete(b, permit, outcome) = Transition(b, "closed") /\ left.inFlight = 0
              \/ Complete(b, permit, outcome) = left
              BY <2>1 DEF CompleteProbe
        <2> HIDE DEF left
        <2>5. QED
              BY <1>2, <2>3, <2>4, TransitionIs DEF Follows, Evidence, Stays, Returned
  <1>3. CASE ~(permit.epoch = b.epoch /\ (\/ permit.kind = "closed" /\ b.phase = "closed"
                                          \/ permit.kind = "probe" /\ b.phase = "half_open"))
        <2>1. Complete(b, permit, outcome) = b
              BY <1>3 DEF Complete
        <2>2. QED
              BY <1>3, <2>1 DEF Follows, Evidence, Stays, Returned
  <1>4. QED
        BY <1>1, <1>2, <1>3

-----------------------------------------------------------------------------
(* The circuits and the permits that are out.                                *)
CallsOK(cl) ==
  cl \in [Calls -> Call] /\ \A c \in Calls : cl[c].route \in DOMAIN RoutesOf[c]

LEMMA ProviderOf ==
  ASSUME NEW cl, CallsOK(cl), NEW c \in Calls
  PROVE  At(cl, c) \in Providers
  BY RouteAssumption DEF CallsOK, At

LEMMA ProbesFinite ==
  ASSUME NEW cl, NEW br, NEW p
  PROVE  IsFiniteSet(ProbesOf(cl, br, p)) /\ Cardinality(ProbesOf(cl, br, p)) \in Nat
  <1>1. ProbesOf(cl, br, p) \subseteq Calls
        BY DEF ProbesOf
  <1>2. QED
        BY <1>1, RouteAssumption, FS_Subset, FS_CardinalityType

(* A call that keeps its route and its permit.                               *)
LEMMA WalkKeeps ==
  ASSUME NEW cl, CallsOK(cl), NEW br, Guarded(cl, br), NEW c \in Calls, NEW n \in Call,
         n.permit = cl[c].permit, n.route = cl[c].route,
         n.phase \in Permitted <=> cl[c].phase \in Permitted
  PROVE  Guarded([cl EXCEPT ![c] = n], br)
  <1> DEFINE cl2 == [cl EXCEPT ![c] = n]
  <1>1. \A d \in Calls : /\ At(cl2, d) = At(cl, d) /\ cl2[d].permit = cl[d].permit
                         /\ cl2[d].phase \in Permitted <=> cl[d].phase \in Permitted
        BY DEF CallsOK, At
  <1> HIDE DEF cl2
  <1>2. \A d \in Calls : PermitOK(cl2, br, d)
        BY <1>1 DEF Guarded, PermitOK
  <1>3. \A p : ProbesOf(cl2, br, p) = ProbesOf(cl, br, p)
        BY <1>1 DEF ProbesOf
  <1>4. QED
        BY <1>2, <1>3 DEF Guarded, Exact, cl2

(* A call that has none any more, and what became of the circuit it left.    *)
LEMMA ReleaseKeeps ==
  ASSUME NEW cl, CallsOK(cl), NEW br \in [Providers -> Breaker], Guarded(cl, br),
         NEW c \in Calls, NEW n \in Call, n.permit = NoPermit, n.phase \notin Permitted,
         n.route \in DOMAIN RoutesOf[c],
         NEW d, Follows(br[At(cl, c)], cl[c].permit, d)
  PROVE  Guarded([cl EXCEPT ![c] = n], [br EXCEPT ![At(cl, c)] = d])
  <1> DEFINE cl2 == [cl EXCEPT ![c] = n]
             q   == At(cl, c)
             br2 == [br EXCEPT ![q] = d]
  <1>1. q \in Providers /\ br[q] \in Breaker /\ d \in Breaker
        BY ProviderOf DEF Follows
  <1>2. /\ \A x \in Calls \ {c} : cl2[x] = cl[x] /\ At(cl2, x) = At(cl, x)
        /\ cl2[c] = n /\ At(cl2, c) \in Providers
        BY RouteAssumption DEF CallsOK, At
  <1>3. \A p \in Providers : br2[p] = IF p = q THEN d ELSE br[p]
        BY <1>1
  <1>4. \A x \in Calls : /\ PermitOK(cl, br, x) /\ At(cl, x) \in Providers
                         /\ cl[x].permit \in Permit
        BY ProviderOf DEF Guarded, CallsOK, Call
  <1>5. \A p \in Providers : br[p].epoch \in Nat /\ br2[p].epoch \in Nat
        BY <1>1, <1>3 DEF Breaker
  <1>6. Stays(br[q], cl[c].permit, d) \/ Turns(br[q], d)
        BY DEF Follows
  <1> HIDE DEF cl2, br2, q
  <1>7. ASSUME NEW x \in Calls PROVE PermitOK(cl2, br2, x)
        <2>1. CASE x = c
              <3>1. br2[At(cl2, c)].epoch \in Nat
                    BY <1>2, <1>5
              <3>2. QED
                    BY <1>2, <2>1, <3>1 DEF PermitOK, NoPermit
        <2>2. CASE x # c /\ At(cl, x) # q
              BY <1>2, <1>3, <1>4, <2>2 DEF PermitOK
        <2>3. CASE x # c /\ At(cl, x) = q
              <3>1. cl2[x] = cl[x] /\ At(cl2, x) = q /\ br2[q] = d
                    BY <1>1, <1>2, <1>3, <2>3
              <3>2. cl[x].permit.epoch \in Nat /\ br[q].epoch \in Nat
                    BY <1>1, <1>4 DEF Permit, Breaker
              <3>3. PermitOK(cl, br, x) /\ cl[x].permit.epoch <= br[q].epoch
                    BY <1>4, <2>3 DEF PermitOK
              <3>4. /\ cl[x].permit.epoch <= d.epoch
                    /\ cl[x].permit.epoch = d.epoch => d.epoch = br[q].epoch /\ d.phase = br[q].phase
                    BY <1>6, <3>2, <3>3 DEF Stays, Turns
              <3>5. QED
                    BY <2>3, <3>1, <3>3, <3>4 DEF PermitOK
        <2>4. QED
              BY <2>1, <2>2, <2>3
  <1>8. ASSUME NEW p \in Providers, p # q, br2[p].phase = "half_open"
        PROVE  br2[p].inFlight = Cardinality(ProbesOf(cl2, br2, p)) /\ br2[p].inFlight <= HalfOpenMaxCalls
        <2>1. br2[p] = br[p] /\ cl2[c].permit.kind = "none"
              BY <1>2, <1>3, <1>8 DEF NoPermit
        <2>2. ProbesOf(cl2, br2, p) = ProbesOf(cl, br, p)
              BY <1>2, <1>8, <2>1 DEF ProbesOf, q
        <2>3. QED
              BY <1>8, <2>1, <2>2 DEF Guarded, Exact
  <1>9. ASSUME d.phase = "half_open"
        PROVE  d.inFlight = Cardinality(ProbesOf(cl2, br2, q)) /\ d.inFlight <= HalfOpenMaxCalls
        <2>0. br2[q] = d /\ cl2[c].permit.kind = "none"
              BY <1>1, <1>2, <1>3 DEF NoPermit
        <2>1. CASE Turns(br[q], d)
              <3>1. \A x \in Calls : At(cl, x) = q => cl[x].permit.epoch # d.epoch
                    BY <1>1, <1>4, <2>1 DEF Turns, PermitOK, Permit, Breaker
              <3>2. ProbesOf(cl2, br2, q) = {}
                    BY <1>2, <2>0, <3>1 DEF ProbesOf
              <3>3. QED
                    BY <2>1, <3>2, FS_EmptySet, BreakerAssumption DEF Turns
        <2>2. CASE Stays(br[q], cl[c].permit, d)
              <3> DEFINE old == ProbesOf(cl, br, q)
              <3>1. /\ br[q].phase = "half_open" /\ br[q].inFlight = Cardinality(old)
                    /\ br[q].inFlight <= HalfOpenMaxCalls /\ d.epoch = br[q].epoch
                    BY <1>1, <1>9, <2>2 DEF Stays, Guarded, Exact
              <3>2. ProbesOf(cl2, br2, q) = old \ {c}
                    BY <1>2, <2>0, <3>1 DEF ProbesOf
              <3>3. c \in old <=> cl[c].permit.kind = "probe" /\ cl[c].permit.epoch = br[q].epoch
                    BY DEF ProbesOf, q
              <3>4. IsFiniteSet(old) /\ Cardinality(old) \in Nat
                    BY ProbesFinite
              <3> HIDE DEF old
              <3>5. CASE c \in old
                    <4>1. Cardinality(old \ {c}) = Cardinality(old) - 1 /\ Cardinality(old) # 0
                          BY <3>4, <3>5, FS_RemoveElement, FS_EmptySet
                    <4>2. d.inFlight = Monus1(Cardinality(old))
                          BY <2>2, <3>1, <3>3, <3>5 DEF Stays, Returned
                    <4>3. QED
                          BY <3>1, <3>2, <3>4, <4>1, <4>2, BreakerAssumption DEF Monus1
              <3>6. CASE c \notin old
                    <4>1. d.inFlight = Cardinality(old) /\ old \ {c} = old
                          BY <2>2, <3>1, <3>3, <3>6 DEF Stays, Returned
                    <4>2. QED
                          BY <3>1, <3>2, <4>1
              <3>7. QED
                    BY <3>5, <3>6
        <2>3. QED
              BY <1>6, <2>1, <2>2
  <1>10. Exact(cl2, br2)
        BY <1>1, <1>3, <1>8, <1>9 DEF Exact
  <1>11. QED
        BY <1>7, <1>10 DEF Guarded, cl2, br2, q

(* A call that is admitted, by the circuit as acquire() leaves it.           *)
LEMMA AdmitKeeps ==
  ASSUME NEW cl, CallsOK(cl), NEW br \in [Providers -> Breaker], Guarded(cl, br),
         NEW c \in Calls, cl[c].phase = "route", NEW n \in Call, n.phase = "gate",
         n.route = cl[c].route, n.permit = PermitOf(br[At(cl, c)]), Admits(br[At(cl, c)])
  PROVE  Guarded([cl EXCEPT ![c] = n], [br EXCEPT ![At(cl, c)] = Admitted(br[At(cl, c)])])
  <1> DEFINE cl2 == [cl EXCEPT ![c] = n]
             q   == At(cl, c)
             b   == br[q]
             d   == Admitted(b)
             br2 == [br EXCEPT ![q] = d]
  <1>1. q \in Providers /\ b \in Breaker
        BY ProviderOf
  <1>2. /\ d.epoch = b.epoch /\ d.phase = b.phase /\ b.epoch \in Nat
        /\ d.inFlight = IF b.phase = "half_open" THEN b.inFlight + 1 ELSE b.inFlight
        BY <1>1 DEF Admitted, Breaker
  <1>3. /\ \A x \in Calls \ {c} : cl2[x] = cl[x]
        /\ \A x \in Calls : At(cl2, x) = At(cl, x)
        /\ cl2[c] = n /\ cl[c].permit = NoPermit
        BY DEF CallsOK, At, Guarded, PermitOK, Permitted, AtProvider
  <1>4. \A p \in Providers : br2[p] = IF p = q THEN d ELSE br[p]
        BY <1>1
  <1>5. \A x \in Calls : PermitOK(cl, br, x) /\ At(cl, x) \in Providers
        BY ProviderOf DEF Guarded
  <1>6. b.phase = "closed" \/ (b.phase = "half_open" /\ b.inFlight < HalfOpenMaxCalls)
        BY DEF Admits
  <1>7. n.permit.epoch = b.epoch /\ n.permit.kind = IF b.phase = "half_open" THEN "probe" ELSE "closed"
        BY DEF PermitOf
  <1>8. q = At(cl, c) /\ b = br[q]
        OBVIOUS
  <1> HIDE DEF cl2, br2, q, d, b
  <1>9. ASSUME NEW x \in Calls PROVE PermitOK(cl2, br2, x)
        <2>1. CASE x = c
              <3>1. br2[At(cl2, c)] = d /\ cl2[c] = n
                    BY <1>1, <1>3, <1>4, <1>8
              <3>2. QED
                    BY <1>2, <1>6, <1>7, <2>1, <3>1 DEF PermitOK, Permitted
        <2>2. CASE x # c
              <3>1. /\ br2[At(cl2, x)].epoch = br[At(cl, x)].epoch
                    /\ br2[At(cl2, x)].phase = br[At(cl, x)].phase
                    BY <1>2, <1>3, <1>4, <1>5, <1>8
              <3>2. QED
                    BY <1>3, <1>5, <2>2, <3>1 DEF PermitOK
        <2>3. QED
              BY <2>1, <2>2
  <1>10. \A p \in Providers : br2[p].epoch = br[p].epoch
        BY <1>2, <1>4, <1>8
  <1>11. ASSUME NEW p \in Providers, p # q
        PROVE  br2[p] = br[p] /\ ProbesOf(cl2, br2, p) = ProbesOf(cl, br, p)
        <2>1. br2[p] = br[p] /\ At(cl, c) # p
              BY <1>4, <1>8, <1>11
        <2>2. QED
              BY <1>3, <2>1 DEF ProbesOf
  <1>12. ASSUME b.phase = "half_open"
        PROVE  d.inFlight = Cardinality(ProbesOf(cl2, br2, q)) /\ d.inFlight <= HalfOpenMaxCalls
        <2> DEFINE old == ProbesOf(cl, br, q)
        <2>1. b.inFlight = Cardinality(old) /\ d.inFlight = b.inFlight + 1 /\ b.inFlight < HalfOpenMaxCalls
              BY <1>1, <1>2, <1>6, <1>8, <1>12 DEF Guarded, Exact
        <2>2. c \notin old /\ ProbesOf(cl2, br2, q) = old \cup {c}
              <3>1. c \notin old
                    BY <1>3 DEF ProbesOf, NoPermit
              <3>2. cl2[c].permit.kind = "probe" /\ cl2[c].permit.epoch = br2[q].epoch /\ At(cl2, c) = q
                    BY <1>1, <1>3, <1>7, <1>8, <1>10, <1>12
              <3>3. QED
                    BY <1>1, <1>3, <1>10, <3>1, <3>2 DEF ProbesOf
        <2>3. IsFiniteSet(old) /\ Cardinality(old) \in Nat
              BY ProbesFinite
        <2> HIDE DEF old
        <2>4. Cardinality(old \cup {c}) = Cardinality(old) + 1
              BY <2>2, <2>3, FS_AddElement
        <2>5. QED
              BY <2>1, <2>2, <2>3, <2>4, BreakerAssumption
  <1>13. Exact(cl2, br2)
        BY <1>1, <1>2, <1>4, <1>8, <1>11, <1>12 DEF Guarded, Exact
  <1>14. QED
        BY <1>8, <1>9, <1>13 DEF Guarded, cl2, br2, d

-----------------------------------------------------------------------------
(* What a step of one call does to the call, to its fates, to the circuit of *)
(* its provider, and to the count of the calls inside.                       *)
MoveStep(c) ==
  /\ call' = [call EXCEPT ![c] = call'[c]]
  /\ call'[c] \in Call /\ call'[c].route \in DOMAIN RoutesOf[c]
  /\ call'[c].phase \in {"grace", "unwinding"} => call'[c].cut # "none"

FateFrame(c) ==
  /\ DOMAIN fate' = Calls /\ \A d \in Calls \ {c} : fate'[d] = fate[d]
  /\ fate'[c] \in [DOMAIN RoutesOf[c] -> Fates]

Walks(c) ==
  /\ call'[c].permit = call[c].permit /\ call'[c].route = call[c].route
  /\ call'[c].phase \in Permitted <=> call[c].phase \in Permitted
  /\ breaker' = breaker

Frees(c) ==
  /\ call'[c].permit = NoPermit /\ call'[c].phase \notin Permitted
  /\ \E d : /\ Follows(breaker[At(call, c)], call[c].permit, d)
           /\ breaker' = [breaker EXCEPT ![At(call, c)] = d]

Granted(c) ==
  LET b == Probed(breaker[At(call, c)]) IN
  /\ call[c].phase = "route" /\ call'[c].phase = "gate" /\ call'[c].route = call[c].route
  /\ Admits(b) /\ call'[c].permit = PermitOf(b)
  /\ breaker' = [breaker EXCEPT ![At(call, c)] = Admitted(b)]

CountStep(c) ==
  \/ /\ Inactive
     /\ call'[c].phase \in Inside <=> call[c].phase \in Inside
     /\ call'[c].phase \in Inside \ {"entered"} =>
          call[c].phase \in Inside \ {"entered"} \/ ~Stopping
  \/ /\ call[c].phase \notin Inside /\ call'[c].phase = "entered"
     /\ active' = active + 1 /\ UNCHANGED <<stop, maxQueued>>
  \/ call[c].phase \in Inside /\ call'[c].phase \notin Inside /\ Exit

Steps(c) ==
  /\ MoveStep(c) /\ CountStep(c)
  /\ FateFrame(c) /\ FateOK(call'[c], fate'[c])
  /\ Walks(c) \/ Frees(c) \/ Granted(c)

-----------------------------------------------------------------------------
LEMMA KnownIs ==
  ASSUME NEW code \in ErrorCode
  PROVE  /\ Known(code) \in Error /\ ~Known(code).unknown
         /\ Unknown(code) \in Error /\ Unknown(code).unknown
  BY DEF Known, Unknown, Error

LEMMA CallTypes ==
  ASSUME Types, NEW c \in Calls
  PROVE  /\ call[c] \in Call /\ call[c].route \in DOMAIN RoutesOf[c] /\ call[c].route \in Nat
         /\ call[c].permit \in Permit /\ At(call, c) = Provider(c) /\ CallsOK(call)
         /\ At(call, c) \in Providers /\ breaker[At(call, c)] \in Breaker
  <1>1. CallsOK(call)
        BY DEF Types, CallsOK
  <1>2. At(call, c) \in Providers
        BY <1>1, ProviderOf
  <1>3. call[c] \in Call
        BY DEF Types
  <1>4. QED
        BY <1>1, <1>2, <1>3 DEF Types, Call, At, Provider

LEMMA GotoIs ==
  ASSUME Types, NEW c \in Calls, NEW phase \in Phase, Goto(c, phase),
         phase \notin {"grace", "unwinding"}
  PROVE  /\ MoveStep(c)
         /\ call'[c].phase = phase /\ call'[c].route = call[c].route
         /\ call'[c].permit = call[c].permit
  <1> DEFINE n == [call[c] EXCEPT !.phase = phase]
  <1>1. call[c] \in Call /\ call[c].route \in DOMAIN RoutesOf[c]
        BY CallTypes
  <1>2. n \in Call /\ n.phase = phase /\ n.route = call[c].route /\ n.permit = call[c].permit
        BY <1>1 DEF Call
  <1>3. call' = [call EXCEPT ![c] = n]
        BY DEF Goto, Update
  <1> HIDE DEF n
  <1>4. call'[c] = n
        BY <1>3 DEF Types
  <1>5. QED
        BY <1>1, <1>2, <1>3, <1>4 DEF MoveStep

LEMMA ClosedIs ==
  ASSUME Types, NEW c \in Calls, NEW phase \in Ended, NEW error \in Error \cup {Success},
         Closed(c, phase, error)
  PROVE  /\ MoveStep(c)
         /\ call'[c].phase = phase /\ call'[c].route = call[c].route
         /\ call'[c].permit = NoPermit /\ call'[c].error = error
  <1> DEFINE n == [call[c] EXCEPT !.phase = phase, !.permit = NoPermit, !.error = error,
                                  !.cancelled = FALSE, !.late = FALSE]
  <1>1. call[c] \in Call /\ call[c].route \in DOMAIN RoutesOf[c]
        BY CallTypes
  <1>2. NoPermit \in Permit /\ phase \in Phase /\ phase \notin {"grace", "unwinding"}
        BY DEF NoPermit, Permit, Phase, Ended
  <1>3. n \in Call /\ n.phase = phase /\ n.route = call[c].route /\ n.permit = NoPermit
        /\ n.error = error
        BY <1>1, <1>2 DEF Call
  <1>4. call' = [call EXCEPT ![c] = n]
        BY DEF Closed, Update
  <1> HIDE DEF n
  <1>5. call'[c] = n
        BY <1>4 DEF Types
  <1>6. QED
        BY <1>1, <1>2, <1>3, <1>4, <1>5 DEF MoveStep

LEMMA NextIs ==
  ASSUME Types, NEW c \in Calls, NEW error \in Error, call[c].route < Len(RoutesOf[c]),
         Update(c, [call[c] EXCEPT !.phase = "route", !.route = @ + 1,
                                   !.permit = NoPermit, !.error = error])
  PROVE  /\ MoveStep(c)
         /\ call'[c].phase = "route" /\ call'[c].route = call[c].route + 1
         /\ call'[c].permit = NoPermit
  <1> DEFINE n == [call[c] EXCEPT !.phase = "route", !.route = @ + 1,
                                  !.permit = NoPermit, !.error = error]
  <1>1. call[c] \in Call /\ call[c].route \in DOMAIN RoutesOf[c] /\ call[c].route + 1 \in Nat
        BY CallTypes
  <1>2. NoPermit \in Permit /\ "route" \in Phase
        BY DEF NoPermit, Permit, Phase, Inside
  <1>3. n \in Call /\ n.phase = "route" /\ n.route = call[c].route + 1 /\ n.permit = NoPermit
        BY <1>1, <1>2 DEF Call
  <1>4. call' = [call EXCEPT ![c] = n]
        BY DEF Update
  <1>5. call[c].route + 1 \in DOMAIN RoutesOf[c]
        BY <1>1, RouteAssumption
  <1> HIDE DEF n
  <1>6. call'[c] = n
        BY <1>4 DEF Types
  <1>7. QED
        BY <1>3, <1>4, <1>5, <1>6 DEF MoveStep

-----------------------------------------------------------------------------
(* The end of a route: whatever happens next, what the call knows of the     *)
(* routes it has tried is true.                                              *)
LEMMA NextRouteIs ==
  ASSUME Types, NEW c \in Calls, NEW error \in Error, NextRoute(c, error),
         call[c].phase \in Inside \ {"entered"},
         FateFrame(c), Told(fate'[c], call[c].route, error)
  PROVE  /\ MoveStep(c) /\ CountStep(c) /\ FateOK(call'[c], fate'[c])
         /\ call'[c].permit = NoPermit /\ call'[c].phase \in {"route", "done"}
  <1> DEFINE f == fate'[c]
             i == call[c].route
  <1>1. i \in Nat /\ DOMAIN f = DOMAIN RoutesOf[c] /\ DOMAIN f \subseteq Nat
        BY CallTypes, RouteAssumption DEF FateFrame
  <1> HIDE DEF f
  <1>2. CASE i < Len(RoutesOf[c]) /\ ShouldFallback(error, PolicyOf[c])
        <2>1. /\ Update(c, [call[c] EXCEPT !.phase = "route", !.route = @ + 1,
                                           !.permit = NoPermit, !.error = error])
              /\ Inactive
              BY <1>2 DEF NextRoute
        <2>2. /\ MoveStep(c)
              /\ call'[c].phase = "route" /\ call'[c].route = i + 1
              /\ call'[c].permit = NoPermit
              BY <1>2, <2>1, NextIs
        <2>3. ~error.unknown
              BY <1>2 DEF ShouldFallback
        <2>4. Around(f, i) /\ f[i] \in Clear
              BY <2>3 DEF Told, f
        <2>5. Around(f, i + 1) /\ f[i + 1] = "untried"
              <3>1. i + 1 \in DOMAIN f
                    BY <2>2, <1>1 DEF MoveStep
              <3>2. \A j \in DOMAIN f : j < i + 1 => j < i \/ j = i
                    BY <1>1
              <3>3. \A j \in DOMAIN f : j > i + 1 => j > i
                    BY <1>1
              <3>4. i + 1 > i
                    BY <1>1
              <3>5. QED
                    BY <2>4, <3>1, <3>2, <3>3, <3>4 DEF Around
        <2>6. FateOK(call'[c], f)
              BY <2>2, <2>5 DEF FateOK, Before
        <2>7. CountStep(c)
              BY <2>1, <2>2 DEF CountStep, Inside
        <2>8. QED
              BY <2>2, <2>6, <2>7 DEF f
  <1>3. CASE ~(i < Len(RoutesOf[c]) /\ ShouldFallback(error, PolicyOf[c]))
        <2>1. Closed(c, "done", error) /\ Exit
              BY <1>3 DEF NextRoute, Leave
        <2>2. /\ MoveStep(c)
              /\ call'[c].phase = "done" /\ call'[c].route = i
              /\ call'[c].permit = NoPermit /\ call'[c].error = error
              BY <2>1, ClosedIs DEF Ended
        <2>3. FateOK(call'[c], f)
              BY <2>2 DEF FateOK, Told, Before, f
        <2>4. CountStep(c)
              BY <2>1, <2>2 DEF CountStep, Inside, Waiting, AtProvider
        <2>5. QED
              BY <2>2, <2>3, <2>4 DEF f
  <1>4. QED
        BY <1>2, <1>3

LEMMA FinishFrees ==
  ASSUME Types, NEW c \in Calls, NEW outcome \in Outcomes, Finish(c, outcome) \/ GiveUp(c)
  PROVE  \E d : /\ Follows(breaker[At(call, c)], call[c].permit, d)
               /\ breaker' = [breaker EXCEPT ![At(call, c)] = d]
  <1>1. /\ call[c].permit \in Permit /\ At(call, c) = Provider(c)
        /\ breaker[At(call, c)] \in Breaker
        BY CallTypes
  <1>2. CASE Finish(c, outcome)
        BY <1>1, <1>2, CompleteIs DEF Finish, SetBreaker
  <1>3. CASE GiveUp(c)
        BY <1>1, <1>3, AbandonIs DEF GiveUp, SetBreaker
  <1>4. QED
        BY <1>2, <1>3

LEMMA RouteFailsIs ==
  ASSUME Types, NEW c \in Calls, NEW error \in Error, RouteFails(c, error) \/ Turned(c, error),
         call[c].phase \in Inside \ {"entered"},
         FateFrame(c), Told(fate'[c], call[c].route, error)
  PROVE  Steps(c)
  <1>1. NextRoute(c, error)
        BY DEF RouteFails, Turned
  <1>2. /\ MoveStep(c) /\ CountStep(c) /\ FateOK(call'[c], fate'[c])
        /\ call'[c].permit = NoPermit /\ call'[c].phase \in {"route", "done"}
        BY <1>1, NextRouteIs
  <1>3. \E outcome \in Outcomes : Finish(c, outcome) \/ GiveUp(c)
        BY DEF RouteFails, Turned, Outcomes
  <1>4. Frees(c)
        BY <1>2, <1>3, FinishFrees DEF Frees, Permitted, AtProvider
  <1>5. QED
        BY <1>2, <1>4 DEF Steps

(* The fates that a step leaves alone, and those it sets.                    *)
LEMMA FateSame ==
  ASSUME Types, NEW c \in Calls, UNCHANGED fate
  PROVE  FateFrame(c) /\ fate'[c] = fate[c]
  BY DEF Types, FateFrame

LEMMA FateSet ==
  ASSUME Types, NEW c \in Calls, NEW f \in Fates, SetFate(c, f)
  PROVE  /\ FateFrame(c)
         /\ fate'[c][call[c].route] = f
         /\ Around(fate[c], call[c].route) => Around(fate'[c], call[c].route)
  <1>1. fate[c] \in [DOMAIN RoutesOf[c] -> Fates] /\ call[c].route \in DOMAIN RoutesOf[c]
        BY DEF Types
  <1>2. fate'[c] = [fate[c] EXCEPT ![call[c].route] = f]
        BY DEF Types, SetFate
  <1>3. FateFrame(c)
        BY <1>1, <1>2 DEF Types, FateFrame, SetFate
  <1>4. DOMAIN fate'[c] = DOMAIN fate[c] /\ \A j \in DOMAIN fate[c] \ {call[c].route} : fate'[c][j] = fate[c][j]
        BY <1>1, <1>2
  <1>5. call[c].route \in Nat /\ DOMAIN fate[c] \subseteq Nat
        BY <1>1, CallTypes, RouteAssumption
  <1>6. Around(fate[c], call[c].route) => Around(fate'[c], call[c].route)
        BY <1>4, <1>5 DEF Around
  <1>7. QED
        BY <1>1, <1>2, <1>3, <1>6

LEMMA ClearIsTold ==
  ASSUME NEW k, NEW f, FateOK(k, f), k.phase \in Before \cup {"materializing", "unwinding"}
  PROVE  \A error : Told(f, k.route, error)
  BY DEF FateOK, Told, Clear

-----------------------------------------------------------------------------
(* The steps before the breaker, and those that only move a call on.         *)
LEMMA GotoSteps ==
  ASSUME IInv, NEW c \in Calls, NEW phase \in Before, Goto(c, phase), call[c].phase \in Before,
         phase \in Permitted <=> call[c].phase \in Permitted, UNCHANGED <<fate, breaker>>,
         \/ Inactive /\ phase \in Inside \ {"entered"} /\ call[c].phase \in Inside \ {"entered"}
         \/ Inactive /\ phase = "admission" /\ call[c].phase = "entered" /\ ~Stopping
         \/ Inactive /\ phase \notin Inside /\ call[c].phase \notin Inside
         \/ /\ phase = "entered" /\ call[c].phase \notin Inside
            /\ active' = active + 1 /\ UNCHANGED <<stop, maxQueued>>
  PROVE  Steps(c)
  <1>1. Types /\ FateOK(call[c], fate[c])
        BY DEF IInv
  <1>2. phase \in Phase /\ phase \notin {"grace", "unwinding"}
        BY DEF Before, Phase, Inside, Waiting, AtProvider
  <1>3. /\ MoveStep(c)
        /\ call'[c].phase = phase /\ call'[c].route = call[c].route
        /\ call'[c].permit = call[c].permit
        BY <1>1, <1>2, GotoIs
  <1>4. FateFrame(c) /\ fate'[c] = fate[c]
        BY <1>1, FateSame
  <1>5. FateOK(call'[c], fate'[c])
        BY <1>1, <1>3, <1>4 DEF FateOK, Before
  <1>6. Walks(c)
        BY <1>3 DEF Walks
  <1>7. CountStep(c)
        BY <1>3 DEF CountStep, Inside
  <1>8. QED
        BY <1>3, <1>4, <1>5, <1>6, <1>7 DEF Steps

(* A call that ends without a permit, having been counted or not.            *)
LEMMA LeaveSteps ==
  ASSUME IInv, NEW c \in Calls, NEW error \in Error, Closed(c, "done", error),
         call[c].phase \in Before \ Permitted, UNCHANGED <<fate, breaker>>,
         \/ call[c].phase \in Inside /\ Exit
         \/ call[c].phase \notin Inside /\ Inactive
  PROVE  Steps(c)
  <1>1. Types /\ FateOK(call[c], fate[c]) /\ PermitOK(call, breaker, c)
        BY DEF IInv, Guarded
  <1>2. /\ MoveStep(c)
        /\ call'[c].phase = "done" /\ call'[c].route = call[c].route
        /\ call'[c].permit = NoPermit /\ call'[c].error = error
        BY <1>1, ClosedIs DEF Ended
  <1>3. FateFrame(c) /\ fate'[c] = fate[c]
        BY <1>1, FateSame
  <1>4. Told(fate[c], call[c].route, error)
        BY <1>1, ClearIsTold
  <1>5. FateOK(call'[c], fate'[c])
        BY <1>2, <1>3, <1>4 DEF FateOK, Told, Before
  <1>6. Walks(c)
        BY <1>1, <1>2 DEF Walks, PermitOK, Permitted, AtProvider
  <1>7. CountStep(c)
        BY <1>2 DEF CountStep, Inside, Waiting, AtProvider
  <1>8. QED
        BY <1>2, <1>3, <1>5, <1>6, <1>7 DEF Steps

LEMMA CutsAre ==
  ASSUME NEW c \in Calls
  PROVE  /\ Cuts(c) \subseteq {"cancelled", "timeout"} /\ EarlyCuts(c) \subseteq {"cancelled", "timeout"}
         /\ \A k \in Cuts(c) \cup EarlyCuts(c) : Known(k) \in Error
         /\ \A gate : Refusals(c, gate) \subseteq Error
  <1>1. Cuts(c) \subseteq {"cancelled", "timeout"} /\ EarlyCuts(c) \subseteq {"cancelled", "timeout"}
        BY DEF Cuts, EarlyCuts
  <1>2. \A k \in {"cancelled", "timeout", "overloaded"} : Known(k) \in Error
        BY KnownIs DEF ErrorCode
  <1>3. \A gate : Refusals(c, gate) \subseteq Error
        BY <1>1, <1>2 DEF Refusals
  <1>4. QED
        BY <1>1, <1>2, <1>3

LEMMA EnteringSteps ==
  ASSUME IInv, NEW c \in Calls,
         Check(c) \/ Enter(c) \/ Recheck(c) \/ AcquireGlobal(c) \/ WaitGlobal(c)
  PROVE  Steps(c)
  <1> USE DEF Before, Permitted, Inside, Waiting, AtProvider
  <1>0. \A code \in {"cancelled", "invalid_request"} : Known(code) \in Error
        BY KnownIs DEF ErrorCode
  <1>1. CASE Check(c)
        <2>1. CASE Stopping
              BY <1>0, <1>1, <2>1, LeaveSteps DEF Check
        <2>2. CASE ~Stopping
              BY <1>1, <2>2, GotoSteps DEF Check
        <2>3. QED
              BY <2>1, <2>2
  <1>2. CASE Enter(c)
        BY <1>2, GotoSteps DEF Enter
  <1>3. CASE Recheck(c)
        <2>1. CASE \E code \in {"cancelled", "invalid_request"} : Leave(c, Known(code))
              BY <1>0, <1>3, <2>1, LeaveSteps DEF Recheck, Leave
        <2>2. CASE ~Stopping /\ Goto(c, "admission") /\ Inactive
              BY <1>3, <2>2, GotoSteps DEF Recheck
        <2>3. QED
              BY <1>3, <2>1, <2>2 DEF Recheck
  <1>4. CASE AcquireGlobal(c)
        <2>1. CASE \E e \in Refusals(c, GlobalGate) : Leave(c, e)
              BY <1>4, <2>1, CutsAre, LeaveSteps DEF AcquireGlobal, Leave
        <2>2. CASE \E phase \in {"route", "global_wait"} : Goto(c, phase) /\ Inactive
              BY <1>4, <2>2, GotoSteps DEF AcquireGlobal
        <2>3. QED
              BY <1>4, <2>1, <2>2 DEF AcquireGlobal
  <1>5. CASE WaitGlobal(c)
        <2>1. CASE \E k \in Cuts(c) : Leave(c, Known(k))
              BY <1>5, <2>1, CutsAre, LeaveSteps DEF WaitGlobal, Leave
        <2>2. CASE Goto(c, "route") /\ Inactive
              BY <1>5, <2>2, GotoSteps DEF WaitGlobal
        <2>3. QED
              BY <1>5, <2>1, <2>2 DEF WaitGlobal
  <1>6. QED
        BY <1>1, <1>2, <1>3, <1>4, <1>5

-----------------------------------------------------------------------------
(* The breaker and the gate of a provider.                                   *)
LEMMA AcquireBreakerSteps ==
  ASSUME IInv, NEW c \in Calls, AcquireBreaker(c)
  PROVE  Steps(c)
  <1> DEFINE q == At(call, c)
             b == Probed(breaker[q])
  <1>1. Types /\ FateOK(call[c], fate[c]) /\ PermitOK(call, breaker, c)
        BY DEF IInv, Guarded
  <1>2. /\ call[c] \in Call /\ call[c].route \in DOMAIN RoutesOf[c]
        /\ q = Provider(c) /\ call[c].permit \in Permit /\ breaker[q] \in Breaker
        BY <1>1, CallTypes
  <1>3. call[c].phase = "route" /\ FateFrame(c) /\ fate'[c] = fate[c]
        BY <1>1, FateSame DEF AcquireBreaker
  <1>4. call[c].permit.kind = "none" /\ Told(fate[c], call[c].route, Known("overloaded"))
        BY <1>1, <1>3, ClearIsTold DEF PermitOK, NoPermit, Permitted, AtProvider, Before
  <1>5. Follows(breaker[q], call[c].permit, b)
        BY <1>2, <1>4, ProbedIs
  <1>6. CASE Admits(b) /\ Update(c, [call[c] EXCEPT !.phase = "gate", !.permit = PermitOf(b)])
                      /\ SetBreaker(q, Admitted(b)) /\ Inactive
        <2> DEFINE n == [call[c] EXCEPT !.phase = "gate", !.permit = PermitOf(b)]
        <2>1. PermitOf(b) \in Permit
              BY <1>5 DEF Follows, Breaker, PermitOf, Permit
        <2>2. "gate" \in Phase
              BY DEF Phase, Inside
        <2>3. n \in Call /\ n.phase = "gate" /\ n.route = call[c].route /\ n.permit = PermitOf(b)
              BY <1>2, <2>1, <2>2 DEF Call
        <2>4. call' = [call EXCEPT ![c] = n]
              BY <1>6 DEF Update
        <2> HIDE DEF n
        <2>5. call'[c] = n
              BY <1>1, <2>4 DEF Types
        <2>6. MoveStep(c)
              BY <1>2, <2>3, <2>4, <2>5 DEF MoveStep
        <2>7. Granted(c)
              BY <1>3, <1>6, <2>3, <2>5 DEF Granted, SetBreaker
        <2>8. CountStep(c)
              BY <1>3, <1>6, <2>3, <2>5 DEF CountStep, Inside
        <2>9. FateOK(call'[c], fate'[c])
              BY <1>1, <1>3, <2>3, <2>5 DEF FateOK, Before
        <2>10. QED
              BY <1>3, <2>6, <2>7, <2>8, <2>9 DEF Steps
  <1>7. CASE NextRoute(c, Known("overloaded")) /\ SetBreaker(q, b)
        <2>1. Known("overloaded") \in Error
              BY KnownIs DEF ErrorCode
        <2>2. /\ MoveStep(c) /\ CountStep(c) /\ FateOK(call'[c], fate'[c])
              /\ call'[c].permit = NoPermit /\ call'[c].phase \in {"route", "done"}
              BY <1>1, <1>3, <1>4, <1>7, <2>1, NextRouteIs DEF Inside
        <2>3. Frees(c)
              BY <1>5, <1>7, <2>2 DEF Frees, SetBreaker, Permitted, AtProvider
        <2>4. QED
              BY <1>3, <2>2, <2>3 DEF Steps
  <1>8. QED
        BY <1>2, <1>6, <1>7 DEF AcquireBreaker

(* An error of a call whose provider has settled its fate, or never had it.  *)
LEMMA ClearFails ==
  ASSUME IInv, NEW c \in Calls, NEW error \in Error, RouteFails(c, error) \/ Turned(c, error),
         call[c].phase \in {"gate", "provider_wait", "capabilities", "materializing", "unwinding"},
         UNCHANGED fate
  PROVE  Steps(c)
  <1>1. Types /\ FateOK(call[c], fate[c])
        BY DEF IInv
  <1>2. FateFrame(c) /\ fate'[c] = fate[c]
        BY <1>1, FateSame
  <1>3. Told(fate[c], call[c].route, error)
        BY <1>1, ClearIsTold DEF Before
  <1>4. call[c].phase \in Inside \ {"entered"}
        BY DEF Inside, Waiting, AtProvider
  <1>5. QED
        BY <1>1, <1>2, <1>3, <1>4, RouteFailsIs

LEMMA GateSteps ==
  ASSUME IInv, NEW c \in Calls, AcquireProvider(c) \/ WaitProvider(c)
  PROVE  Steps(c)
  <1>0. \A code \in {"cancelled", "timeout"} : Known(code) \in Error
        BY KnownIs DEF ErrorCode
  <1>1. call[c].phase \in {"gate", "provider_wait"} /\ UNCHANGED fate
        BY DEF AcquireProvider, WaitProvider
  <1>2. CASE \E phase \in {"capabilities", "provider_wait"} :
               Goto(c, phase) /\ Inactive /\ UNCHANGED breaker
        BY <1>1, <1>2, GotoSteps DEF Before, Permitted, Inside, Waiting, AtProvider
  <1>3. CASE \E e \in Error : RouteFails(c, e) \/ Turned(c, e)
        BY <1>1, <1>3, ClearFails
  <1>4. CASE AcquireProvider(c)
        BY <1>2, <1>3, <1>4, CutsAre DEF AcquireProvider
  <1>5. CASE WaitProvider(c)
        BY <1>0, <1>2, <1>3, <1>5, CutsAre DEF WaitProvider
  <1>6. QED
        BY <1>4, <1>5

-----------------------------------------------------------------------------
(* The provider's answers.  The fate that an answer settles is clear, or the *)
(* error says that it is not.                                                *)
LEMMA SettledFails ==
  ASSUME IInv, NEW c \in Calls, NEW error \in Error, RouteFails(c, error),
         call[c].phase \in {"running", "grace"},
         NEW f \in {"paid", "failed", "unknown"}, SetFate(c, f), f = "unknown" => error.unknown
  PROVE  Steps(c)
  <1>1. Types /\ FateOK(call[c], fate[c])
        BY DEF IInv
  <1>2. f \in Fates
        BY DEF Fates
  <1>3. FateFrame(c) /\ fate'[c][call[c].route] = f /\ Around(fate'[c], call[c].route)
        BY <1>1, <1>2, FateSet DEF FateOK
  <1>4. Told(fate'[c], call[c].route, error)
        BY <1>3 DEF Told, Clear
  <1>5. call[c].phase \in Inside \ {"entered"}
        BY DEF Inside, AtProvider
  <1>6. QED
        BY <1>1, <1>3, <1>4, <1>5, RouteFailsIs

(* The phase of a call and the fate of its route change together.            *)
LEMMA ProviderGoto ==
  ASSUME IInv, NEW c \in Calls, Inactive, UNCHANGED breaker,
         \/ call[c].phase = "capabilities" /\ Goto(c, "running") /\ SetFate(c, "running")
         \/ call[c].phase \in {"running", "grace"} /\ Goto(c, "materializing") /\ SetFate(c, "paid")
  PROVE  Steps(c)
  <1>1. Types /\ FateOK(call[c], fate[c])
        BY DEF IInv
  <1>2. PICK phase \in {"running", "materializing"} :
          /\ Goto(c, phase)
          /\ SetFate(c, IF phase = "running" THEN "running" ELSE "paid")
        OBVIOUS
  <1>3. phase \in Phase /\ phase \notin {"grace", "unwinding"}
        BY DEF Phase, Inside, AtProvider
  <1>4. /\ MoveStep(c)
        /\ call'[c].phase = phase /\ call'[c].route = call[c].route
        /\ call'[c].permit = call[c].permit
        BY <1>1, <1>2, <1>3, GotoIs
  <1>5. (IF phase = "running" THEN "running" ELSE "paid") \in Fates
        BY DEF Fates
  <1>6. /\ FateFrame(c) /\ Around(fate'[c], call[c].route)
        /\ fate'[c][call[c].route] = IF phase = "running" THEN "running" ELSE "paid"
        BY <1>1, <1>2, <1>5, FateSet DEF FateOK
  <1>7. FateOK(call'[c], fate'[c])
        BY <1>4, <1>6 DEF FateOK, Before
  <1>8. Walks(c)
        BY <1>4 DEF Walks, Permitted, AtProvider
  <1>9. CountStep(c)
        BY <1>4 DEF CountStep, Inside, AtProvider
  <1>10. QED
        BY <1>4, <1>6, <1>7, <1>8, <1>9 DEF Steps

LEMMA CutErrorIs ==
  ASSUME IInv, NEW c \in Calls, call[c].phase \in {"grace", "unwinding"}
  PROVE  CutError(c) \in Error /\ CutError(c).unknown /\ Known(call[c].cut) \in Error
  <1>1. call[c] \in Call /\ call[c].cut # "none"
        BY DEF IInv, Types
  <1>2. call[c].cut \in ErrorCode
        BY <1>1 DEF Call, ErrorCode
  <1>3. QED
        BY <1>2, KnownIs DEF CutError

LEMMA AnswerSteps ==
  ASSUME IInv, NEW c \in Calls,
         Discover(c) \/ Paid(c) \/ Fails(c) \/ FailsInGrace(c) \/ GraceOver(c) \/ Unwound(c)
  PROVE  Steps(c)
  <1>0. \A code \in {"timeout", "protocol"} : Known(code) \in Error
        BY KnownIs DEF ErrorCode
  <1>1. CASE Discover(c)
        <2>1. CASE \E e \in Error : RouteFails(c, e) /\ UNCHANGED fate
              BY <1>1, <2>1, ClearFails DEF Discover
        <2>2. CASE Goto(c, "running") /\ SetFate(c, "running") /\ Inactive /\ UNCHANGED breaker
              BY <1>1, <2>2, ProviderGoto DEF Discover
        <2>3. QED
              BY <1>0, <1>1, <2>1, <2>2, GateAssumption DEF Discover
  <1>2. CASE Paid(c)
        <2>1. CASE Goto(c, "materializing") /\ Inactive /\ UNCHANGED breaker
              BY <1>2, <2>1, ProviderGoto DEF Paid
        <2>2. CASE \E e \in Error : RouteFails(c, e)
              BY <1>2, <2>2, SettledFails DEF Paid
        <2>3. QED
              BY <1>0, <1>2, <2>1, <2>2 DEF Paid
  <1>3. CASE Fails(c)
        <2>1. PICK e \in ProviderFaults : Refused(c, e) /\ RouteFails(c, Classified(e))
              BY <1>3 DEF Fails
        <2>2. e \in Error
              BY GateAssumption
        <2>3. Classified(e) \in Error /\ Classified(e).unknown = Ambiguous(e)
              BY <2>2 DEF Classified, Ambiguous, Error
        <2>4. SetFate(c, IF Ambiguous(e) THEN "unknown" ELSE "failed")
              BY <2>1 DEF Refused
        <2>5. QED
              BY <1>3, <2>1, <2>3, <2>4, SettledFails DEF Fails
  <1>4. CASE FailsInGrace(c)
        <2>1. PICK e \in ProviderFaults :
                /\ Refused(c, e)
                /\ RouteFails(c, IF e.code \in {"timeout", "cancelled"} THEN CutError(c) ELSE e)
              BY <1>4 DEF FailsInGrace
        <2> DEFINE error == IF e.code \in {"timeout", "cancelled"} THEN CutError(c) ELSE e
        <2>2. e \in Error
              BY GateAssumption
        <2>3. error \in Error /\ (Ambiguous(e) => error.unknown)
              BY <1>4, <2>2, CutErrorIs DEF FailsInGrace, Ambiguous
        <2>4. SetFate(c, IF Ambiguous(e) THEN "unknown" ELSE "failed")
              BY <2>1 DEF Refused
        <2>5. RouteFails(c, error) /\ call[c].phase = "grace"
              BY <1>4, <2>1 DEF FailsInGrace
        <2> HIDE DEF error
        <2>6. QED
              BY <2>3, <2>4, <2>5, SettledFails
  <1>5. CASE GraceOver(c)
        BY <1>5, CutErrorIs, SettledFails DEF GraceOver
  <1>6. CASE Unwound(c)
        BY <1>6, CutErrorIs, ClearFails DEF Unwound
  <1>7. QED
        BY <1>1, <1>2, <1>3, <1>4, <1>5, <1>6

LEMMA MaterializeSteps ==
  ASSUME IInv, NEW c \in Calls, Materialize(c)
  PROVE  Steps(c)
  <1>1. call[c].phase = "materializing" /\ UNCHANGED fate
        BY DEF Materialize
  <1>2. CASE \E e \in OutputFaults : RouteFails(c, e)
        BY <1>1, <1>2, GateAssumption, ClearFails
  <1>3. ASSUME NEW e \in {Success} \cup OutputFaults, Leave(c, e), Finish(c, "healthy")
        PROVE  Steps(c)
        <2>1. Types /\ FateOK(call[c], fate[c])
              BY DEF IInv
        <2>2. FateFrame(c) /\ fate'[c] = fate[c]
              BY <1>1, <2>1, FateSame
        <2>3. Told(fate[c], call[c].route, e)
              BY <1>1, <2>1, ClearIsTold
        <2>4. e \in Error \cup {Success} /\ Closed(c, "done", e) /\ Exit
              BY <1>3, GateAssumption DEF Leave
        <2>5. /\ MoveStep(c)
              /\ call'[c].phase = "done" /\ call'[c].route = call[c].route
              /\ call'[c].permit = NoPermit /\ call'[c].error = e
              BY <2>1, <2>4, ClosedIs DEF Ended
        <2>6. FateOK(call'[c], fate'[c])
              BY <2>2, <2>3, <2>5 DEF FateOK, Told, Before
        <2>7. Frees(c)
              BY <1>3, <2>1, <2>5, FinishFrees DEF Frees, Permitted, AtProvider, Outcomes
        <2>8. CountStep(c)
              BY <1>1, <2>4, <2>5 DEF CountStep, Inside, Waiting, AtProvider
        <2>9. QED
              BY <2>2, <2>5, <2>6, <2>7, <2>8 DEF Steps
  <1>4. QED
        BY <1>2, <1>3 DEF Materialize

(* A cut, a caller's cancel and the deadline leave the route and the permit. *)
LEMMA TurnSteps ==
  ASSUME IInv, NEW c \in Calls, NEW n \in Call, call' = [call EXCEPT ![c] = n],
         n.route = call[c].route, n.permit = call[c].permit, n.error = call[c].error,
         UNCHANGED <<fate, breaker>>, Inactive,
         \/ n.phase = call[c].phase /\ n.cut = call[c].cut
         \/ n.phase = "grace" /\ call[c].phase = "running" /\ n.cut # "none"
         \/ /\ n.phase = "unwinding" /\ call[c].phase \in {"capabilities", "materializing"}
            /\ n.cut # "none"
  PROVE  Steps(c)
  <1>1. Types /\ FateOK(call[c], fate[c])
        BY DEF IInv
  <1>2. call'[c] = n
        BY <1>1 DEF Types
  <1>3. MoveStep(c)
        BY <1>1, <1>2, CallTypes DEF MoveStep, Types
  <1>4. FateFrame(c) /\ fate'[c] = fate[c]
        BY <1>1, FateSame
  <1>5. FateOK(n, fate[c])
        <2>1. CASE n.phase = call[c].phase
              BY <1>1, <2>1 DEF FateOK, Told
        <2>2. CASE n.phase # call[c].phase
              BY <1>1, <2>2 DEF FateOK, Before
        <2>3. QED
              BY <2>1, <2>2
  <1>6. Walks(c)
        BY <1>2 DEF Walks, Permitted, AtProvider
  <1>7. CountStep(c)
        BY <1>2 DEF CountStep, Inside, AtProvider
  <1>8. QED
        BY <1>2, <1>3, <1>4, <1>5, <1>6, <1>7 DEF Steps

LEMMA EnvironmentSteps ==
  ASSUME IInv, NEW c \in Calls, Cut(c) \/ Cancel(c) \/ Expire(c)
  PROVE  Steps(c)
  <1>1. call[c] \in Call
        BY DEF IInv, Types
  <1>2. UNCHANGED <<fate, breaker>> /\ Inactive
        BY DEF Cut, Cancel, Expire, Inactive
  <1>3. ASSUME NEW phase \in {"grace", "unwinding"}, CutTo(c, phase),
               IF phase = "grace" THEN call[c].phase = "running"
                                  ELSE call[c].phase \in {"capabilities", "materializing"}
        PROVE  Steps(c)
        <2>1. PICK k \in {"cancelled", "timeout"} :
                Update(c, [call[c] EXCEPT !.phase = phase, !.cut = k])
              BY <1>3, CutsAre DEF CutTo
        <2> DEFINE n == [call[c] EXCEPT !.phase = phase, !.cut = k]
        <2>2. phase \in Phase
              BY DEF Phase, Inside, AtProvider
        <2>3. /\ n \in Call /\ n.route = call[c].route /\ n.permit = call[c].permit
              /\ n.error = call[c].error /\ n.phase = phase /\ n.cut # "none"
              BY <1>1, <2>2 DEF Call
        <2>4. call' = [call EXCEPT ![c] = n]
              BY <2>1 DEF Update
        <2> HIDE DEF n
        <2>5. QED
              BY <1>2, <1>3, <2>3, <2>4, TurnSteps
  <1>4. CASE Cut(c)
        BY <1>3, <1>4 DEF Cut
  <1>5. CASE Cancel(c)
        <2> DEFINE n == [call[c] EXCEPT !.cancelled = TRUE]
        <2>1. /\ n \in Call /\ n.route = call[c].route /\ n.permit = call[c].permit
              /\ n.error = call[c].error /\ n.phase = call[c].phase /\ n.cut = call[c].cut
              BY <1>1 DEF Call
        <2>2. call' = [call EXCEPT ![c] = n]
              BY <1>5 DEF Cancel, Update
        <2> HIDE DEF n
        <2>3. QED
              BY <1>2, <2>1, <2>2, TurnSteps
  <1>6. CASE Expire(c)
        <2> DEFINE n == [call[c] EXCEPT !.late = TRUE]
        <2>1. /\ n \in Call /\ n.route = call[c].route /\ n.permit = call[c].permit
              /\ n.error = call[c].error /\ n.phase = call[c].phase /\ n.cut = call[c].cut
              BY <1>1 DEF Call
        <2>2. call' = [call EXCEPT ![c] = n]
              BY <1>6 DEF Expire, Update
        <2> HIDE DEF n
        <2>3. QED
              BY <1>2, <2>1, <2>2, TurnSteps
  <1>7. QED
        BY <1>4, <1>5, <1>6

(* The client's connection takes the future away: what ran is unknown.       *)
LEMMA DropSteps ==
  ASSUME IInv, NEW c \in Calls, Drop(c)
  PROVE  Steps(c)
  <1>1. Types /\ FateOK(call[c], fate[c]) /\ call[c].error \in Error \cup {Success}
        BY DEF IInv, Types, Call
  <1>2. /\ call[c].phase \in Waiting \cup AtProvider
        /\ Closed(c, "dropped", call[c].error) /\ Exit /\ GiveUp(c)
        BY DEF Drop
  <1>3. /\ MoveStep(c)
        /\ call'[c].phase = "dropped" /\ call'[c].route = call[c].route
        /\ call'[c].permit = NoPermit
        BY <1>1, <1>2, ClosedIs DEF Ended
  <1>4. /\ FateFrame(c) /\ Around(fate'[c], call[c].route)
        /\ fate'[c][call[c].route] # "running"
        <2>1. CASE call[c].phase \in {"running", "grace"}
              <3>1. SetFate(c, "unknown") /\ "unknown" \in Fates
                    BY <2>1 DEF Drop, Fates
              <3>2. QED
                    BY <1>1, <3>1, FateSet DEF FateOK
        <2>2. CASE call[c].phase \notin {"running", "grace"}
              <3>1. FateFrame(c) /\ fate'[c] = fate[c]
                    BY <1>1, <2>2, FateSame DEF Drop
              <3>2. QED
                    BY <1>1, <1>2, <2>2, <3>1 DEF FateOK, Before, Waiting, AtProvider
        <2>3. QED
              BY <2>1, <2>2
  <1>5. FateOK(call'[c], fate'[c])
        BY <1>3, <1>4 DEF FateOK, Before
  <1>6. Frees(c)
        BY <1>1, <1>2, <1>3, FinishFrees DEF Frees, Permitted, Waiting, AtProvider, Outcomes
  <1>7. CountStep(c)
        BY <1>2, <1>3 DEF CountStep, Inside, Waiting, AtProvider
  <1>8. QED
        BY <1>3, <1>4, <1>5, <1>6, <1>7 DEF Steps

LEMMA EveryStep ==
  ASSUME IInv, NEW c \in Calls,
         Check(c) \/ Advance(c) \/ Answer(c) \/ Cancel(c) \/ Expire(c) \/ Drop(c)
  PROVE  Steps(c)
  BY EnteringSteps, AcquireBreakerSteps, GateSteps, AnswerSteps, MaterializeSteps,
     EnvironmentSteps, DropSteps DEF Advance, Answer

-----------------------------------------------------------------------------
(* What every such step preserves.                                           *)
LEMMA StepsKeepTypes ==
  ASSUME Types, NEW c \in Calls, Steps(c)
  PROVE  Types'
  <1>1. /\ call' \in [Calls -> Call]
        /\ \A d \in Calls : /\ call'[d].route \in DOMAIN RoutesOf[d]
                            /\ call'[d].phase \in {"grace", "unwinding"} => call'[d].cut # "none"
        BY DEF Types, Steps, MoveStep
  <1>2. DOMAIN fate' = Calls /\ \A d \in Calls : fate'[d] \in [DOMAIN RoutesOf[d] -> Fates]
        BY DEF Types, Steps, FateFrame
  <1>3. breaker' \in [Providers -> Breaker]
        <2>1. /\ breaker \in [Providers -> Breaker] /\ breaker[At(call, c)] \in Breaker
              BY CallTypes DEF Types
        <2>2. CASE Walks(c)
              BY <2>1, <2>2 DEF Walks
        <2>3. CASE Frees(c)
              BY <2>1, <2>3 DEF Frees, Follows
        <2>4. CASE Granted(c)
              <3> DEFINE b == Probed(breaker[At(call, c)])
              <3>1. b \in Breaker
                    <4>1. NoPermit \in Permit /\ NoPermit.kind = "none"
                          BY DEF NoPermit, Permit
                    <4>2. QED
                          BY <2>1, <4>1, ProbedIs DEF Follows
              <3>2. Admitted(b) \in Breaker
                    <4>1. b.inFlight + 1 \in Nat
                          BY <3>1 DEF Breaker
                    <4> HIDE DEF b
                    <4>2. QED
                          BY <3>1, <4>1 DEF Admitted, Breaker
              <3>3. breaker' = [breaker EXCEPT ![At(call, c)] = Admitted(b)]
                    BY <2>4 DEF Granted
              <3> HIDE DEF b
              <3>4. QED
                    BY <2>1, <3>2, <3>3
        <2>5. QED
              BY <2>2, <2>3, <2>4 DEF Steps
  <1>4. stop' \in Stop /\ maxQueued' \in ProviderQueues
        BY DEF Types, Steps, CountStep, Inactive, Exit, Stop
  <1>5. QED
        BY <1>1, <1>2, <1>3, <1>4 DEF Types

LEMMA StepsKeepFates ==
  ASSUME Types, \A d \in Calls : FateOK(call[d], fate[d]), NEW c \in Calls, Steps(c)
  PROVE  \A d \in Calls : FateOK(call'[d], fate'[d])
  <1>1. \A d \in Calls \ {c} : call'[d] = call[d] /\ fate'[d] = fate[d]
        BY DEF Types, Steps, MoveStep, FateFrame
  <1>2. FateOK(call'[c], fate'[c])
        BY DEF Steps
  <1>3. QED
        BY <1>1, <1>2

LEMMA StepsKeepGuarded ==
  ASSUME Types, Guarded(call, breaker), NEW c \in Calls, Steps(c)
  PROVE  Guarded(call', breaker')
  <1> DEFINE n == call'[c]
             q == At(call, c)
  <1>1. /\ CallsOK(call) /\ breaker \in [Providers -> Breaker]
        /\ q \in Providers /\ breaker[q] \in Breaker /\ call[c].permit \in Permit
        BY CallTypes DEF Types
  <1>2. n \in Call /\ n.route \in DOMAIN RoutesOf[c] /\ call' = [call EXCEPT ![c] = n]
        BY DEF Steps, MoveStep
  <1>3. CASE Walks(c)
        <2>1. Guarded([call EXCEPT ![c] = n], breaker)
              BY <1>1, <1>2, <1>3, WalkKeeps DEF Walks
        <2>2. QED
              BY <1>2, <1>3, <2>1 DEF Walks
  <1>4. CASE Frees(c)
        <2>1. PICK d : /\ Follows(breaker[q], call[c].permit, d)
                       /\ breaker' = [breaker EXCEPT ![q] = d]
              BY <1>4 DEF Frees
        <2>2. n.permit = NoPermit /\ n.phase \notin Permitted
              BY <1>4 DEF Frees
        <2> HIDE DEF n, q
        <2>3. Guarded([call EXCEPT ![c] = n], [breaker EXCEPT ![q] = d])
              BY <1>1, <1>2, <2>1, <2>2, ReleaseKeeps DEF q
        <2>4. QED
              BY <1>2, <2>1, <2>3
  <1>5. CASE Granted(c)
        <2> DEFINE b   == Probed(breaker[q])
                   mid == [breaker EXCEPT ![q] = b]
        <2>1. /\ call[c].phase = "route" /\ n.phase = "gate" /\ n.route = call[c].route
              /\ Admits(b) /\ n.permit = PermitOf(b)
              /\ breaker' = [breaker EXCEPT ![q] = Admitted(b)]
              BY <1>5 DEF Granted
        <2>2. call[c].permit = NoPermit /\ call[c].phase \notin Permitted
              BY <2>1 DEF Guarded, PermitOK, Permitted, AtProvider
        <2>3. Follows(breaker[q], call[c].permit, b)
              BY <1>1, <2>2, ProbedIs DEF NoPermit
        <2>4. call = [call EXCEPT ![c] = call[c]] /\ call[c] \in Call
              /\ call[c].route \in DOMAIN RoutesOf[c]
              BY DEF Types
        <2> HIDE DEF n, q, b
        <2>5. Guarded([call EXCEPT ![c] = call[c]], [breaker EXCEPT ![q] = b])
              BY <1>1, <2>2, <2>3, <2>4, ReleaseKeeps DEF q
        <2>6. /\ mid \in [Providers -> Breaker] /\ mid[q] = b
              /\ [mid EXCEPT ![q] = Admitted(b)] = [breaker EXCEPT ![q] = Admitted(b)]
              BY <1>1, <2>3 DEF Follows
        <2>7. Guarded(call, mid)
              BY <2>4, <2>5
        <2> HIDE DEF mid
        <2>8. Guarded([call EXCEPT ![c] = n], [mid EXCEPT ![q] = Admitted(mid[q])])
              BY <1>1, <1>2, <2>1, <2>6, <2>7, AdmitKeeps DEF q
        <2>9. QED
              BY <1>2, <2>1, <2>6, <2>8
  <1>6. QED
        BY <1>3, <1>4, <1>5 DEF Steps

(* The call in question enters the count, leaves it, or neither.             *)
LEMMA InsideIs ==
  ASSUME Types, NEW c \in Calls, Steps(c)
  PROVE  /\ IsFiniteSet(In(Inside)) /\ Cardinality(In(Inside)) \in Nat
         /\ call'[c].phase \in Inside => In(Inside)' = In(Inside) \cup {c}
         /\ call'[c].phase \notin Inside => In(Inside)' = In(Inside) \ {c}
         /\ c \in In(Inside) <=> call[c].phase \in Inside
  <1>1. In(Inside) \subseteq Calls
        BY DEF In
  <1>2. IsFiniteSet(In(Inside)) /\ Cardinality(In(Inside)) \in Nat
        BY <1>1, RouteAssumption, FS_Subset, FS_CardinalityType
  <1>3. \A d \in Calls \ {c} : call'[d] = call[d]
        BY DEF Types, Steps, MoveStep
  <1>4. In(Inside)' = {d \in Calls : call'[d].phase \in Inside}
        BY DEF In
  <1>5. QED
        BY <1>2, <1>3, <1>4 DEF In

LEMMA StepsKeepCounted ==
  ASSUME Types, Counted, NEW c \in Calls, Steps(c)
  PROVE  Counted'
  <1> DEFINE old == In(Inside)
             new == In(Inside)'
  <1>1. /\ IsFiniteSet(old) /\ Cardinality(old) \in Nat
        /\ call'[c].phase \in Inside => new = old \cup {c}
        /\ call'[c].phase \notin Inside => new = old \ {c}
        /\ c \in old <=> call[c].phase \in Inside
        BY InsideIs
  <1>2. active = Cardinality(old) /\ active \in Nat
        BY <1>1 DEF Counted
  <1>3. \A d \in Calls \ {c} : call'[d] = call[d]
        BY DEF Types, Steps, MoveStep
  <1>4. "entered" \in Inside
        BY DEF Inside
  <1> HIDE DEF old, new
  <1>5. CASE /\ Inactive
             /\ call'[c].phase \in Inside <=> call[c].phase \in Inside
             /\ call'[c].phase \in Inside \ {"entered"} =>
                  call[c].phase \in Inside \ {"entered"} \/ ~Stopping
        <2>1. new = old
              BY <1>1, <1>5
        <2>2. active' = active /\ stop' = stop
              BY <1>5 DEF Inactive
        <2>3. QuietRelease'
              <3>1. SUFFICES ASSUME stop.phase \in {"releasing", "returned"}, ~stop.overran
                             PROVE  In(Inside \ {"entered"})' = {}
                    BY <2>2 DEF QuietRelease
              <3>2. Stopping /\ \A d \in Calls : call[d].phase \notin Inside \ {"entered"}
                    BY <3>1 DEF Stopping, Counted, QuietRelease, In
              <3>3. \A d \in Calls : call'[d].phase \notin Inside \ {"entered"}
                    BY <1>3, <1>5, <3>2
              <3>4. QED
                    BY <3>3 DEF In
        <2>4. QED
              BY <1>2, <2>1, <2>2, <2>3 DEF Counted, old, new
  <1>6. CASE /\ call[c].phase \notin Inside /\ call'[c].phase = "entered"
             /\ active' = active + 1 /\ UNCHANGED <<stop, maxQueued>>
        <2>1. new = old \cup {c} /\ c \notin old
              BY <1>1, <1>4, <1>6
        <2>2. Cardinality(new) = Cardinality(old) + 1
              BY <1>1, <2>1, FS_AddElement
        <2>3. QuietRelease'
              <3>1. SUFFICES ASSUME stop.phase \in {"releasing", "returned"}, ~stop.overran
                             PROVE  In(Inside \ {"entered"})' = {}
                    BY <1>6 DEF QuietRelease
              <3>2. \A d \in Calls : call[d].phase \notin Inside \ {"entered"}
                    BY <3>1 DEF Counted, QuietRelease, In
              <3>3. \A d \in Calls : call'[d].phase \notin Inside \ {"entered"}
                    BY <1>3, <1>6, <3>2
              <3>4. QED
                    BY <3>3 DEF In
        <2>4. active' = Cardinality(new) /\ active' # 0
              BY <1>2, <1>6, <2>2
        <2>5. QED
              BY <2>3, <2>4 DEF Counted, new
  <1>7. CASE call[c].phase \in Inside /\ call'[c].phase \notin Inside /\ Exit
        <2>1. new = old \ {c} /\ c \in old
              BY <1>1, <1>7
        <2>2. Cardinality(new) = Cardinality(old) - 1
              BY <1>1, <2>1, FS_RemoveElement
        <2>3. /\ active' = active - 1 /\ stop \in Stop
              /\ stop' = [stop EXCEPT !.woken = @ \/ (active = 1 /\ Registered)]
              BY <1>7 DEF Exit, Types
        <2>4. /\ stop'.phase = stop.phase /\ stop'.overran = stop.overran
              /\ stop'.woken = (stop.woken \/ (active = 1 /\ Registered))
              BY <2>3 DEF Stop
        <2>5. QuietRelease'
              <3>1. SUFFICES ASSUME stop.phase \in {"releasing", "returned"}, ~stop.overran
                             PROVE  In(Inside \ {"entered"})' = {}
                    BY <2>4 DEF QuietRelease
              <3>2. \A d \in Calls : call[d].phase \notin Inside \ {"entered"}
                    BY <3>1 DEF Counted, QuietRelease, In
              <3>3. \A d \in Calls : call'[d].phase \notin Inside \ {"entered"}
                    BY <1>3, <1>7, <3>2
              <3>4. QED
                    BY <3>3 DEF In
        <2>6. ASSUME stop.phase \in {"loaded", "parked"}, active' = 0
              PROVE  stop'.woken
              <3>1. active = 1
                    BY <1>2, <2>3, <2>6
              <3>2. Registered
                    BY <2>6 DEF Registered
              <3>3. QED
                    BY <2>4, <3>1, <3>2
        <2>7. active' = Cardinality(new)
              BY <1>2, <2>2, <2>3
        <2>8. QED
              BY <2>4, <2>5, <2>6, <2>7 DEF Counted, new
  <1>8. QED
        BY <1>5, <1>6, <1>7 DEF Steps, CountStep

LEMMA CallsKeepIInv ==
  ASSUME IInv, NEW c \in Calls,
         Check(c) \/ Advance(c) \/ Answer(c) \/ Cancel(c) \/ Expire(c) \/ Drop(c)
  PROVE  IInv'
  <1>1. Steps(c)
        BY EveryStep
  <1>2. Types' /\ Counted'
        BY <1>1, StepsKeepTypes, StepsKeepCounted DEF IInv
  <1>3. \A d \in Calls : FateOK(call'[d], fate'[d])
        BY <1>1, StepsKeepFates DEF IInv
  <1>4. Guarded(call', breaker')
        BY <1>1, StepsKeepGuarded DEF IInv
  <1>5. QED
        BY <1>2, <1>3, <1>4 DEF IInv

(* The recovery delay of a circuit says nothing yet of its calls.            *)
LEMMA RecoverKeepsIInv ==
  ASSUME IInv, NEW p \in Providers, Recover(p)
  PROVE  IInv'
  <1> DEFINE d == [breaker[p] EXCEPT !.due = TRUE]
  <1>1. breaker \in [Providers -> Breaker] /\ CallsOK(call)
        BY DEF IInv, Types, CallsOK
  <1>2. UNCHANGED <<call, fate, active, stop, maxQueued>> /\ breaker' = [breaker EXCEPT ![p] = d]
        BY DEF Recover, SetBreaker
  <1>3. /\ d \in Breaker /\ d.epoch = breaker[p].epoch /\ d.phase = breaker[p].phase
        /\ d.inFlight = breaker[p].inFlight
        BY <1>1 DEF Breaker
  <1> HIDE DEF d
  <1>4. /\ breaker' \in [Providers -> Breaker]
        /\ \A q \in Providers : /\ breaker'[q].epoch = breaker[q].epoch
                               /\ breaker'[q].phase = breaker[q].phase
                               /\ breaker'[q].inFlight = breaker[q].inFlight
        BY <1>1, <1>2, <1>3
  <1>5. \A c \in Calls : PermitOK(call, breaker', c)
        <2>1. \A c \in Calls : At(call, c) \in Providers /\ PermitOK(call, breaker, c)
              BY <1>1, ProviderOf DEF IInv, Guarded
        <2>2. QED
              BY <1>4, <2>1 DEF PermitOK
  <1>6. \A q \in Providers : ProbesOf(call, breaker', q) = ProbesOf(call, breaker, q)
        BY <1>4 DEF ProbesOf
  <1>7. Guarded(call', breaker')
        BY <1>2, <1>4, <1>5, <1>6 DEF IInv, Guarded, Exact
  <1>8. Types'
        BY <1>2, <1>4 DEF IInv, Types
  <1>9. Counted'
        BY <1>2 DEF IInv, Counted, QuietRelease, In
  <1>10. QED
        BY <1>2, <1>7, <1>8, <1>9 DEF IInv

(* shutdown() looks at the counter before it sleeps and before it releases.  *)
LEMMA ShutdownKeepsIInv ==
  ASSUME IInv, Shutdown
  PROVE  IInv'
  <1>1. UNCHANGED <<call, fate, breaker, active, maxQueued>>
        BY DEF Shutdown, CancelAll, CloseGates, Arm, Load, Park, Wake, Overrun, Return, StopWith
  <1>2. stop \in Stop
        BY DEF IInv, Types
  <1>3. stop' \in Stop
        BY <1>2 DEF Shutdown, CancelAll, CloseGates, Arm, Load, Park, Wake, Overrun, Return,
                    StopWith, Stop, StopPhase
  <1>4. stop'.phase \in {"loaded", "parked"} /\ active = 0 => stop'.woken
        <2>1. stop.phase \in {"loaded", "parked"} /\ active = 0 => stop.woken
              BY DEF IInv, Counted
        <2>2. QED
              BY <1>2, <2>1 DEF Shutdown, CancelAll, CloseGates, Arm, Load, Park, Wake, Overrun,
                                Return, StopWith, Stop
  <1>5. active = 0 => In(Inside) = {}
        <2>1. In(Inside) \subseteq Calls
              BY DEF In
        <2>2. IsFiniteSet(In(Inside))
              BY <2>1, RouteAssumption, FS_Subset
        <2>3. QED
              BY <2>2, FS_EmptySet DEF IInv, Counted
  <1>6. \/ stop'.phase \notin {"releasing", "returned"}
        \/ stop'.overran
        \/ stop.phase \in {"releasing", "returned"} /\ stop'.overran = stop.overran
        \/ active = 0
        BY <1>2 DEF Shutdown, CancelAll, CloseGates, Arm, Load, Park, Wake, Overrun,
                    Return, StopWith, Stop
  <1>7. In(Inside \ {"entered"}) \subseteq In(Inside)
        BY DEF In
  <1>8. QuietRelease'
        <2>1. SUFFICES ASSUME stop'.phase \in {"releasing", "returned"}, ~stop'.overran
                       PROVE  In(Inside \ {"entered"}) = {}
              BY <1>1 DEF QuietRelease, In
        <2>2. CASE active = 0
              BY <1>5, <1>7, <2>2
        <2>3. CASE stop.phase \in {"releasing", "returned"} /\ ~stop.overran
              BY <2>3 DEF IInv, Counted, QuietRelease
        <2>4. QED
              BY <1>6, <2>1, <2>2, <2>3
  <1>9. active' = Cardinality(In(Inside)')
        BY <1>1 DEF IInv, Counted, In
  <1>10. Counted'
        BY <1>1, <1>4, <1>8, <1>9 DEF Counted
  <1>11. Types'
        BY <1>1, <1>3 DEF IInv, Types
  <1>12. QED
        BY <1>1, <1>10, <1>11 DEF IInv

LEMMA InitInv ==
  ASSUME Init
  PROVE  IInv
  <1>1. /\ NewCall \in Call /\ NewCall.phase = "new" /\ NewCall.route = 1
        /\ NewCall.permit = NoPermit
        BY DEF NewCall, Call, NoPermit, Permit, Phase
  <1>2. NewBreaker \in Breaker /\ NewBreaker.phase = "closed" /\ NewBreaker.epoch \in Nat
        BY DEF NewBreaker, Breaker
  <1>3. \A c \in Calls : /\ RoutesOf[c] \in Seq(Providers) /\ RoutesOf[c] # <<>>
                         /\ 1 \in DOMAIN RoutesOf[c]
        BY RouteAssumption
  <1>4. \A c \in Calls : call[c] = NewCall /\ fate[c] = [i \in DOMAIN RoutesOf[c] |-> "untried"]
        BY DEF Init
  <1>5. Types
        <2>1. call \in [Calls -> Call] /\ breaker \in [Providers -> Breaker]
              BY <1>1, <1>2 DEF Init
        <2>2. stop \in Stop /\ maxQueued \in ProviderQueues
              BY DEF Init, Stop, StopPhase
        <2>3. DOMAIN fate = Calls
              BY DEF Init
        <2>4. \A c \in Calls : fate[c] \in [DOMAIN RoutesOf[c] -> Fates]
              BY <1>4 DEF Fates
        <2>5. \A c \in Calls : /\ call[c].route \in DOMAIN RoutesOf[c]
                               /\ call[c].phase \in {"grace", "unwinding"} => call[c].cut # "none"
              BY <1>1, <1>3, <1>4
        <2>6. QED
              BY <2>1, <2>2, <2>3, <2>4, <2>5 DEF Types
  <1>6. \A c \in Calls : call[c].phase \notin Inside
        BY <1>1, <1>4 DEF Inside, Waiting, AtProvider
  <1>7. Counted
        <2>1. In(Inside) = {} /\ In(Inside \ {"entered"}) = {}
              BY <1>6 DEF In
        <2>2. QED
              BY <2>1, FS_EmptySet DEF Init, Counted, QuietRelease
  <1>8. \A c \in Calls : FateOK(call[c], fate[c])
        BY <1>1, <1>3, <1>4 DEF FateOK, Around, Clear, Before
  <1>9. Guarded(call, breaker)
        <2>1. \A c \in Calls : At(call, c) \in Providers
              BY <1>5, CallTypes
        <2>2. \A p \in Providers : breaker[p] = NewBreaker
              BY DEF Init
        <2>3. \A c \in Calls : PermitOK(call, breaker, c)
              <3>1. "new" \notin Permitted
                    BY DEF Permitted, AtProvider
              <3>2. NoPermit.epoch <= NewBreaker.epoch /\ NoPermit.kind = "none"
                    BY DEF NoPermit, NewBreaker
              <3>3. SUFFICES ASSUME NEW c \in Calls PROVE PermitOK(call, breaker, c)
                    OBVIOUS
              <3>4. /\ call[c].phase = "new" /\ call[c].permit = NoPermit
                    /\ breaker[At(call, c)] = NewBreaker
                    BY <1>1, <1>4, <2>1, <2>2
              <3>5. QED
                    BY <3>1, <3>2, <3>4 DEF PermitOK
        <2>4. Exact(call, breaker)
              BY <1>2, <2>2 DEF Exact
        <2>5. QED
              BY <2>3, <2>4 DEF Guarded
  <1>10. QED
        BY <1>5, <1>7, <1>8, <1>9 DEF IInv

LEMMA NextInv ==
  ASSUME IInv, [Next]_vars
  PROVE  IInv'
  <1>1. ASSUME NEW c \in Calls,
               Check(c) \/ Advance(c) \/ Answer(c) \/ Cancel(c) \/ Expire(c) \/ Drop(c)
        PROVE  IInv'
        BY <1>1, CallsKeepIInv
  <1>2. ASSUME NEW p \in Providers, Recover(p) PROVE IInv'
        BY <1>2, RecoverKeepsIInv
  <1>3. CASE Shutdown
        BY <1>3, ShutdownKeepsIInv
  <1>4. CASE UNCHANGED vars
        <2>1. UNCHANGED <<call, fate, breaker, active, stop, maxQueued>>
              BY <1>4 DEF vars
        <2>2. Types' /\ Counted'
              BY <2>1 DEF IInv, Types, Counted, QuietRelease, In
        <2>3. QED
              BY <2>1, <2>2 DEF IInv
  <1>5. QED
        BY <1>1, <1>2, <1>3, <1>4 DEF Next, Finished

-----------------------------------------------------------------------------
LEMMA Invariant == Spec => []IInv
  BY InitInv, NextInv, PTL DEF Spec

(* The counters agree with the calls they count, at every step of every set  *)
(* of calls: the in-flight probes of a half-open circuit (in_flight of       *)
(* CircuitState) are the permits that are out, never more than               *)
(* half_open_max_calls; ActivityTracker::active counts the calls inside, no  *)
(* shutdown() sleeps on an idle runtime it was not told of, and providers    *)
(* are released under a call only after an overrun.                          *)
THEOREM CountersAgree == Spec => []Coherent
  <1>1. IInv => Coherent
        <2> SUFFICES ASSUME IInv PROVE Coherent
            OBVIOUS
        <2>1. TypeOK
              BY DEF IInv, Types, Counted, TypeOK
        <2>2. \A c \in Calls : At(call, c) = Provider(c)
              BY DEF At, Provider
        <2>3. \A p \in Providers : Probes(p) = ProbesOf(call, breaker, p)
              BY <2>2 DEF Probes, ProbesOf
        <2>4. ProbesExact
              BY <2>3 DEF IInv, Guarded, Exact, ProbesExact
        <2>5. IdleIsNoticed /\ QuietRelease
              BY DEF IInv, Counted, IdleIsNoticed
        <2>6. QED
              BY <2>1, <2>4, <2>5 DEF Coherent
  <1>2. QED
        BY Invariant, <1>1, PTL

(* A call tells the truth about the work it may have paid for: whatever ends *)
(* the provider call (its answer, a cut, the grace running out, the client   *)
(* leaving), an unknown outcome starts no later route, which is what         *)
(* should_fallback() promises, and is never reported as a known one.         *)
THEOREM CallsTellTheTruth == Spec => []Truthful
  <1>1. IInv => Truthful
        <2> SUFFICES ASSUME IInv PROVE Truthful
            OBVIOUS
        <2>1. ASSUME NEW c \in Calls
              PROVE  /\ FateOK(call[c], fate[c]) /\ DOMAIN fate[c] = DOMAIN RoutesOf[c]
                     /\ call[c].route \in DOMAIN RoutesOf[c]
                     /\ DOMAIN RoutesOf[c] \subseteq Nat
              BY RouteAssumption DEF IInv, Types
        <2>2. ASSUME NEW c \in Calls, NEW i \in DOMAIN RoutesOf[c], NEW j \in DOMAIN RoutesOf[c],
                     i < j, fate[c][i] \in {"running", "unknown"}
              PROVE  fate[c][j] = "untried"
              <3>1. Around(fate[c], call[c].route) /\ call[c].route \in Nat /\ i \in Nat /\ j \in Nat
                    BY <2>1 DEF FateOK
              <3>2. ~(i < call[c].route)
                    BY <2>1, <2>2, <3>1 DEF Around, Clear
              <3>3. j > call[c].route
                    BY <2>2, <3>1, <3>2
              <3>4. QED
                    BY <2>1, <3>1, <3>3 DEF Around
        <2>3. ASSUME NEW c \in In({"done"}), ~call[c].error.unknown, NEW i \in DOMAIN RoutesOf[c]
              PROVE  fate[c][i] \in {"untried", "paid", "failed"}
              <3>1. c \in Calls /\ call[c].phase = "done"
                    BY DEF In
              <3>2. Around(fate[c], call[c].route) /\ fate[c][call[c].route] \in Clear
                    BY <2>1, <2>3, <3>1 DEF FateOK, Told
              <3>3. i \in Nat /\ call[c].route \in Nat /\ i \in DOMAIN fate[c]
                    BY <2>1, <3>1
              <3>4. i < call[c].route \/ i = call[c].route \/ i > call[c].route
                    BY <3>3
              <3>5. QED
                    BY <3>2, <3>3, <3>4 DEF Around, Clear
        <2>4. QED
              BY <2>2, <2>3 DEF Truthful, UnknownIsFinal, TruthfulErrors
  <1>2. QED
        BY Invariant, <1>1, PTL

-----------------------------------------------------------------------------
(* A circuit that moves, and why.                                            *)
Moved(p) ==
  breaker'[p].phase # breaker[p].phase =>
    \/ breaker[p].phase = "open" /\ breaker[p].due
    \/ \E c \in Calls :
         /\ Provider(c) = p
         /\ call[c].permit.kind # "none" /\ call[c].permit.epoch = breaker[p].epoch
         /\ call'[c].permit = NoPermit
         /\ breaker'[p].phase = "closed" => Probes(p) = {c}

LEMMA StepsMove ==
  ASSUME IInv, NEW c \in Calls, Steps(c), NEW p \in Providers
  PROVE  Moved(p)
  <1> DEFINE q == At(call, c)
             b == breaker[q]
  <1>1. /\ Types /\ call[c].permit \in Permit /\ q = Provider(c) /\ q \in Providers
        /\ b \in Breaker /\ breaker \in [Providers -> Breaker]
        BY CallTypes DEF IInv, Types
  <1>2. CASE Walks(c)
        BY <1>2 DEF Walks, Moved
  <1>3. CASE Frees(c)
        <2>1. PICK d : Follows(b, call[c].permit, d) /\ breaker' = [breaker EXCEPT ![q] = d]
              BY <1>3 DEF Frees
        <2>2. CASE p # q
              BY <1>1, <2>1, <2>2 DEF Moved
        <2>3. CASE p = q /\ d.phase = b.phase
              BY <1>1, <2>1, <2>3 DEF Moved
        <2>4. CASE p = q /\ b.phase = "open" /\ b.due
              BY <1>1, <2>4 DEF Moved
        <2>5. CASE /\ p = q /\ call[c].permit.kind # "none" /\ call[c].permit.epoch = b.epoch
                   /\ d.phase = "closed" => /\ call[c].permit.kind = "probe"
                                            /\ b.phase = "half_open"
                                            /\ Monus1(b.inFlight) = 0
              <3>1. breaker'[p] = d /\ call'[c].permit = NoPermit
                    BY <1>1, <1>3, <2>1, <2>5 DEF Frees
              <3>2. ASSUME d.phase = "closed" PROVE Probes(p) = {c}
                    <4>1. c \in Probes(p)
                          BY <1>1, <2>5, <3>2 DEF Probes
                    <4>2. Probes(p) = ProbesOf(call, breaker, p)
                          BY DEF Probes, ProbesOf, At, Provider
                    <4>3. IsFiniteSet(Probes(p)) /\ Cardinality(Probes(p)) \in Nat
                          BY <4>2, ProbesFinite
                    <4>4. b.inFlight = Cardinality(Probes(p))
                          BY <1>1, <2>5, <3>2, <4>2 DEF IInv, Guarded, Exact
                    <4>5. Cardinality(Probes(p)) # 0
                          BY <4>1, <4>3, FS_EmptySet
                    <4>6. Cardinality(Probes(p)) = 1
                          BY <2>5, <3>2, <4>3, <4>4, <4>5 DEF Monus1
                    <4>7. \E x : Probes(p) = {x}
                          BY <4>3, <4>6, FS_Singleton
                    <4>8. QED
                          BY <4>1, <4>7
              <3>3. QED
                    BY <1>1, <2>5, <3>1, <3>2 DEF Moved
        <2>6. QED
              BY <2>1, <2>2, <2>3, <2>4, <2>5 DEF Follows, Evidence
  <1>4. CASE Granted(c)
        <2> DEFINE d == Admitted(Probed(b))
        <2>1. breaker' = [breaker EXCEPT ![q] = d]
              BY <1>4 DEF Granted
        <2>2. CASE p # q
              BY <1>1, <2>1, <2>2 DEF Moved
        <2>3. CASE p = q /\ b.phase = "open" /\ b.due
              BY <1>1, <2>3 DEF Moved
        <2>4. CASE p = q /\ ~(b.phase = "open" /\ b.due)
              <3>1. Probed(b) = b
                    BY <2>4 DEF Probed
              <3>2. d.phase = b.phase
                    BY <1>1, <3>1 DEF Admitted, Breaker
              <3> HIDE DEF d
              <3>3. breaker'[p] = d
                    BY <1>1, <2>1, <2>4
              <3>4. QED
                    BY <2>4, <3>2, <3>3 DEF Moved
        <2>5. QED
              BY <2>2, <2>3, <2>4
  <1>5. QED
        BY <1>2, <1>3, <1>4 DEF Steps

(* A circuit changes its phase only when its recovery delay is over, or on   *)
(* the result of a call that was admitted in the phase it is in: the epoch   *)
(* of a CircuitPermit keeps late results of earlier phases out.  It closes   *)
(* only on the last probe under way.                                         *)
THEOREM CircuitsMoveOnEvidence == Spec => BreakerMovesOnEvidence
  <1>1. IInv /\ [Next]_vars => [\A p \in Providers : Moved(p)]_vars
        <2>1. SUFFICES ASSUME IInv, Next, NEW p \in Providers PROVE Moved(p)
              OBVIOUS
        <2>2. ASSUME NEW c \in Calls,
                     Check(c) \/ Advance(c) \/ Answer(c) \/ Cancel(c) \/ Expire(c) \/ Drop(c)
              PROVE  Moved(p)
              BY <2>1, <2>2, EveryStep, StepsMove
        <2>3. ASSUME NEW q \in Providers, Recover(q) PROVE Moved(p)
              <3>1. /\ breaker \in [Providers -> Breaker]
                    /\ breaker' = [breaker EXCEPT ![q] = [breaker[q] EXCEPT !.due = TRUE]]
                    BY <2>1, <2>3 DEF IInv, Types, Recover, SetBreaker
              <3>2. breaker'[p].phase = breaker[p].phase
                    BY <3>1 DEF Breaker
              <3>3. QED
                    BY <3>2 DEF Moved
        <2>4. CASE Shutdown \/ Finished
              <3>1. breaker' = breaker
                    BY <2>4 DEF Shutdown, CancelAll, CloseGates, Arm, Load, Park, Wake, Overrun,
                                Return, StopWith, Finished, vars
              <3>2. QED
                    BY <3>1 DEF Moved
        <2>5. QED
              BY <2>1, <2>2, <2>3, <2>4 DEF Next
  <1>2. Spec => [][\A p \in Providers : Moved(p)]_vars
        BY Invariant, <1>1, PTL DEF Spec
  <1>3. QED
        BY <1>2 DEF BreakerMovesOnEvidence, Moved
=============================================================================
