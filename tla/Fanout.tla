------------------------------- MODULE Fanout -------------------------------
(***************************************************************************)
(* The multi-output decorator of a provider, crates/runtime/src/fanout.    *)
(* A request for more outputs than one provider call yields is cut into    *)
(* chunks, each a call of its own; a call holds one of the provider-wide   *)
(* permits, shared with every other batch and with the requests small      *)
(* enough for one call.  A chunk is known by its first output.             *)
(*                                                                         *)
(* The chunks of a batch are futures one task polls, so that a chunk whose *)
(* answer is there keeps its permit until the task takes it.  Tokens and   *)
(* deadlines lose races: a permit may be granted to a chunk whose batch is *)
(* already cancelled (tokio's select! is unbiased).                        *)
(***************************************************************************)
EXTENDS Errors, Integers, FiniteSets, FiniteSetsExt

CONSTANTS
  Batches,         \* calls of execute()
  RequestsOf,      \* the requests each may make
  NativeMax,       \* capabilities().count.max of the decorated provider
  MaxParallel,     \* max_parallel_outputs
  Models,          \* the models a response may name
  Responses,       \* what a provider call may yield,
  ProviderErrors   \* and how it may fail

NoError == [code |-> "none", unknown |-> FALSE]
NoModel == "none"

(* negotiate_request() bounds n; validate_request() asks parallel execution  *)
(* of isolated sessions only.                                                *)
Request == {r \in [n : Nat \ {0}, failFast : BOOLEAN, isolated : BOOLEAN,
                   execution : {"auto", "sequential", "parallel"}] :
              r.execution = "parallel" => r.isolated}

Answer == [error : Error \cup {NoError}, images : SUBSET Nat, failures : SUBSET Nat,
           model : Models \cup {NoModel}]
Failed(error) == [error |-> error, images |-> {}, failures |-> {}, model |-> NoModel]

ASSUME FanoutAssumption ==
  /\ {NativeMax, MaxParallel} \subseteq Nat \ {0}
  /\ RequestsOf \in [Batches -> SUBSET Request]
  /\ Responses \subseteq {a \in Answer : a.error = NoError}
  /\ ProviderErrors \subseteq Error

VARIABLES
  batch,  \* what each call of execute() knows of its request
  chunk   \* and of its subrequests

vars == <<batch, chunk>>

(* A chunk is denied when its batch is cut before it has a permit, lost when *)
(* its future is dropped while the provider runs.                            *)
ChunkState == {"pending", "waiting", "running", "answered", "collected", "denied", "lost"}
Chunk   == [state : ChunkState, answer : Answer]
Pending == [state |-> "pending", answer |-> Failed(NoError)]

Phase == {"new", "open", "draining", "done", "dropped"}
Batch == [phase : Phase, request : Request, cancelled : BOOLEAN, expired : BOOLEAN,
          result : Answer]

-----------------------------------------------------------------------------
N(b)      == batch[b].request.n
Direct(b) == N(b) <= NativeMax

(* chunks(): as many outputs as a provider call yields, the rest in the last. *)
Offsets(n)       == {o \in 0..(n - 1) : o % NativeMax = 0}
CountOf(b, o)    == IF N(b) - o < NativeMax THEN N(b) - o ELSE NativeMax
Chunks(b)        == DOMAIN chunk[b]
In(b, states)    == {o \in Chunks(b) : chunk[b][o].state \in states}
Active(b)        == In(b, {"waiting", "running", "answered"})
AtProvider       == {"running", "answered"}
Open(b)          == batch[b].phase \in {"open", "draining"}
FailFast(b)      == batch[b].request.failFast

(* batch_parallel                                                            *)
Width(r) == IF r.execution = "parallel" \/ (r.execution = "auto" /\ r.isolated)
            THEN MaxParallel ELSE 1

(* push_next(): the next chunk in order, if any, starts waiting for a permit. *)
PushNext(chunks) ==
  LET pending == {o \in DOMAIN chunks : chunks[o].state = "pending"}
  IN  IF pending = {} THEN chunks ELSE [chunks EXCEPT ![Min(pending)].state = "waiting"]

(* The first chunks pushed, when the batch starts.                           *)
FirstChunks(r) ==
  [o \in Offsets(r.n) |-> IF o < Width(r) * NativeMax
                          THEN [Pending EXCEPT !.state = "waiting"] ELSE Pending]

NewBatch(r) == [phase |-> "new", request |-> r, cancelled |-> FALSE, expired |-> FALSE,
                result |-> Failed(NoError)]

(* Any of its requests may be the one a batch is called with.                *)
Init ==
  /\ batch \in [Batches -> {NewBatch(r) : r \in UNION {RequestsOf[b] : b \in Batches}}]
  /\ \A b \in Batches : batch[b].request \in RequestsOf[b]
  /\ chunk = [b \in Batches |-> [o \in Offsets(N(b)) |-> Pending]]

Start(b) ==
  /\ batch[b].phase = "new"
  /\ batch' = [batch EXCEPT ![b].phase = "open"]
  /\ chunk' = [chunk EXCEPT ![b] = FirstChunks(batch[b].request)]

(* capabilities() fails, or negotiation refuses the request.                 *)
Refuse(b) ==
  /\ batch[b].phase = "new"
  /\ batch' = [batch EXCEPT ![b].phase = "done",
                            ![b].result = Failed(Known("unsupported_capability"))]
  /\ UNCHANGED chunk

(* The caller's token, and the deadline every chunk shares.                  *)
Cancel(b) ==
  /\ Open(b) /\ ~batch[b].cancelled
  /\ batch' = [batch EXCEPT ![b].cancelled = TRUE]
  /\ UNCHANGED chunk

Expire(b) ==
  /\ Open(b) /\ ~batch[b].expired
  /\ batch' = [batch EXCEPT ![b].expired = TRUE]
  /\ UNCHANGED chunk

-----------------------------------------------------------------------------
(* Mutant: a permit lives as long as the result of its chunk.                *)
HoldingResults == UNION {{b} \X In(b, AtProvider \cup {"collected"}) : b \in Batches}

(* The permits taken, of this batch and of the others.                       *)
Holding == UNION {{b} \X In(b, AtProvider) : b \in Batches}

(* Mutant: the provider is called without a permit.                          *)
AcquireUngated(b, o) ==
  /\ Open(b) /\ chunk[b][o].state = "waiting"
  /\ chunk' = [chunk EXCEPT ![b][o].state = "running"]
  /\ UNCHANGED batch

(* acquire() grants a permit, and the provider is called.                    *)
Acquire(b, o) ==
  /\ Open(b) /\ chunk[b][o].state = "waiting"
  /\ Cardinality(Holding) < MaxParallel
  /\ chunk' = [chunk EXCEPT ![b][o].state = "running"]
  /\ UNCHANGED batch

ProviderAnswers(b, o) ==
  /\ chunk[b][o].state = "running"
  /\ \E a \in Responses \cup {Failed(e) : e \in ProviderErrors} :
       chunk' = [chunk EXCEPT ![b][o] = [state |-> "answered", answer |-> a]]
  /\ UNCHANGED batch

(* What a chunk's future may be found ready with: its provider's answer, or  *)
(* acquire()'s error.  batch_cancellation is a child of the caller's token.  *)
Ready(b, o) ==
     {chunk[b][o].answer : s \in {chunk[b][o].state} \cap {"answered"}}
  \cup {Failed(Known(code)) :
          code \in {c \in {"cancelled", "timeout"} :
                     /\ chunk[b][o].state = "waiting"
                     /\ c = "cancelled" => batch[b].cancelled \/ batch[b].phase = "draining"
                     /\ c = "timeout"   => batch[b].expired}}

(* The chunks of b once o is ready with a.                                   *)
Settled(b, o, a) ==
  [chunk[b] EXCEPT ![o] =
     [state |-> IF @.state = "answered" THEN "collected" ELSE "denied", answer |-> a]]

(* The futures of b are dropped.                                             *)
Abandoned(b) ==
  [o \in Chunks(b) |->
     [chunk[b][o] EXCEPT !.state = CASE @ = "running"  -> "lost"
                                     [] @ = "answered" -> "collected"
                                     [] @ = "waiting"  -> "denied"
                                     [] OTHER          -> @]]

(* A request one call can serve: its answer is passed on as it is.           *)
ReturnDirect(b, o) ==
  /\ batch[b].phase = "open" /\ Direct(b)
  /\ \E a \in Ready(b, o) :
       /\ batch' = [batch EXCEPT ![b].phase = "done", ![b].result = a]
       /\ chunk' = [chunk EXCEPT ![b] = Settled(b, o, a)]

(* Mutant: only the chunks under way are siblings.                           *)
SiblingsUnderWay(b, o) == Active(b) \ {o} # {}

(* siblings_may_have_run                                                     *)
SiblingsMayHaveRun(b, o) ==
  Active(b) \ {o} # {} \/ In(b, {"collected", "denied"}) # {}

(* Under fail_fast the first failure cancels the others, which get a second  *)
(* to end.                                                                   *)
Stop(b, o) ==
  /\ batch[b].phase = "open" /\ ~Direct(b) /\ FailFast(b)
  /\ \E a \in Ready(b, o) :
       /\ a.error # NoError
       /\ batch' = [batch EXCEPT
            ![b].phase = "draining",
            ![b].result = Failed([a.error EXCEPT !.unknown = @ \/ SiblingsMayHaveRun(b, o)])]
       /\ chunk' = [chunk EXCEPT ![b] = Settled(b, o, a)]

Drain(b, o) ==
  /\ batch[b].phase = "draining"
  /\ \E a \in Ready(b, o) : chunk' = [chunk EXCEPT ![b] = Settled(b, o, a)]
  /\ UNCHANGED batch

(* No sibling is left, or FAILED_SIBLING_GRACE is over.                      *)
GraceOver(b) ==
  /\ batch[b].phase = "draining"
  /\ batch' = [batch EXCEPT ![b].phase = "done"]
  /\ chunk' = [chunk EXCEPT ![b] = Abandoned(b)]

-----------------------------------------------------------------------------
Shift(indices, o) == {o + i : i \in indices}

(* validate_chunk_indices(): each output asked for, once.                    *)
ValidIndices(b, o, a) ==
  /\ a.images \cap a.failures = {}
  /\ a.images \cup a.failures = 0..(CountOf(b, o) - 1)

(* Mutant: the indices of a chunk are left as the provider numbered them.    *)
MergedUnshifted(b, chunks, good) ==
  [error    |-> NoError,
   images   |-> UNION {chunks[o].answer.images : o \in good},
   failures |-> UNION {IF o \in good THEN chunks[o].answer.failures
                                     ELSE o..(o + CountOf(b, o) - 1) : o \in DOMAIN chunks},
   model    |-> chunks[CHOOSE o \in good : TRUE].answer.model]

(* The response of a batch, from the chunks that succeeded (all under one    *)
(* model) and those that failed as a whole.                                  *)
Merged(b, chunks, good) ==
  [error    |-> NoError,
   images   |-> UNION {Shift(chunks[o].answer.images, o) : o \in good},
   failures |-> UNION {IF o \in good THEN Shift(chunks[o].answer.failures, o)
                                     ELSE o..(o + CountOf(b, o) - 1) : o \in DOMAIN chunks},
   model    |-> chunks[CHOOSE o \in good : TRUE].answer.model]

(* aggregate().  The first error speaks for a batch of failures.             *)
Aggregate(b, chunks) ==
  LET good   == {o \in DOMAIN chunks : chunks[o].answer.error = NoError}
      merged == Merged(b, chunks, good)
  IN  IF good = {}
      THEN Failed(chunks[0].answer.error)
      ELSE IF \/ \E o \in good : ~ValidIndices(b, o, chunks[o].answer)
              \/ \E o \in good : chunks[o].answer.model # merged.model
              \/ FailFast(b) /\ merged.failures # {}
           THEN Failed(Known("protocol"))
           ELSE merged

(* A result is kept and the next chunk pushed; after the last the batch ends. *)
Collect(b, o) ==
  /\ batch[b].phase = "open" /\ ~Direct(b)
  /\ \E a \in Ready(b, o) :
       LET chunks == PushNext(Settled(b, o, a)) IN
       /\ FailFast(b) => a.error = NoError
       /\ chunk' = [chunk EXCEPT ![b] = chunks]
       /\ IF \E p \in DOMAIN chunks : chunks[p].state \in {"waiting", "running", "answered"}
          THEN UNCHANGED batch
          ELSE batch' = [batch EXCEPT ![b].phase = "done", ![b].result = Aggregate(b, chunks)]

(* The caller's future is dropped: with its connection, or by a runtime that *)
(* waited long enough for a cancelled call.                                  *)
Drop(b) ==
  /\ Open(b)
  /\ batch' = [batch EXCEPT ![b].phase = "dropped"]
  /\ chunk' = [chunk EXCEPT ![b] = Abandoned(b)]

Poll(b, o) == ReturnDirect(b, o) \/ Stop(b, o) \/ Drain(b, o) \/ Collect(b, o)

Next ==
  \E b \in Batches :
    \/ Start(b) \/ Refuse(b) \/ Cancel(b) \/ Expire(b) \/ GraceOver(b) \/ Drop(b)
    \/ \E o \in Chunks(b) : Acquire(b, o) \/ ProviderAnswers(b, o) \/ Poll(b, o)

Spec == Init /\ [][Next]_vars

(* The task of a batch is polled when something is ready and timers fire;    *)
(* permits are granted in the order they were asked for.  Providers need not *)
(* answer.                                                                   *)
FairSpec ==
  /\ Spec
  /\ \A b \in Batches :
       /\ WF_vars(GraceOver(b))
       /\ WF_vars(\E o \in Chunks(b) : Poll(b, o))
       /\ SF_vars(\E o \in Chunks(b) : Acquire(b, o))

-----------------------------------------------------------------------------
TypeOK ==
  /\ batch \in [Batches -> Batch]
  /\ chunk = [b \in Batches |-> chunk[b]]
  /\ \A b \in Batches : chunk[b] \in [Offsets(N(b)) -> Chunk]
  /\ Cardinality(Holding) <= MaxParallel

(* What is known of a chunk's work: nothing was done for an untried one, or  *)
(* for one the provider refused.                                             *)
Untried(c) == c.state \in {"pending", "waiting", "denied"}
Refused(c) == c.state = "collected" /\ c.answer.error \in {e \in Error : ~e.unknown}

(* A batch stopped at its first failure is reported as known, and so may be  *)
(* repeated or rerouted in full, only when no chunk but the failed one ever  *)
(* reached the provider and the provider refused that one: whatever runs in  *)
(* the grace, and whatever permit comes after the cancellation.              *)
StoppedAsKnown(b) ==
  batch[b].phase = "draining" /\ ~batch[b].result.error.unknown

TruthfulStop ==
  \A b \in Batches :
    StoppedAsKnown(b) =>
      /\ \A o \in Chunks(b) : Untried(chunk[b][o]) \/ Refused(chunk[b][o])
      /\ \A o, p \in Chunks(b) : Refused(chunk[b][o]) /\ Refused(chunk[b][p]) => o = p

(* The response of a fanned-out batch accounts for every output asked for    *)
(* exactly once, and an output is an image exactly when the provider call    *)
(* for it made that image, under the model the response names.               *)
OutputsExact ==
  \A b \in Batches :
    batch[b].phase = "done" /\ batch[b].result.error = NoError /\ ~Direct(b) =>
      LET made == {x \in 0..(N(b) - 1) :
                     LET c == chunk[b][x - (x % NativeMax)]
                     IN  /\ c.state = "collected"
                         /\ (x % NativeMax) \in c.answer.images
                         /\ c.answer.model = batch[b].result.model}
      IN  /\ batch[b].result.images = made
          /\ batch[b].result.failures = (0..(N(b) - 1)) \ made

(* The turns of one conversation keep their order: unless the session is     *)
(* isolated, a chunk reaches the provider when every earlier one has been    *)
(* answered and taken.                                                       *)
ConversationsInOrder ==
  \A b \in Batches :
    ~batch[b].request.isolated =>
      \A o \in In(b, AtProvider \cup {"lost"}) :
        \A p \in Chunks(b) : p < o => chunk[b][p].state \in {"collected", "denied"}

(* Every output of every chunk ends in its place, and the chunks of one      *)
(* conversation came in their order.                                         *)
OutputsInPlace == OutputsExact /\ ConversationsInOrder

(* A batch with a failure under fail_fast ends, though its other chunks hang *)
(* in the provider.                                                          *)
FailureEnds ==
  \A b \in Batches :
    /\ batch[b].phase = "open" /\ FailFast(b)
    /\ \E o \in Chunks(b) : chunk[b][o].state = "answered" /\ chunk[b][o].answer.error # NoError
    ~> batch[b].phase \in {"done", "dropped"}

(* Batches that wait for each other's permits all end, as long as every      *)
(* provider call does.                                                       *)
BatchesEnd ==
  (\A b \in Batches : []<>(In(b, {"running"}) = {})) =>
  \A b \in Batches : batch[b].phase = "open" ~> batch[b].phase \in {"done", "dropped"}

(* A failure ends a batch that fails fast, and every batch ends.             *)
BatchesSettle == FailureEnds /\ BatchesEnd

(* docs/resilience.md: "An unknown post-dispatch outcome may open the        *)
(* circuit for later calls, but the current request is never retried or sent *)
(* to a fallback."                                                           *)
UnknownNeverRerouted ==
  \A b \in Batches :
    /\ batch[b].phase = "done" /\ batch[b].result.error # NoError
    /\ \E o \in Chunks(b) : chunk[b][o].answer.error.unknown
    => \A policy \in Policies : ~ShouldFallback(batch[b].result.error, policy)
=============================================================================
