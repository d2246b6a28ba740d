----------------------------- MODULE Responses -----------------------------
(***************************************************************************)
(* The Codex Responses provider, crates/codex-responses/src: once the      *)
(* images of the request are loaded, one upstream call per output, at most *)
(* `parallel` at a time, each retried at most MaxAttempts times, each      *)
(* answered by a stream of events; and the runtime around it,              *)
(* await_provider_execution().  The upstream service is external: it       *)
(* answers with a status, a stream or nothing, and may stop anywhere.      *)
(* Bounds: Outputs, MaxAttempts (2 in the code), MaxPreviews per output,   *)
(* and room for Room previews on their way to the caller.                  *)
(***************************************************************************)
EXTENDS Inputs, Sequences, Errors

CONSTANTS Outputs,      \* 1..n, the outputs of the request
          MaxAttempts, MaxPreviews, Room, None

ASSUME ResponsesAssumption ==
  /\ IsFiniteSet(Outputs) /\ Outputs # {} /\ Outputs \subseteq Nat
  /\ {MaxAttempts, MaxPreviews, Room} \subseteq Nat \ {0}
  /\ None \notin [code : ErrorCode \cup {"image"}, unknown : BOOLEAN, retryable : BOOLEAN]

VARIABLES policy,    \* failure_policy of the request
          parallel,  \* max_parallel_outputs
          call,      \* one call_resilient() per output
          results,   \* what the calls came to, as far as they have ended
          worked,    \* outputs whose image the upstream may have made
          channel,   \* previews sent by the provider and not yet received
          elapsed,   \* the deadline of the request has passed
          cancelled, \* the operation token
          run,       \* await_provider_execution()
          answer     \* what it returned

providerVars == <<policy, parallel, call, results, worked, channel, elapsed, cancelled, run, answer, loading>>

Permanent(code) == [code |-> code, unknown |-> FALSE, retryable |-> FALSE]
Transient(code) == [code |-> code, unknown |-> FALSE, retryable |-> TRUE]
Lost(code)      == [code |-> code, unknown |-> TRUE, retryable |-> FALSE]  \* post_dispatch_unknown()
Made == Permanent("image")                \* an image: no error at all
IsError(result) == result \notin {None, Made}

Idle == [step |-> "ready", attempt |-> 1, sent |-> 0, verdict |-> None]

ResponsesInit ==
  /\ InputsInit
  /\ policy \in {"fail_fast", "best_effort"}
  /\ parallel \in 1..Cardinality(Outputs)
  /\ call = [o \in Outputs |-> Idle]
  /\ results = [o \in Outputs |-> None]
  /\ worked = {}
  /\ channel = <<>>
  /\ elapsed = FALSE /\ cancelled = FALSE
  /\ run = "running" /\ answer = None

(* safe_transient_retry() that looks at the code alone.                      *)
RetryByCode(error) == error.code \in {"rate_limited", "overloaded", "upstream"}

(* safe_transient_retry()                                                    *)
SafeTransientRetry(error) ==
  error.retryable /\ ~error.unknown /\ error.code \in {"rate_limited", "overloaded", "upstream"}

(* status_error() and classified_upstream_error(): an error that may be      *)
(* retried, one of the same code that may not, and a refusal.                *)
DeclaredErrors == {Transient("upstream"), Permanent("upstream"), Permanent("safety_rejected")}

(* EventState: what process_event() keeps of a stream.  Nothing reads it     *)
(* before the stream has ended, so the upstream chooses it then.             *)
EventState == [image : BOOLEAN, completed : BOOLEAN, refused : BOOLEAN,
               failure : {None} \cup DeclaredErrors]

(* EventState::finish(), missing_image_error()                               *)
Finish(state) ==
  IF state.failure # None   THEN state.failure
  ELSE IF ~state.completed THEN Permanent("protocol")
  ELSE IF state.image      THEN Made
  ELSE IF state.refused    THEN Permanent("safety_rejected")
  ELSE Transient("upstream")

-----------------------------------------------------------------------------
(* await_provider_execution(): the provider has answered.                    *)
Return(result) ==
  /\ run' = "returned"
  /\ answer' = IF ~IsError(result) THEN result
               ELSE IF run = "running" THEN Classified(result)
               ELSE IF result.code \in {"timeout", "cancelled"}
                    THEN Lost(result.code) ELSE result

(* sibling_may_have_run                                                      *)
MayHaveSibling ==
  /\ Cardinality(Outputs) > 1
  /\ parallel > 1 \/ \E o \in Outputs : results[o] = Made

(* The end of execute_inner(), once every output has a result.  A revised    *)
(* prompt that is required may be missing.                                   *)
Assemble(all) ==
  IF \E o \in Outputs : all[o] = Made
  THEN \E missing \in BOOLEAN :
         Return(IF missing THEN Permanent("upstream") ELSE Made)
  ELSE LET first == CHOOSE o \in Outputs : \A p \in Outputs : o <= p
       IN Return(all[first])

(* Calls that have ended, or are dropped where they are                      *)
Over(os) == [o \in Outputs |-> IF o \in os THEN [Idle EXCEPT !.step = "done", !.sent = call[o].sent]
                                           ELSE call[o]]

Stops(result) == IsError(result) /\ policy = "fail_fast"

(* One output has ended: the loop over output_calls in execute_inner().  The *)
(* others are dropped with the stream when the batch fails fast.             *)
End(o, result) ==
  LET all == [results EXCEPT ![o] = result] IN
  /\ results' = all
  /\ call' = Over(IF Stops(result) THEN Outputs ELSE {o})
  /\ IF Stops(result)
     THEN Return(IF MayHaveSibling THEN [result EXCEPT !.unknown = TRUE, !.retryable = FALSE]
                                   ELSE result)
     ELSE IF None \in {all[p] : p \in Outputs} THEN UNCHANGED <<run, answer>>
     ELSE Assemble(all)

(* An attempt has failed: call_resilient() goes on after a pause, or gives   *)
(* up, as it may at any time, when the deadline leaves no room for the pause.*)
Fail(o, error, verdict) ==
  \/ /\ SafeTransientRetry(error) /\ call[o].attempt < MaxAttempts /\ ~elapsed
     /\ call' = [call EXCEPT ![o].step = "pausing", ![o].verdict = verdict]
     /\ UNCHANGED <<results, run, answer>>
  \/ End(o, error)

Polled == run \in {"running", "grace"}
InFlight == {o \in Outputs : call[o].step \notin {"ready", "done"}}
Others == UNCHANGED <<policy, parallel, elapsed, cancelled, loading>>

(* input_content(): nothing is called before the images are there, and an    *)
(* image that cannot be loaded ends the request.                             *)
LoadInputs ==
  /\ Polled
  /\ \/ LoadStep /\ UNCHANGED <<run, answer>>
     \/ LoadFails /\ Return(Permanent("input"))
  /\ UNCHANGED <<policy, parallel, call, results, worked, channel, elapsed, cancelled>>

(* call_once() up to the dispatch.  Outputs start in their order, up to      *)
(* parallel of them (buffer_unordered).                                      *)
Dispatch(o) ==
  /\ Polled /\ loading = Loaded
  /\ \/ call[o].step = "again"
     \/ /\ call[o].step = "ready" /\ Cardinality(InFlight) < parallel
        /\ \A p \in Outputs : p < o => call[p].step # "ready"
  /\ \/ elapsed /\ Fail(o, Permanent("timeout"), "undispatched")
     \/ Fail(o, Permanent("authentication"), "undispatched")
     \/ /\ ~elapsed
        /\ call' = [call EXCEPT ![o].step = "sending"]
        /\ UNCHANGED <<results, run, answer>>
  /\ UNCHANGED <<worked, channel>> /\ Others

(* The head of the answer, or none: call_once() after send().                *)
Headers(o) ==
  /\ Polled /\ call[o].step = "sending"
  /\ \/ /\ call' = [call EXCEPT ![o].step = "streaming"]
        /\ worked' = worked \cup {o}
        /\ UNCHANGED <<results, run, answer>>
     \/ /\ \E error \in DeclaredErrors : Fail(o, error, "status")
        /\ UNCHANGED worked
     \/ /\ \E code \in {"timeout", "upstream"} : Fail(o, Lost(code), "lost")
        /\ worked' = worked \cup {o}
     \/ /\ cancelled /\ Fail(o, Permanent("cancelled"), "lost")
        /\ worked' = worked \cup {o}
  /\ UNCHANGED channel /\ Others

Streams(o) == Polled /\ call[o].step = "streaming" /\ UNCHANGED worked /\ Others

Event(kind, output, number) == [kind |-> kind, output |-> output, number |-> number]
Preview(o) == Event("preview", o, call[o].sent + 1)

(* A preview: process_and_forward_event() waits for room in the channel, and *)
(* while it waits looks neither at the stream nor at the deadline.           *)
Partial(o) ==
  /\ Streams(o) /\ call[o].sent < MaxPreviews
  /\ IF Len(channel) < Room
     THEN /\ channel' = Append(channel, Preview(o))
          /\ call' = [call EXCEPT ![o].sent = @ + 1]
     ELSE /\ call' = [call EXCEPT ![o].step = "forwarding"]
          /\ UNCHANGED channel
  /\ UNCHANGED <<results, run, answer>>

Forward(o) ==
  /\ Polled /\ call[o].step = "forwarding" /\ Len(channel) < Room
  /\ channel' = Append(channel, Preview(o))
  /\ call' = [call EXCEPT ![o].step = "streaming", ![o].sent = @ + 1]
  /\ UNCHANGED <<results, run, answer, worked>> /\ Others

(* process_event() cannot read an event, or capture_image_item() meets a     *)
(* second image that differs from the first.                                 *)
Garbled(o) ==
  /\ Streams(o) /\ UNCHANGED channel
  /\ Fail(o, Permanent("protocol"), "broken")

(* The stream has ended; normalized_image() may refuse the image.            *)
Eof(o) ==
  /\ Streams(o) /\ UNCHANGED channel
  /\ \E state \in EventState :
       IF Finish(state) = Made
       THEN End(o, Made) \/ End(o, Permanent("protocol"))
       ELSE Fail(o, Finish(state), IF state.failure # None \/ state.completed
                                   THEN "declared" ELSE "broken")

(* The stream breaks, is cancelled, or meets the deadline.                   *)
Break(o) ==
  /\ Streams(o) /\ UNCHANGED channel
  /\ \/ \E code \in {"timeout", "upstream"} : Fail(o, Lost(code), "lost")
     \/ cancelled /\ Fail(o, Lost("cancelled"), "lost")
     \/ elapsed /\ Fail(o, Lost("timeout"), "lost")

(* The pause before a retry                                                  *)
Pause(o) ==
  /\ Polled /\ call[o].step = "pausing"
  /\ \/ /\ call' = [call EXCEPT ![o].step = "again", ![o].attempt = @ + 1]
        /\ UNCHANGED <<results, run, answer>>
     \/ cancelled /\ End(o, Permanent("cancelled"))
  /\ UNCHANGED <<worked, channel>> /\ Others

-----------------------------------------------------------------------------
(* await_provider_execution(): the deadline or the shutdown of the runtime   *)
(* cancels the operation and leaves the provider a grace.                    *)
Interrupt ==
  /\ run = "running" /\ (elapsed \/ cancelled)
  /\ run' = "grace" /\ cancelled' = TRUE
  /\ UNCHANGED <<policy, parallel, call, results, worked, channel, elapsed, answer, loading>>

GraceEnds ==
  /\ run = "grace"
  /\ run' = "returned"
  /\ answer' = Lost(IF elapsed THEN "timeout" ELSE "cancelled")
  /\ call' = Over(Outputs) /\ loading' = Loaded
  /\ UNCHANGED <<policy, parallel, results, worked, channel, elapsed, cancelled>>

Elapse ==
  /\ ~elapsed /\ elapsed' = TRUE
  /\ UNCHANGED <<policy, parallel, call, results, worked, channel, cancelled, run, answer, loading>>

(* ImagegenRuntime::shutdown(): the operation token is a child of its own.   *)
Shutdown ==
  /\ ~cancelled /\ cancelled' = TRUE
  /\ UNCHANGED <<policy, parallel, call, results, worked, channel, elapsed, run, answer, loading>>

Provider ==
  \/ \E o \in Outputs :
       \/ Dispatch(o) \/ Headers(o) \/ Partial(o) \/ Forward(o) \/ Garbled(o) \/ Eof(o)
       \/ Break(o) \/ Pause(o)
  \/ LoadInputs \/ Interrupt \/ GraceEnds
=============================================================================
