---------------------------- MODULE EventStream ----------------------------
(***************************************************************************)
(* The native event stream, crates/server/src/streaming.rs: one task runs  *)
(* the request and passes its previews to the client.  The request         *)
(* advances only while the task is in its select: while the task waits for *)
(* the client, nobody polls the request, its deadline included.  A client  *)
(* that does not read is cut off by the connection's write timeout,        *)
(* crates/server/src/serve.rs.                                             *)
(***************************************************************************)
EXTENDS Responses

CONSTANT Wire  \* events on their way to the client: the second channel

ASSUME EventStreamAssumption ==
  /\ Wire \in Nat \ {0}
  /\ None \notin [kind : {"preview", "completed", "error"}, output : Nat, number : Nat]

VARIABLES task,    \* the spawned task
          held,    \* the event it waits to send
          wire,    \* events not yet read by the client
          client,  \* the client is connected
          seen     \* what the client has read

streamVars == <<task, held, wire, client, seen>>
systemVars == <<policy, parallel, call, results, worked, channel, elapsed, cancelled, run, answer,
          loading, task, held, wire, client, seen>>

Started  == Event("started", 0, 0)
Terminal == Event(IF IsError(answer) THEN "error" ELSE "completed", 0, 0)

StreamInit ==
  /\ ResponsesInit
  /\ task = "select" /\ held = None
  /\ wire = <<Started>> /\ client = TRUE
  /\ seen = [last |-> "nothing", previews |-> [o \in Outputs |-> 0]]

(* The select polls the request.                                             *)
PollRequest ==
  /\ task = "select" /\ held = None
  /\ Provider
  /\ UNCHANGED streamVars

(* sender.send(event).await, begun                                           *)
Send(event) ==
  IF Len(wire) < Wire THEN wire' = Append(wire, event) /\ UNCHANGED held
                      ELSE held' = event /\ UNCHANGED wire

(* Mutant: the terminal event overtakes the previews still in the channel.   *)
TakeResultAtOnce ==
  /\ task = "select" /\ held = None /\ run = "returned"
  /\ task' = "ending"
  /\ channel' = <<>>
  /\ UNCHANGED <<policy, parallel, call, results, worked, elapsed, cancelled, run, answer,
                 loading, held, wire, client, seen>>

(* The result is there: what is left in the channel goes first.              *)
TakeResult ==
  /\ task = "select" /\ held = None /\ run = "returned"
  /\ task' = "ending"
  /\ UNCHANGED <<providerVars, held, wire, client, seen>>

(* A preview comes out of the channel, in the select or in the drain.        *)
TakePreview ==
  /\ task \in {"select", "ending"} /\ held = None /\ channel # <<>> /\ client
  /\ channel' = Tail(channel)
  /\ Send(Head(channel))
  /\ UNCHANGED <<policy, parallel, call, results, worked, elapsed, cancelled, run, answer,
                 loading, task, client, seen>>

(* The completed or error event, after the drain.                            *)
Terminate ==
  /\ task = "ending" /\ held = None /\ channel = <<>> /\ client
  /\ task' = "last"
  /\ Send(Terminal)
  /\ UNCHANGED <<providerVars, client, seen>>

(* sender.send(event).await, resumed                                         *)
Resume ==
  /\ held # None /\ client /\ Len(wire) < Wire
  /\ wire' = Append(wire, held) /\ held' = None
  /\ UNCHANGED <<providerVars, task, client, seen>>

Close ==
  /\ task = "last" /\ held = None
  /\ task' = "done"
  /\ UNCHANGED <<providerVars, held, wire, client, seen>>

(* Mutant: the request goes on when the client has gone, but nobody polls it.*)
AbandonQuietly ==
  /\ ~client /\ task # "done"
  /\ task' = "done" /\ held' = None
  /\ UNCHANGED <<providerVars, wire, client, seen>>

(* A send fails, or sender.closed(): the task cancels the request and ends,  *)
(* and the request is dropped where it is.                                   *)
Abandon ==
  /\ ~client /\ task # "done"
  /\ task' = "done" /\ held' = None
  /\ cancelled' = TRUE
  /\ run' = IF run = "returned" THEN run ELSE "dropped"
  /\ call' = Over(Outputs) /\ loading' = Loaded
  /\ UNCHANGED <<policy, parallel, results, worked, channel, elapsed, answer,
                 wire, client, seen>>

-----------------------------------------------------------------------------
Read ==
  /\ client /\ wire # <<>>
  /\ LET event == Head(wire) IN
     seen' = [last |-> event.kind,
              previews |-> IF event.kind = "preview"
                           THEN [seen.previews EXCEPT ![event.output] = event.number]
                           ELSE seen.previews]
  /\ wire' = Tail(wire)
  /\ UNCHANGED <<providerVars, task, held, client>>

(* The client leaves of its own accord, or poll_write_stall() times out      *)
(* because it does not read.                                                 *)
Leave ==
  /\ client /\ task # "done"
  /\ client' = FALSE
  /\ UNCHANGED <<providerVars, task, held, wire, seen>>

WriteStall == held # None /\ Leave

StreamNext ==
  \/ PollRequest \/ TakeResult \/ TakePreview \/ Terminate \/ Resume \/ Close \/ Abandon
  \/ Read \/ Leave
  \/ (Elapse \/ Shutdown) /\ UNCHANGED streamVars

(* The task and the runtime's timers run; a stalled client is cut off.  The  *)
(* upstream, the provider's calls and the client promise nothing.            *)
StreamSpec ==
  /\ StreamInit /\ [][StreamNext]_systemVars
  /\ WF_systemVars(task = "select" /\ held = None /\ (Interrupt \/ GraceEnds) /\ UNCHANGED streamVars)
  /\ WF_systemVars(TakeResult) /\ WF_systemVars(TakePreview) /\ WF_systemVars(Terminate) /\ WF_systemVars(Resume)
  /\ WF_systemVars(Close) /\ WF_systemVars(Abandon) /\ WF_systemVars(WriteStall)

-----------------------------------------------------------------------------
Events  == [kind : {"preview"}, output : Outputs, number : 1..MaxPreviews]
             \cup {Event(kind, 0, 0) : kind \in {"started", "completed", "error"}}
Results == {None, Made} \cup [code : ErrorCode, unknown : BOOLEAN, retryable : BOOLEAN]

(* The channels stay within their capacities, attempts within their limit,   *)
(* and no more calls run at a time than the configuration allows.            *)
StreamTypeOK ==
  /\ Len(channel) <= Room /\ Len(wire) <= Wire
  /\ \A o \in Outputs : call[o].attempt \in 1..MaxAttempts /\ results[o] \in Results
  /\ Cardinality(InFlight) <= parallel
  /\ answer \in Results /\ run \in {"running", "grace", "returned", "dropped"}
  /\ task \in {"select", "ending", "last", "done"}
  /\ held \in Events \cup {None}

(* deployment.md:89: unknown outcomes are never retried.  An output is asked *)
(* for again only after the upstream has said itself that the first attempt  *)
(* came to nothing: a status, a declared failure, or a completed response    *)
(* without an image.                                                         *)
RetriesAreSafe ==
  \A o \in Outputs :
    call[o].step \in {"pausing", "again"} \/ (call[o].step # "done" /\ call[o].attempt > 1) =>
      call[o].verdict \in {"status", "declared"}

(* provider.rs:250: a batch that fails fast says that its outcome is unknown *)
(* whenever the upstream may have worked on another of its outputs.          *)
FailFastTruthful ==
  policy = "fail_fast" /\ run = "returned" /\ IsError(answer) /\ ~answer.unknown =>
    \A o \in Outputs : o \in worked => IsError(results[o]) \/ \A p \in Outputs : results[p] = Made

(* What the calls do and say about work that may have been done, and where   *)
(* the images they send come from.                                           *)
CallsTruthful == StreamTypeOK /\ RetriesAreSafe /\ FailFastTruthful /\ InputsWithinPolicy

(* What the client reads is the stream of the request: started, the previews *)
(* of each output in their order and none left out, and one terminal event   *)
(* at the end; completed comes after every preview that was sent.            *)
StreamIsExact ==
  [][seen' # seen =>
       LET event == Head(wire) IN
       /\ event.kind = "started" <=> seen.last = "nothing"
       /\ seen.last \notin {"completed", "error"}
       /\ event.kind = "preview" => event.number = seen.previews[event.output] + 1
       /\ event.kind \in {"completed", "error"} =>
            \A o \in Outputs : seen.previews[o] = call[o].sent]_systemVars

(* The permits a request holds come back after its deadline, even if the     *)
(* client stops reading and nobody polls the request.                        *)
PermitsReturn == elapsed ~> run \in {"returned", "dropped"}

(* api.md:228: the runtime never reroutes an unknown outcome.  A batch whose *)
(* outputs all failed is not answered by an error that may be rerouted, if   *)
(* the outcome of one of them is unknown.                                    *)
UnknownIsNotHidden ==
  run = "returned" /\ IsError(answer) /\ (\E o \in Outputs : IsError(results[o]) /\ results[o].unknown) =>
    \A fallback \in Policies : ~ShouldFallback(answer, fallback)
=============================================================================
