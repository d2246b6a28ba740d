---------------------------- MODULE AppServerCall ----------------------------
(***************************************************************************)
(* The future of a call of the app-server provider, of                     *)
(* crates/codex-app-server/src/provider.rs: which request it makes next,   *)
(* and what it reports when one is answered, refused or lost.              *)
(***************************************************************************)
EXTENDS Errors, Naturals, Sequences, FiniteSets

CONSTANTS
  Calls,        \* the callers of the provider
  Sessions,     \* session keys
  Old,          \* a thread of an earlier process, named in requests and bindings
  Requests,     \* what the calls may ask for
  MaxChildren,  \* bound: children ever started
  Ring,         \* notification_capacity
  None

Request == [mode : {"isolated", "persistent", "thread", "ready"}, key : Sessions \cup {None}]

ASSUME AppServerAssumption ==
  /\ {MaxChildren, Ring} \subseteq Nat \ {0}
  /\ None \notin Calls \cup Sessions \cup (1..MaxChildren)
  /\ Requests \subseteq [Calls -> Request]
  /\ \A r \in Requests, c \in Calls : r[c].mode = "persistent" <=> r[c].key # None

VARIABLE
  call  \* the future of each call; its pc is where it awaits

Kinds    == {"start", "resume", "turn", "interrupt", "archive", "account", "features"}
Children == 1..MaxChildren
Threads  == Calls \cup {Old}
Statuses == {"completed", "failed", "interrupted"}
Notification == [turn : Calls, kind : {"image"} \cup Statuses]

NoResult == Known("none")
Success  == Known("ok")

(* The broadcast receiver of a call during its turn.                         *)
NoMail == [hearing |-> FALSE, lagged |-> FALSE, queue |-> <<>>]

NewCall(r) == [request |-> r, pc |-> "idle", rpc |-> None, ask |-> None, thread |-> None,
               image |-> FALSE, cut |-> NoResult, result |-> NoResult, mail |-> NoMail]

Pcs == {"idle", "queued", "pausing", "launching", "session", "asking", "sending",
        "waiting", "binding", "turning", "settling", "done", "dropped"}

CallOK ==
  \A c \in Calls :
    /\ call[c].request \in Request /\ call[c].pc \in Pcs
    /\ call[c].rpc \in Children \cup {None} /\ call[c].ask \in Kinds \cup {None}
    /\ call[c].thread \in Threads \cup {None} /\ call[c].image \in BOOLEAN
    /\ {call[c].cut, call[c].result} \subseteq Error \cup {NoResult, Success}
    /\ LET m == call[c].mail
       IN  /\ m.hearing \in BOOLEAN /\ m.lagged \in BOOLEAN /\ Len(m.queue) <= Ring
           /\ \A i \in DOMAIN m.queue : m.queue[i] \in Notification

Set(c, future) == call' = [call EXCEPT ![c] = future]

Mode(c)  == call[c].request.mode
Id(c)    == <<c, call[c].ask>>
Awaits(c) == call[c].pc = "waiting"

-----------------------------------------------------------------------------
Ask(c, kind)  == [call[c] EXCEPT !.pc = "asking", !.ask = kind]
End(c, error) == [NewCall(call[c].request) EXCEPT !.pc = "done", !.rpc = call[c].rpc,
                                                  !.result = error]

(* What execute_inner() does with the result of a turn: an isolated thread   *)
(* is archived first, whatever the result.                                   *)
Conclude(c, error) ==
  IF Mode(c) = "isolated" /\ call[c].thread # None
  THEN [Ask(c, "archive") EXCEPT !.result = error, !.image = FALSE,
                                 !.cut = NoResult, !.mail = NoMail]
  ELSE End(c, error)

(* interrupt_outcome(), protocol_failure_outcome(): the turn is interrupted  *)
(* before the error is reported.                                             *)
Interrupt(c, error) == [Ask(c, "interrupt") EXCEPT !.cut = error]

(* The interruption is not confirmed.                                        *)
Unconfirmed(c) == Conclude(c, Unknown(call[c].cut.code))

(* What a call reports when a request of its own is not answered well.       *)
RequestFailed(c, error) ==
  CASE call[c].ask = "interrupt" -> Unconfirmed(c)
    [] call[c].ask = "archive"   -> End(c, call[c].result)
    [] OTHER                     -> Conclude(c, error)

(* A good reply, by the kind of request it answers.                          *)
Answered(c) ==
  CASE call[c].ask = "start" ->
         IF Mode(c) = "persistent" THEN [call[c] EXCEPT !.pc = "binding", !.thread = c]
         ELSE [Ask(c, "turn") EXCEPT !.thread = c]
    [] call[c].ask = "resume"    -> Ask(c, "turn")
    [] call[c].ask = "turn"      -> [call[c] EXCEPT !.pc = "turning"]
    [] call[c].ask = "interrupt" -> [call[c] EXCEPT !.pc = "settling"]
    [] call[c].ask = "archive"   -> End(c, call[c].result)
    [] call[c].ask = "account"   -> Ask(c, "features")
    [] call[c].ask = "features"  -> End(c, Success)

(* A refusal is an error of the RPC for work, a missing account or feature   *)
(* for check_ready(), whose answers are read like that.                      *)
Refusal(c) == CASE call[c].ask = "account"  -> Known("authentication")
                [] call[c].ask = "features" -> Known("unsupported_capability")
                [] OTHER                    -> Known("upstream")

(* The reply a call waits for has come: "malformed" has no thread or turn    *)
(* id where there must be one, "closed" is the end of the connection.        *)
Replied(c, body) ==
  CASE body = "ok"      -> Answered(c)
    [] body = "refused" -> RequestFailed(c, Refusal(c))
    [] OTHER            -> RequestFailed(c, Known("protocol"))

(* request_interrupted(): only a request with side effects is ambiguous.     *)
Interrupted(c, code) == IF call[c].ask = "turn" THEN Unknown(code) ELSE Known(code)

-----------------------------------------------------------------------------

(* notifications.recv(), which fails once if messages were lost; what does   *)
(* not belong to the turn is skipped.                                        *)
Receive(c, lost, futures) ==
  LET m == call[c].mail
  IN  IF m.lagged THEN Set(c, lost)
      ELSE /\ m.queue # <<>>
           /\ \E f \in IF Head(m.queue).turn = c THEN futures ELSE {call[c]} :
                Set(c, [f EXCEPT !.mail.queue = IF @ = <<>> THEN @ ELSE Tail(@)])

(* run_turn() at a message of its turn: an image, which capture() may refuse, *)
(* or the end, where the images have to be good, normalized_image().         *)
Heard(c, kind) ==
  IF kind = "image" THEN {[call[c] EXCEPT !.image = TRUE], Interrupt(c, Known("protocol"))}
  ELSE IF kind = "completed" /\ call[c].image
  THEN {Conclude(c, Success), Conclude(c, Known("protocol"))}
  ELSE {Conclude(c, Known("upstream"))}

(* Mutant: the end of the turn confirms the interruption, whatever it is.    *)
ConfirmedByEnd(c, kind) == IF kind \in Statuses THEN Conclude(c, call[c].cut) ELSE call[c]

(* interrupt_and_confirm(): the terminal status decides whether the outcome  *)
(* is known.                                                                 *)
Confirmed(c, kind) ==
  CASE kind \in {"interrupted", "failed"} -> Conclude(c, call[c].cut)
    [] kind = "completed"                 -> Unconfirmed(c)
    [] OTHER                              -> call[c]
=============================================================================
