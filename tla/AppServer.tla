------------------------------ MODULE AppServer ------------------------------
(***************************************************************************)
(* The app-server provider, crates/codex-app-server/src: the supervisor of *)
(* the child (process.rs) and the threads, turns and interruptions of      *)
(* provider.rs over the connections of rpc.rs, with the session bindings   *)
(* of crates/runtime/src/sqlite_sessions.rs.                               *)
(*                                                                         *)
(* A call's pc is where its future awaits.  Deadlines and tokens may fire  *)
(* at any await that looks at them.  A thread is named by the call that    *)
(* started it, a turn by the call it is for.  The child is external: it    *)
(* answers, refuses, keeps silent, and works on a turn when it likes.      *)
(***************************************************************************)
EXTENDS AppServerRpc

CONSTANTS
  MaxFaults   \* bound: children that die, connections that fail, futures dropped,
              \* tokens cancelled, sessions deleted, shutdowns

ASSUME BoundsAssumption == MaxFaults \in Nat

VARIABLES
  supervisor,  \* CodexProcess: its mutex, the running child, the generation, shutdown
  bindings,    \* the session table
  atChild,     \* requests the child has read and not answered
  turn,        \* what became of the turn of each call
  faults       \* what came from outside so far

vars == <<link, call, supervisor, bindings, atChild, turn, faults>>

TypeOK ==
  /\ LinkOK /\ CallOK
  /\ supervisor \in [running : Children \cup {None}, holder : Calls \cup {None},
                     started : Children, generation : Nat, stop : {"no", "asked", "done"}]
  /\ bindings \in [Sessions -> Threads \cup {None}]
  /\ atChild \subseteq Ids
  /\ turn \in [Calls -> [state : {"none", "running", "lost"} \cup Statuses, drawn : BOOLEAN]]
  /\ faults \in 0..MaxFaults

Fault == faults < MaxFaults /\ faults' = faults + 1

NoTurn == [state |-> "none", drawn |-> FALSE]

(* The child of spawn() may have died since.                                 *)
Init ==
  /\ \E up \in {"up", "dead"} :
       link = [g \in Children |-> IF g = 1 THEN [Started EXCEPT !.child = up] ELSE Unborn]
  /\ supervisor = [running |-> 1, holder |-> None, started |-> 1, generation |-> 1, stop |-> "no"]
  /\ \E r \in Requests : call = [c \in Calls |-> NewCall(r[c])]
  /\ bindings = [s \in Sessions |-> None]
  /\ atChild = {}
  /\ turn = [c \in Calls |-> NoTurn]
  /\ faults = 0

-----------------------------------------------------------------------------
Ended(c) == call[c].pc \in {"done", "dropped"}
Stopping == supervisor.stop # "no"

(* Mutant: the lock of a request is its own.                                 *)
LockKeyOfRequest(c) == c

(* The key of the lock a call takes: its session, else its thread, else      *)
(* itself.                                                                   *)
LockKey(c) == CASE Mode(c) = "persistent" -> call[c].request.key
                [] Mode(c) = "thread"     -> Old
                [] OTHER                  -> c

(* What holds the lock of its session, from resolve_thread() on.             *)
InSession(c) == call[c].pc \in {"asking", "sending", "waiting", "binding", "turning", "settling"}

-----------------------------------------------------------------------------
(* The supervisor: rpc() and shutdown().                                     *)

(* A child that is killed takes the turns under way with it.                 *)
LoseTurns(g) == turn' = [c \in Calls |-> IF call[c].rpc = g /\ turn[c].state = "running"
                                         THEN [turn[c] EXCEPT !.state = "lost"] ELSE turn[c]]
Kill(g) ==
  IF g = None \/ link[g].child # "up" THEN UNCHANGED <<link, turn>>
  ELSE link' = [link EXCEPT ![g].child = "dead"] /\ LoseTurns(g)

Begin(c) ==
  /\ call[c].pc = "idle"
  /\ Set(c, IF Stopping THEN End(c, Known("cancelled")) ELSE [call[c] EXCEPT !.pc = "queued"])
  /\ UNCHANGED <<link, supervisor, bindings, atChild, turn, faults>>

(* With its connection a call goes on: check_ready() asks for the account,   *)
(* a generation takes the lock of its session.                               *)
Connected(c, g) ==
  [call[c] EXCEPT !.rpc = g, !.pc = IF Mode(c) = "ready" THEN "asking" ELSE "session",
                  !.ask = IF Mode(c) = "ready" THEN "account" ELSE None]

(* The mutex is free: what rpc() does while it holds it, up to an await.     *)
Holding(c) == call[c].pc = "queued" /\ supervisor.holder = None

UseRunning(c) ==
  /\ Holding(c) /\ Healthy(supervisor.running)
  /\ Set(c, Connected(c, supervisor.running))
  /\ UNCHANGED <<link, supervisor, bindings, atChild, turn, faults>>

(* The failed child is taken, stopped and reaped; it may not stop in time.   *)
StopFailed(c) ==
  /\ Holding(c) /\ ~Healthy(supervisor.running)
  /\ Kill(supervisor.running)
  /\ \/ /\ ~Stopping /\ Set(c, [call[c] EXCEPT !.pc = "pausing"])
        /\ supervisor' = [supervisor EXCEPT !.running = None, !.holder = c]
     \/ /\ Stopping /\ Set(c, End(c, Known("cancelled")))
        /\ supervisor' = [supervisor EXCEPT !.running = None]
     \/ /\ supervisor.running # None /\ Set(c, End(c, Known("timeout")))
        /\ supervisor' = [supervisor EXCEPT !.running = None]
  /\ UNCHANGED <<bindings, atChild, faults>>

(* After the backoff a new child is started, unless that fails.              *)
Launch(c) ==
  /\ call[c].pc = "pausing"
  /\ LET g == supervisor.started + 1
     IN  \/ /\ ~Stopping /\ g \in Children
            /\ link' = [link EXCEPT ![g] = Started]
            /\ supervisor' = [supervisor EXCEPT !.started = g]
            /\ Set(c, [call[c] EXCEPT !.pc = "launching", !.rpc = g])
         \/ /\ Set(c, End(c, Known(IF Stopping THEN "cancelled" ELSE "configuration")))
            /\ supervisor' = [supervisor EXCEPT !.holder = None]
            /\ UNCHANGED link
  /\ UNCHANGED <<bindings, atChild, turn, faults>>

(* connect(): initialize is answered, or the child is killed.                *)
Initialized(c) ==
  /\ call[c].pc = "launching"
  /\ \/ /\ Healthy(call[c].rpc)
        /\ supervisor' = [supervisor EXCEPT !.running = call[c].rpc, !.holder = None,
                                            !.generation = @ + 1]
        /\ Set(c, Connected(c, call[c].rpc))
        /\ UNCHANGED <<link, turn>>
     \/ /\ Kill(call[c].rpc)
        /\ supervisor' = [supervisor EXCEPT !.holder = None]
        /\ Set(c, End(c, Known("protocol")))
  /\ UNCHANGED <<bindings, atChild, faults>>

Shutdown ==
  /\ supervisor.stop = "no" /\ Fault
  /\ supervisor' = [supervisor EXCEPT !.stop = "asked"]
  /\ UNCHANGED <<link, call, bindings, atChild, turn>>

(* Mutant: shutdown() does not wait for the mutex.                           *)
StopRunningAtOnce ==
  /\ supervisor.stop = "asked"
  /\ Kill(supervisor.running)
  /\ supervisor' = [supervisor EXCEPT !.stop = "done", !.running = None]
  /\ UNCHANGED <<call, bindings, atChild, faults>>

(* shutdown() waits for the mutex, takes the child and stops it.             *)
StopRunning ==
  /\ supervisor.stop = "asked" /\ supervisor.holder = None
  /\ Kill(supervisor.running)
  /\ supervisor' = [supervisor EXCEPT !.stop = "done", !.running = None]
  /\ UNCHANGED <<call, bindings, atChild, faults>>

-----------------------------------------------------------------------------
(* resolve_thread()                                                          *)

(* The lock of the session is free; sessions.get() may fail.                 *)
Resolve(c) ==
  /\ call[c].pc = "session"
  /\ \A d \in Calls \ {c} : InSession(d) => LockKey(d) # LockKey(c)
  /\ LET bound == IF Mode(c) = "persistent" THEN bindings[call[c].request.key]
                  ELSE IF Mode(c) = "thread" THEN Old ELSE None
     IN  \/ Set(c, [Ask(c, IF bound = None THEN "start" ELSE "resume") EXCEPT !.thread = bound])
         \/ Mode(c) = "persistent" /\ Set(c, End(c, Known("session")))
  /\ UNCHANGED <<link, supervisor, bindings, atChild, turn, faults>>

LeaveQueue(c, code) ==
  /\ call[c].pc = "session"
  /\ Set(c, End(c, Known(code)))
  /\ UNCHANGED <<link, supervisor, bindings, atChild, turn>>

(* sessions.put() of a thread just started.                                  *)
Bind(c) ==
  /\ call[c].pc = "binding"
  /\ \/ /\ bindings' = [bindings EXCEPT ![call[c].request.key] = call[c].thread]
        /\ Set(c, Ask(c, "turn"))
     \/ Set(c, End(c, Known("session"))) /\ UNCHANGED bindings
  /\ UNCHANGED <<link, supervisor, atChild, turn, faults>>

(* delete_session() takes no lock.                                           *)
DeleteSession(s) ==
  /\ bindings[s] # None /\ Fault
  /\ bindings' = [bindings EXCEPT ![s] = None]
  /\ UNCHANGED <<link, call, supervisor, atChild, turn>>

-----------------------------------------------------------------------------
(* request_with_delivery(), in the steps another task can come between: the  *)
(* closed check, the insertion and write, the wait.                          *)

(* A turn is subscribed to before its request.                               *)
CheckOpen(c) ==
  /\ call[c].pc = "asking" /\ ~link[call[c].rpc].closed
  /\ Set(c, [call[c] EXCEPT !.pc = "sending",
                            !.mail.hearing = @ \/ call[c].ask = "turn"])
  /\ UNCHANGED <<link, supervisor, bindings, atChild, turn, faults>>

(* The connection is closed, the message too long, or a reference is bad.    *)
RefuseRequest(c) ==
  /\ call[c].pc = "asking"
  /\ \/ link[call[c].rpc].closed /\ Set(c, RequestFailed(c, Known("protocol")))
     \/ /\ call[c].ask = "turn"
        /\ \E code \in {"protocol", "input"} : Set(c, RequestFailed(c, Known(code)))
  /\ UNCHANGED <<link, supervisor, bindings, atChild, turn, faults>>

Send(c) ==
  /\ call[c].pc = "sending"
  /\ Write(call[c].rpc, c, [call[c] EXCEPT !.pc = "waiting"],
           RequestFailed(c, Known("protocol")))
  /\ atChild' = IF link[call[c].rpc].child = "up" THEN atChild \cup {Id(c)} ELSE atChild
  /\ UNCHANGED <<supervisor, bindings, turn, faults>>

(* A request nobody waits for matters to the child if it starts a turn.      *)
Unanswered(c) == IF call[c].ask = "turn" THEN atChild ELSE atChild \ {Id(c)}

(* Mutant: the archival of a thread waits without a deadline.                *)
GiveUpWork(c, code) ==
  /\ Awaits(c) /\ call[c].ask # "archive"
  /\ code = "cancelled" => call[c].ask \in {"start", "resume", "turn"}
  /\ link' = [link EXCEPT ![call[c].rpc].pending = @ \ {Id(c)}]
  /\ Set(c, RequestFailed(c, Interrupted(c, code)))
  /\ atChild' = Unanswered(c)
  /\ UNCHANGED <<supervisor, bindings, turn>>

(* The deadline, or the token: which interruption, archival and readiness do *)
(* not have.                                                                 *)
GiveUp(c, code) ==
  /\ Awaits(c)
  /\ code = "cancelled" => call[c].ask \in {"start", "resume", "turn"}
  /\ link' = [link EXCEPT ![call[c].rpc].pending = @ \ {Id(c)}]
  /\ Set(c, RequestFailed(c, Interrupted(c, code)))
  /\ atChild' = Unanswered(c)
  /\ UNCHANGED <<supervisor, bindings, turn>>

-----------------------------------------------------------------------------
(* run_turn() and interrupt_and_confirm()                                    *)

Listen(c) ==
  /\ call[c].pc = "turning"
  /\ Receive(c, Conclude(c, Known("overloaded")), Heard(c, Head(call[c].mail.queue).kind))
  /\ UNCHANGED <<link, supervisor, bindings, atChild, turn, faults>>

(* The token or the deadline during the turn.                                *)
Cut(c, code) ==
  /\ call[c].pc = "turning"
  /\ Set(c, Interrupt(c, Known(code)))
  /\ UNCHANGED <<link, supervisor, bindings, atChild, turn>>

Settle(c) ==
  /\ call[c].pc = "settling"
  /\ Receive(c, Unconfirmed(c), {Confirmed(c, Head(call[c].mail.queue).kind)})
  /\ UNCHANGED <<link, supervisor, bindings, atChild, turn, faults>>

GraceOver(c) ==
  /\ call[c].pc = "settling"
  /\ Set(c, Unconfirmed(c))
  /\ UNCHANGED <<link, supervisor, bindings, atChild, turn, faults>>

(* The future is dropped by the runtime, with the locks it holds and, while  *)
(* it starts a child, that child; what is pending stays pending.             *)
Drop(c) ==
  /\ call[c].pc \notin {"idle", "done", "dropped"}
  /\ Fault
  /\ Set(c, [End(c, NoResult) EXCEPT !.pc = "dropped"])
  /\ supervisor' = [supervisor EXCEPT !.holder = IF @ = c THEN None ELSE @]
  /\ IF call[c].pc = "launching" THEN Kill(call[c].rpc) ELSE UNCHANGED <<link, turn>>
  /\ atChild' = Unanswered(c)
  /\ UNCHANGED bindings

-----------------------------------------------------------------------------
(* The child.                                                                *)

Heeded(c)  == \E d \in Calls : call[d].rpc = call[c].rpc /\ call[d].mail.hearing
Serving(c) == call[c].rpc # None /\ link[call[c].rpc].child = "up"

(* It takes a request and answers it, or never does.                         *)
Handle(c, k) ==
  /\ <<c, k>> \in atChild /\ Serving(c)
  /\ atChild' = atChild \ {<<c, k>>}
  /\ \E body \in {"ok", "refused"} \cup (IF k \in {"start", "turn"} THEN {"malformed"} ELSE {}) :
       /\ \/ Dispatch(call[c].rpc, <<c, k>>, body)
          \/ k = "turn" /\ body = "ok" /\ UNCHANGED <<link, call>>
       /\ turn' = IF k = "turn" /\ body # "refused"
                  THEN [turn EXCEPT ![c].state = "running"] ELSE turn
  /\ UNCHANGED <<supervisor, bindings, faults>>

Draw(c) ==
  /\ Serving(c) /\ turn[c].state = "running" /\ ~turn[c].drawn /\ Heeded(c)
  /\ turn' = [turn EXCEPT ![c].drawn = TRUE]
  /\ Broadcast(call[c].rpc, [turn |-> c, kind |-> "image"])
  /\ UNCHANGED <<supervisor, bindings, atChild, faults>>

(* A turn is interrupted when it was asked for.                              *)
TurnEnds(c, status) ==
  /\ Serving(c) /\ turn[c].state = "running" /\ Heeded(c)
  /\ status = "interrupted" => call[c].pc = "settling"
  /\ turn' = [turn EXCEPT ![c].state = status]
  /\ Broadcast(call[c].rpc, [turn |-> c, kind |-> status])
  /\ UNCHANGED <<supervisor, bindings, atChild, faults>>

Break(g) ==
  /\ Fault
  /\ \/ link[g].child = "up" /\ Kill(g) /\ UNCHANGED call
     \/ Healthy(g) /\ StopReading(g) /\ UNCHANGED turn
  /\ UNCHANGED <<supervisor, bindings, atChild>>

ReadEof(g) ==
  /\ link[g].child = "dead" /\ StopReading(g)
  /\ UNCHANGED <<supervisor, bindings, atChild, turn, faults>>

-----------------------------------------------------------------------------
Codes == {"cancelled", "timeout"}

(* What the task of a call does when it is polled.                           *)
Proceed(c) ==
  \/ UseRunning(c) \/ StopFailed(c) \/ Launch(c) \/ Initialized(c)
  \/ Resolve(c) \/ Bind(c) \/ CheckOpen(c) \/ RefuseRequest(c) \/ Send(c)
  \/ Listen(c) \/ Settle(c)

(* The timers of a call.                                                     *)
Stop(c, code) == LeaveQueue(c, code) \/ GiveUp(c, code) \/ Cut(c, code)
Expire(c) == (Stop(c, "timeout") /\ UNCHANGED faults) \/ GraceOver(c)

Cancel(c) == Stop(c, "cancelled") /\ Fault

Child == \/ \E c \in Calls : \/ \E k \in Kinds : Handle(c, k)
                             \/ Draw(c)
                             \/ \E s \in Statuses : TurnEnds(c, s)
         \/ \E g \in Children : Break(g) \/ ReadEof(g)

Next ==
  \/ \E c \in Calls : Begin(c) \/ Proceed(c) \/ Expire(c) \/ Cancel(c) \/ Drop(c)
  \/ Shutdown \/ StopRunning
  \/ \E s \in Sessions : DeleteSession(s)
  \/ Child

(* A task is polled, its timers fire, the mutex of the supervisor is handed  *)
(* on in the order it was asked for.  The child owes nothing.                *)
Fairness == \A c \in Calls : /\ WF_vars(Proceed(c)) /\ WF_vars(Expire(c))
                              /\ SF_vars(UseRunning(c) \/ StopFailed(c))

Spec == Init /\ [][Next]_vars /\ Fairness

-----------------------------------------------------------------------------
Finished(c) == call[c].pc = "done"

(* provider.rs:627 "outcome: cancelled": of a call whose cancellation or     *)
(* timeout is not reported as unknown nothing more comes.  Either there was  *)
(* no turn, hence no image, and the child has no request left that would     *)
(* start one; or the turn ended without being completed.  Such a turn may    *)
(* have drawn images before it was interrupted: they are thrown away.        *)
CutsAreTruthful ==
  \A c \in Calls : Finished(c) /\ call[c].result \in {Known("cancelled"), Known("timeout")}
                 => /\ turn[c] = NoTurn \/ turn[c].state \in {"failed", "interrupted"}
                    /\ <<c, "turn">> \notin atChild

(* belongs_to(): a call succeeds with the images of its own turn, which is   *)
(* over, even where turns that were given up still draw on the connection.   *)
OutputIsOwn ==
  \A c \in Calls : Finished(c) /\ call[c].result = Success /\ Mode(c) # "ready"
                 => turn[c].state = "completed" /\ turn[c].drawn

(* process.rs: whatever callers, failures and a shutdown overlap, there is   *)
(* one child, and none once shutdown() has returned.                         *)
ChildrenAreOwned ==
  /\ \A g, h \in Children : link[g].child = "up" /\ link[h].child = "up" => g = h
  /\ supervisor.stop = "done" => \A g \in Children : link[g].child # "up"

(* Everything has one owner: a child its supervisor, the output of a turn    *)
(* the call that asked for it.                                               *)
Owned == TypeOK /\ ChildrenAreOwned /\ OutputIsOwn

(* resolve_thread(): whatever calls of a session overlap, it keeps its       *)
(* thread until it is deleted.                                               *)
BindingsAreStable ==
  [][\A s \in Sessions : bindings[s] # None => bindings'[s] \in {bindings[s], None}]_vars

(* rpc.rs:210: a request inserted after fail_connection() drained the table  *)
(* is answered by nobody; every call ends all the same, also when the child  *)
(* is silent, notifications are lost or the mutex is contended.              *)
EveryCallEnds == \A c \in Calls : call[c].pc # "idle" ~> Ended(c)

(* docs/limits.md: "The bridge never automatically retries: ... a timeout or *)
(* disconnect after upstream dispatch": a call that ends with its connection *)
(* while its turn is under way, or was cut off, reports no error after which *)
(* the next route is tried.                                                  *)
DisconnectNeverRerouted ==
  [][\A c \in Calls : \A policy \in Policies :
       /\ Awaits(c) /\ call[c].ask = "turn" /\ Finished(c)'
       /\ \E g \in Children : call[c].rpc = g /\ link'[g].closed
       /\ turn[c].state \in {"running", "lost"}
       => ~ShouldFallback(call'[c].result, policy)]_vars
=============================================================================
