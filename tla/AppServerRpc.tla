---------------------------- MODULE AppServerRpc ----------------------------
(***************************************************************************)
(* The connections of the bridge to `codex app-server` children, of        *)
(* crates/codex-app-server/src/rpc.rs: requests correlated by id, and      *)
(* notifications broadcast to whoever subscribed.  A call makes a request  *)
(* of each kind at most once, so that <<call, kind>> is its id.            *)
(*                                                                         *)
(* The read loop dispatches a line as soon as the child has written it     *)
(* here, and the future that waits for the reply goes on at once: that     *)
(* either takes its time is that the child does, or that the future gave   *)
(* up before.                                                              *)
(***************************************************************************)
EXTENDS AppServerCall

VARIABLE
  link  \* of each child: is it up, is it read, is its connection closed, what is pending

Ids     == Calls \X Kinds
Unborn  == [child |-> "unborn", reading |-> FALSE, closed |-> FALSE, pending |-> {}]
Started == [child |-> "up", reading |-> TRUE, closed |-> FALSE, pending |-> {}]
LinkOK  == link \in [Children -> [child : {"unborn", "up", "dead"}, reading : BOOLEAN,
                                  closed : BOOLEAN, pending : SUBSET Ids]]

Healthy(g) == g # None /\ link[g].child = "up" /\ ~link[g].closed

-----------------------------------------------------------------------------
(* fail_connection(): every pending caller gets the error, the connection is *)
(* closed for good.                                                          *)
Failed(g)   == [link EXCEPT ![g].closed = TRUE, ![g].pending = {}]
Notified(g) == [c \in Calls |-> IF Awaits(c) /\ Id(c) \in link[g].pending
                                THEN Replied(c, "closed") ELSE call[c]]

(* The read loop ends, at the end of the child's output or at what is no     *)
(* message, or one beyond the limits.                                        *)
StopReading(g) == /\ link[g].reading
                  /\ link' = [Failed(g) EXCEPT ![g].reading = FALSE]
                  /\ call' = Notified(g)

(* A request is written and flushed: it is pending; or the child is gone,    *)
(* and its caller goes on as in the second future.                           *)
Write(g, c, sent, failed) ==
  \/ /\ link[g].child = "up"
     /\ link' = [link EXCEPT ![g].pending = @ \cup {Id(c)}]
     /\ call' = [call EXCEPT ![c] = sent]
  \/ /\ link[g].child = "dead"
     /\ link' = Failed(g)
     /\ call' = [Notified(g) EXCEPT ![c] = failed]

(* dispatch_message() of a response: correlated by id, ignored when nobody   *)
(* waits for it.                                                             *)
Dispatch(g, id, body) ==
  IF link[g].reading /\ id \in link[g].pending
  THEN /\ link' = [link EXCEPT ![g].pending = @ \ {id}]
       /\ call' = IF Awaits(id[1]) /\ Id(id[1]) = id
                  THEN [call EXCEPT ![id[1]] = Replied(id[1], body)] ELSE call
  ELSE UNCHANGED <<link, call>>

(* A broadcast receiver keeps the last Ring messages and knows that it lost  *)
(* some.                                                                     *)
Push(m, n) ==
  IF Len(m.queue) < Ring THEN [m EXCEPT !.queue = Append(@, n)]
  ELSE [m EXCEPT !.queue = Append(Tail(@), n), !.lagged = TRUE]

(* dispatch_message() of a notification that is forwarded: to every          *)
(* subscriber of this connection, of whatever turn.                          *)
Broadcast(g, n) ==
  /\ call' = [c \in Calls |-> IF call[c].mail.hearing /\ call[c].rpc = g /\ link[g].reading
                              THEN [call[c] EXCEPT !.mail = Push(@, n)] ELSE call[c]]
  /\ UNCHANGED link
=============================================================================
