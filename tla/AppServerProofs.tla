-------------------------- MODULE AppServerProofs --------------------------
(***************************************************************************)
(* Proofs about AppServer: what a call reports of the turn it asked for,   *)
(* who owns the child processes, and what becomes of the bindings of a     *)
(* session, for any calls, sessions, children, faults and capacities.      *)
(***************************************************************************)
EXTENDS AppServer, TLAPS

(***************************************************************************)
(* The inductive invariant, in four parts: where a future can be (Placed), *)
(* what it knows and reports of its turn (Honest), whose the children are  *)
(* (Supervised), and who may write the binding of a session (Locked).      *)
(***************************************************************************)
Report == Error \cup {NoResult, Success}
Mail   == [hearing : BOOLEAN, lagged : BOOLEAN, queue : Seq(Notification)]
Future == [request : Request, pc : Pcs, rpc : Children \cup {None},
           ask : Kinds \cup {None}, thread : Threads \cup {None}, image : BOOLEAN,
           cut : Report, result : Report, mail : Mail]
Turn   == [state : {"none", "running", "lost"} \cup Statuses, drawn : BOOLEAN]
Supervisor == [running : Children \cup {None}, holder : Calls \cup {None},
               started : Children, generation : Nat, stop : {"no", "asked", "done"}]

Readiness     == {"account", "features"}
Requesting(k) == k.pc \in {"asking", "sending", "waiting"}

Placed(k) ==
  /\ k.request.mode = "persistent" <=> k.request.key # None
  /\ Requesting(k) => k.ask \in Kinds
  /\ Requesting(k) \/ k.pc \in {"launching", "session", "binding", "turning", "settling"}
       => k.rpc \in Children
  /\ k.request.mode = "ready" => /\ k.pc \notin {"session", "binding", "turning", "settling"}
                                 /\ Requesting(k) => k.ask \in Readiness
  /\ Requesting(k) /\ k.ask \in Readiness => k.request.mode = "ready"
  /\ k.pc = "binding" => k.request.mode = "persistent"
  /\ k.pc = "settling" \/ (Requesting(k) /\ k.ask = "interrupt")
       => k.cut \in Error /\ ~k.cut.unknown
  /\ k.result # NoResult => k.pc = "done" \/ (Requesting(k) /\ k.ask = "archive")

(* The request for the turn is not written yet.                              *)
Early(k) ==
  \/ k.pc \in {"idle", "queued", "pausing", "launching", "session", "binding"}
  \/ Requesting(k) /\ k.ask \in {"start", "resume"} \cup Readiness
  \/ k.pc \in {"asking", "sending"} /\ k.ask = "turn"

(* What the mail of c says of its own turn t.                                *)
Reports(c, queue, t) ==
  \A i \in DOMAIN queue :
    queue[i].turn = c => /\ queue[i].kind = "image" => t.drawn
                         /\ queue[i].kind \in Statuses => t.state = queue[i].kind

(* t is the turn of c, pending is whether the child has yet to start it.     *)
Honest(c, k, t, pending) ==
  /\ Early(k) => t = NoTurn /\ ~pending
  /\ pending => t = NoTurn
  /\ k.image => t.drawn
  /\ Reports(c, k.mail.queue, t)
  /\ k.result \in {Known("cancelled"), Known("timeout")} =>
       (t = NoTurn \/ t.state \in {"failed", "interrupted"}) /\ ~pending
  /\ k.result = Success /\ k.request.mode # "ready" => t.state = "completed" /\ t.drawn

Good(c, k, t, pending) ==
  /\ k \in Future /\ Len(k.mail.queue) <= Ring
  /\ Placed(k) /\ Honest(c, k, t, pending)

Pending(c) == <<c, "turn">> \in atChild

Launching(k) == k.pc \in {"pausing", "launching"}

Supervised(cl, lk, sp) ==
  /\ \A c \in Calls : Launching(cl[c]) <=> sp.holder = c
  /\ sp.holder # None => sp.running = None
  /\ \A g \in Children :
       lk[g].child = "up" =>
         sp.running = g \/ \E c \in Calls : cl[c].pc = "launching" /\ cl[c].rpc = g
  /\ sp.stop = "done" => sp.running = None /\ sp.holder = None

(* A call with the lock of its session, and one that will bind a thread.     *)
Locks(k) == /\ k.request.mode = "persistent"
            /\ k.pc \in {"asking", "sending", "waiting", "binding", "turning", "settling"}
Binds(k) == /\ k.request.mode = "persistent"
            /\ k.pc = "binding" \/ (Requesting(k) /\ k.ask = "start")

Locked(cl, bd) ==
  /\ \A c, d \in Calls :
       c # d /\ Locks(cl[c]) /\ Locks(cl[d]) => cl[c].request.key # cl[d].request.key
  /\ \A c \in Calls : Binds(cl[c]) => bd[cl[c].request.key] = None

Types ==
  /\ LinkOK
  /\ call \in [Calls -> Future]
  /\ supervisor \in Supervisor
  /\ bindings \in [Sessions -> Threads \cup {None}]
  /\ atChild \subseteq Ids
  /\ turn \in [Calls -> Turn]
  /\ faults \in 0..MaxFaults

IInv ==
  /\ Types
  /\ \A c \in Calls : Good(c, call[c], turn[c], Pending(c))
  /\ Supervised(call, link, supervisor)
  /\ Locked(call, bindings)

-----------------------------------------------------------------------------
(* What a step makes of one future: it neither takes the lock of a session   *)
(* nor comes to bind a thread, and it has as much to do with the mutex of    *)
(* the supervisor as before.                                                 *)
Moves(k, n) ==
  n.request = k.request /\ (Locks(n) => Locks(k)) /\ (Binds(n) => Binds(k))

Quiet(k, n) ==
  /\ Launching(n) <=> Launching(k)
  /\ Launching(n) => n.pc = k.pc /\ n.rpc = k.rpc

(* An error that is true of turn t.                                          *)
Told(k, error, t, pending) ==
  /\ error \in Report
  /\ error \in {Known("cancelled"), Known("timeout")} =>
       (t = NoTurn \/ t.state \in {"failed", "interrupted"}) /\ ~pending
  /\ error = Success /\ k.request.mode # "ready" => t.state = "completed" /\ t.drawn

LEMMA PlainTold ==
  ASSUME NEW k, NEW t, NEW pending, NEW code \in ErrorCode
  PROVE  /\ Unknown(code) \in Error /\ Told(k, Unknown(code), t, pending)
         /\ Known(code) \in Error /\ ~Known(code).unknown /\ Known(code) \in Report
         /\ code \notin {"cancelled", "timeout"} => Told(k, Known(code), t, pending)
  <1>1. code # "ok" /\ code # "none"
        BY DEF ErrorCode
  <1>2. QED
        BY <1>1 DEF Told, Report, Known, Unknown, Error, Success, NoResult

LEMMA TailReports ==
  ASSUME NEW c, NEW t, NEW queue \in Seq(Notification), queue # <<>>, Reports(c, queue, t)
  PROVE  /\ Tail(queue) \in Seq(Notification) /\ Len(Tail(queue)) <= Len(queue)
         /\ Reports(c, Tail(queue), t)
  <1>1. Tail(queue) \in Seq(Notification) /\ Len(Tail(queue)) = Len(queue) - 1
        OBVIOUS
  <1>2. \A i \in DOMAIN Tail(queue) : i + 1 \in DOMAIN queue /\ Tail(queue)[i] = queue[i + 1]
        OBVIOUS
  <1>3. QED
        BY <1>1, <1>2 DEF Reports

LEMMA AppendReports ==
  ASSUME NEW c, NEW t, NEW queue \in Seq(Notification), Reports(c, queue, t),
         NEW n \in Notification,
         n.turn = c => /\ n.kind = "image" => t.drawn
                       /\ n.kind \in Statuses => t.state = n.kind
  PROVE  /\ Append(queue, n) \in Seq(Notification)
         /\ Len(Append(queue, n)) = Len(queue) + 1
         /\ Reports(c, Append(queue, n), t)
  <1>1. /\ Append(queue, n) \in Seq(Notification)
        /\ Len(Append(queue, n)) = Len(queue) + 1
        OBVIOUS
  <1>2. \A i \in DOMAIN Append(queue, n) :
          Append(queue, n)[i] = n \/ (i \in DOMAIN queue /\ Append(queue, n)[i] = queue[i])
        OBVIOUS
  <1>3. QED
        BY <1>1, <1>2 DEF Reports

-----------------------------------------------------------------------------
(* The futures that provider.rs goes on with, and why what they know of the  *)
(* turn stays true.                                                          *)
LEMMA NewIs ==
  ASSUME NEW r \in Request
  PROVE  /\ NewCall(r) \in Future
         /\ NewCall(r).request = r /\ NewCall(r).image = FALSE /\ NewCall(r).pc = "idle"
         /\ NewCall(r).mail = NoMail /\ NewCall(r).mail.queue = <<>>
         /\ NewCall(r).result = NoResult
  <1>1. NoMail \in Mail /\ NoMail.queue = <<>>
        BY DEF NoMail, Mail
  <1>2. "idle" \in Pcs /\ NoResult \in Report
        BY DEF Pcs, Report
  <1>3. QED
        BY <1>1, <1>2 DEF NewCall, Future

LEMMA EmptyMail ==
  ASSUME NEW c, NEW t
  PROVE  Reports(c, <<>>, t) /\ Len(<<>>) <= Ring
  BY AppServerAssumption DEF Reports

LEMMA EndIs ==
  ASSUME NEW c \in Calls, NEW t, NEW pending, Good(c, call[c], t, pending),
         NEW error, Told(call[c], error, t, pending)
  PROVE  /\ Good(c, End(c, error), t, pending) /\ End(c, error).pc = "done"
         /\ Moves(call[c], End(c, error)) /\ ~Launching(End(c, error))
  <1> DEFINE k == call[c]
             n == End(c, error)
  <1>1. /\ k \in Future /\ k.request \in Request /\ k.rpc \in Children \cup {None}
        /\ Placed(k) /\ Honest(c, k, t, pending) /\ error \in Report
        BY DEF Good, Future, Told
  <1>2. /\ n \in Future /\ n.request = k.request /\ n.image = FALSE /\ n.mail.queue = <<>>
        /\ n.pc = "done" /\ n.result = error
        <2>1. "done" \in Pcs
              BY DEF Pcs
        <2> DEFINE new == NewCall(k.request)
        <2>2. /\ new \in Future /\ new.request = k.request /\ new.image = FALSE
              /\ new.mail.queue = <<>>
              BY <1>1, NewIs
        <2>3. n = [new EXCEPT !.pc = "done", !.rpc = k.rpc, !.result = error]
              BY DEF End
        <2> HIDE DEF n, new
        <2>4. QED
              BY <1>1, <2>1, <2>2, <2>3 DEF Future
  <1> HIDE DEF n
  <1>3. Placed(n)
        BY <1>1, <1>2 DEF Placed, Requesting
  <1>4. Honest(c, n, t, pending)
        <2>1. ~Early(n)
              BY <1>2 DEF Early, Requesting
        <2>2. Reports(c, n.mail.queue, t)
              BY <1>2, EmptyMail
        <2>3. pending => t = NoTurn
              BY <1>1 DEF Honest
        <2>4. QED
              BY <1>2, <2>1, <2>2, <2>3 DEF Honest, Told
  <1>5. Good(c, n, t, pending)
        BY <1>2, <1>3, <1>4, EmptyMail DEF Good
  <1>6. Moves(k, n) /\ ~Launching(n)
        BY <1>2 DEF Moves, Locks, Binds, Requesting, Launching
  <1>7. QED
        BY <1>2, <1>5, <1>6 DEF n

(* A request that does not yet have to do with the turn, or does no more.    *)
LEMMA AskIs ==
  ASSUME NEW c \in Calls, NEW t, NEW pending, Good(c, call[c], t, pending),
         NEW kind \in Kinds \ {"start"}, call[c].rpc \in Children, call[c].result = NoResult,
         kind \in Readiness <=> Mode(c) = "ready",
         kind = "interrupt" => call[c].cut \in Error /\ ~call[c].cut.unknown,
         kind \in {"resume", "turn"} \cup Readiness => t = NoTurn /\ ~pending,
         Mode(c) = "persistent" => Locks(call[c])
  PROVE  LET n == Ask(c, kind)
         IN  /\ Good(c, n, t, pending) /\ n.pc = "asking" /\ n.ask = kind
             /\ n.request = call[c].request /\ n.mail = call[c].mail
             /\ Moves(call[c], n) /\ ~Launching(n)
  <1> DEFINE k == call[c]
             n == Ask(c, kind)
  <1>1. /\ k \in Future /\ Len(k.mail.queue) <= Ring
        /\ Placed(k) /\ Honest(c, k, t, pending) /\ Mode(c) = k.request.mode
        BY DEF Good, Mode
  <1>2. /\ n \in Future /\ n.request = k.request /\ n.image = k.image /\ n.mail = k.mail
        /\ n.pc = "asking" /\ n.ask = kind /\ n.rpc = k.rpc /\ n.result = k.result
        /\ n.cut = k.cut
        <2>1. "asking" \in Pcs
              BY DEF Pcs
        <2>2. QED
              BY <1>1, <2>1 DEF Ask, Future
  <1> HIDE DEF n
  <1>3. Placed(n)
        BY <1>1, <1>2 DEF Placed, Requesting
  <1>4. Honest(c, n, t, pending)
        <2>1. Early(n) => kind \in {"resume", "turn"} \cup Readiness
              BY <1>2 DEF Early, Requesting
        <2>2. n.result \notin {Known("cancelled"), Known("timeout"), Success}
              BY <1>2 DEF NoResult, Success, Known
        <2>3. QED
              BY <1>1, <1>2, <2>1, <2>2 DEF Honest
  <1>5. Good(c, n, t, pending)
        BY <1>1, <1>2, <1>3, <1>4 DEF Good
  <1>6. Moves(k, n) /\ ~Launching(n)
        <2>1. ~Binds(n) /\ ~Launching(n)
              BY <1>2 DEF Binds, Launching, Requesting
        <2>2. Locks(n) => Locks(k)
              BY <1>1, <1>2 DEF Locks
        <2>3. QED
              BY <1>2, <2>1, <2>2 DEF Moves
  <1>7. QED
        BY <1>2, <1>5, <1>6 DEF n

(* The archival of an isolated thread keeps the result for its end.          *)
LEMMA ConcludeIs ==
  ASSUME NEW c \in Calls, NEW t, NEW pending, Good(c, call[c], t, pending),
         NEW error, Told(call[c], error, t, pending),
         Mode(c) # "ready" => call[c].rpc \in Children
  PROVE  LET n == Conclude(c, error)
         IN  /\ Good(c, n, t, pending) /\ Moves(call[c], n) /\ ~Launching(n)
             /\ n.mail.queue = <<>>
  <1> DEFINE k == call[c]
             n == Conclude(c, error)
  <1>1. CASE Mode(c) = "isolated" /\ k.thread # None
        <2>1. /\ k \in Future /\ Placed(k) /\ Honest(c, k, t, pending) /\ error \in Report
              /\ k.rpc \in Children /\ k.request.mode = "isolated" /\ NoResult \in Report
              BY <1>1 DEF Good, Told, Mode, Report
        <2>2. NoMail \in Mail /\ NoMail.queue = <<>> /\ "asking" \in Pcs /\ "archive" \in Kinds
              BY DEF NoMail, Mail, Pcs, Kinds
        <2>3. n = [k EXCEPT !.pc = "asking", !.ask = "archive", !.result = error, !.image = FALSE,
                            !.cut = NoResult, !.mail = NoMail]
              BY <1>1, <2>1 DEF Conclude, Ask, Future
        <2>4. /\ n \in Future /\ n.request = k.request /\ n.image = FALSE
              /\ n.mail.queue = <<>> /\ n.pc = "asking" /\ n.ask = "archive"
              /\ n.rpc = k.rpc /\ n.result = error
              <3> HIDE DEF n
              <3>1. QED
                    BY <2>1, <2>2, <2>3 DEF Future
        <2> HIDE DEF n
        <2>5. Placed(n)
              BY <2>1, <2>2, <2>4 DEF Placed, Requesting, Readiness
        <2>6. Honest(c, n, t, pending)
              <3>1. ~Early(n)
                    BY <2>4 DEF Early, Requesting, Readiness
              <3>2. Reports(c, n.mail.queue, t)
                    BY <2>4, EmptyMail
              <3>3. pending => t = NoTurn
                    BY <2>1 DEF Honest
              <3>4. QED
                    BY <2>4, <3>1, <3>2, <3>3 DEF Honest, Told
        <2>7. Good(c, n, t, pending)
              BY <2>4, <2>5, <2>6, EmptyMail DEF Good
        <2>8. Moves(k, n) /\ ~Launching(n)
              BY <2>1, <2>4 DEF Moves, Locks, Binds, Launching
        <2>9. QED
              BY <2>4, <2>7, <2>8 DEF n
  <1>2. CASE ~(Mode(c) = "isolated" /\ k.thread # None)
        <2>1. n = End(c, error)
              BY <1>2 DEF Conclude
        <2>2. n.mail.queue = <<>>
              <3>1. k \in Future /\ k.request \in Request
                    BY DEF Good, Future
              <3>2. NewCall(k.request) \in Future /\ NewCall(k.request).mail.queue = <<>>
                    BY <3>1, NewIs
              <3>3. QED
                    BY <2>1, <3>2 DEF End, Future
        <2>3. QED
              BY <2>1, <2>2, EndIs
  <1>3. QED
        BY <1>1, <1>2

LEMMA InterruptIs ==
  ASSUME NEW c \in Calls, NEW t, NEW pending, Good(c, call[c], t, pending),
         call[c].pc = "turning", NEW code \in ErrorCode
  PROVE  LET n == Interrupt(c, Known(code))
         IN  Good(c, n, t, pending) /\ Moves(call[c], n) /\ ~Launching(n)
  <1> DEFINE k == call[c]
             m == Ask(c, "interrupt")
             n == Interrupt(c, Known(code))
  <1>1. /\ k \in Future /\ Len(k.mail.queue) <= Ring
        /\ Placed(k) /\ Honest(c, k, t, pending)
        BY DEF Good
  <1>2. Known(code) \in Error /\ Known(code) \in Report /\ ~Known(code).unknown
        BY PlainTold
  <1>3. /\ n \in Future /\ n.request = k.request /\ n.image = k.image /\ n.mail = k.mail
        /\ n.pc = "asking" /\ n.ask = "interrupt" /\ n.rpc = k.rpc /\ n.result = k.result
        /\ n.cut = Known(code)
        <2>1. "asking" \in Pcs /\ "interrupt" \in Kinds
              BY DEF Pcs, Kinds
        <2>2. QED
              BY <1>1, <1>2, <2>1 DEF Interrupt, Ask, Future
  <1> HIDE DEF n
  <1>4. k.request.mode # "ready" /\ k.rpc \in Children /\ k.result = NoResult
        BY <1>1 DEF Placed, Requesting
  <1>5. Placed(n)
        BY <1>1, <1>2, <1>3, <1>4 DEF Placed, Requesting, Readiness, Kinds
  <1>6. Honest(c, n, t, pending)
        <2>1. ~Early(n)
              BY <1>3 DEF Early, Requesting, Readiness
        <2>2. QED
              BY <1>1, <1>3, <2>1 DEF Honest
  <1>7. Moves(k, n) /\ ~Launching(n)
        BY <1>3 DEF Moves, Locks, Binds, Launching, Requesting
  <1>8. QED
        BY <1>1, <1>3, <1>5, <1>6, <1>7 DEF Good, n

LEMMA UnconfirmedIs ==
  ASSUME NEW c \in Calls, NEW t, NEW pending, Good(c, call[c], t, pending),
         call[c].pc = "settling" \/ (Requesting(call[c]) /\ call[c].ask = "interrupt")
  PROVE  LET n == Unconfirmed(c)
         IN  Good(c, n, t, pending) /\ Moves(call[c], n) /\ ~Launching(n)
  <1>1. call[c].cut \in Error /\ call[c].rpc \in Children
        BY DEF Good, Placed
  <1>2. Told(call[c], Unknown(call[c].cut.code), t, pending)
        BY <1>1, PlainTold DEF Error
  <1>3. QED
        BY <1>1, <1>2, ConcludeIs DEF Unconfirmed

LEMMA RequestFailedIs ==
  ASSUME NEW c \in Calls, NEW t, NEW pending, Good(c, call[c], t, pending),
         Requesting(call[c]),
         NEW error, call[c].ask \notin {"interrupt", "archive"} => Told(call[c], error, t, pending)
  PROVE  LET n == RequestFailed(c, error)
         IN  Good(c, n, t, pending) /\ Moves(call[c], n) /\ ~Launching(n)
  <1>1. call[c].rpc \in Children
        BY DEF Good, Placed
  <1>2. CASE call[c].ask = "interrupt"
        BY <1>2, UnconfirmedIs DEF RequestFailed
  <1>3. CASE call[c].ask = "archive"
        <2>1. Told(call[c], call[c].result, t, pending)
              BY DEF Good, Honest, Told, Future
        <2>2. QED
              BY <1>3, <2>1, EndIs DEF RequestFailed
  <1>4. CASE call[c].ask \notin {"interrupt", "archive"}
        BY <1>1, <1>4, ConcludeIs DEF RequestFailed
  <1>5. QED
        BY <1>2, <1>3, <1>4

(* The places after a good reply that are not requests.                      *)
LEMMA ReplyIs ==
  ASSUME NEW c \in Calls, NEW t, NEW pending, Good(c, call[c], t, pending),
         Requesting(call[c]), NEW n \in Future,
         n.request = call[c].request, n.rpc = call[c].rpc, n.ask = call[c].ask,
         n.image = call[c].image, n.cut = call[c].cut, n.result = call[c].result,
         n.mail = call[c].mail,
         \/ n.pc = "binding" /\ n.ask = "start" /\ Mode(c) = "persistent"
         \/ n.pc = "turning" /\ n.ask = "turn"
         \/ n.pc = "settling" /\ n.ask = "interrupt"
  PROVE  Good(c, n, t, pending) /\ Moves(call[c], n) /\ ~Launching(n)
  <1> DEFINE k == call[c]
  <1>1. /\ Placed(k) /\ Honest(c, k, t, pending) /\ Mode(c) = k.request.mode
        BY DEF Good, Mode
  <1>2. /\ k.ask \notin Readiness /\ k.request.mode # "ready" /\ k.rpc \in Children
        /\ k.result = NoResult
        BY <1>1 DEF Placed, Readiness, Requesting
  <1>3. Placed(n)
        BY <1>1, <1>2 DEF Placed, Requesting
  <1>4. Early(n) => Early(k)
        BY DEF Early, Requesting
  <1>5. Honest(c, n, t, pending)
        BY <1>1, <1>4 DEF Honest
  <1>6. Moves(k, n) /\ ~Launching(n)
        BY <1>1 DEF Moves, Locks, Binds, Launching, Requesting
  <1>7. QED
        BY <1>3, <1>5, <1>6 DEF Good

LEMMA AnsweredIs ==
  ASSUME NEW c \in Calls, NEW t, NEW pending, Good(c, call[c], t, pending),
         Requesting(call[c])
  PROVE  LET n == Answered(c)
         IN  Good(c, n, t, pending) /\ Moves(call[c], n) /\ ~Launching(n)
  <1> DEFINE k == call[c]
  <1>1. /\ k \in Future /\ k.ask \in Kinds /\ k.rpc \in Children
        /\ Placed(k) /\ Honest(c, k, t, pending) /\ Mode(c) = k.request.mode
        /\ {"binding", "turning", "settling"} \subseteq Pcs
        BY DEF Good, Placed, Mode, Pcs
  <1>2. c \in Threads \cup {None}
        BY DEF Threads
  <1>3. CASE k.ask = "start" /\ Mode(c) = "persistent"
        <2> DEFINE n == [k EXCEPT !.pc = "binding", !.thread = c]
        <2>1. Answered(c) = n
              BY <1>3 DEF Answered
        <2>2. /\ n \in Future /\ n.request = k.request /\ n.rpc = k.rpc /\ n.ask = k.ask
              /\ n.image = k.image /\ n.cut = k.cut /\ n.result = k.result /\ n.mail = k.mail
              /\ n.pc = "binding"
              BY <1>1, <1>2 DEF Future
        <2> HIDE DEF n
        <2>3. QED
              BY <1>3, <2>1, <2>2, ReplyIs
  <1>4. CASE k.ask = "start" /\ Mode(c) # "persistent"
        <2> DEFINE m == Ask(c, "turn")
                   n == [m EXCEPT !.thread = c]
        <2>1. Answered(c) = n
              BY <1>4 DEF Answered
        <2>2. /\ k.result = NoResult /\ Mode(c) # "ready" /\ t = NoTurn /\ ~pending
              BY <1>1, <1>4 DEF Placed, Honest, Early, Readiness, Requesting
        <2>3. "turn" \in Kinds \ {"start"} /\ "turn" \notin Readiness
              BY DEF Kinds, Readiness
        <2>4. Good(c, m, t, pending) /\ Moves(k, m) /\ ~Launching(m)
              BY <1>1, <1>4, <2>2, <2>3, AskIs
        <2> HIDE DEF m
        <2>5. /\ n \in Future /\ n.request = m.request /\ n.rpc = m.rpc /\ n.ask = m.ask
              /\ n.image = m.image /\ n.cut = m.cut /\ n.result = m.result /\ n.mail = m.mail
              /\ n.pc = m.pc
              BY <1>2, <2>4 DEF Good, Future
        <2> HIDE DEF n
        <2>6. Good(c, n, t, pending)
              BY <2>4, <2>5 DEF Good, Placed, Honest, Early, Requesting
        <2>7. Moves(k, n) /\ ~Launching(n)
              BY <2>4, <2>5 DEF Moves, Locks, Binds, Requesting, Launching
        <2>8. QED
              BY <2>1, <2>6, <2>7
  <1>5. CASE k.ask \in {"resume", "account"}
        <2>1. Answered(c) = Ask(c, IF k.ask = "resume" THEN "turn" ELSE "features")
              BY <1>5 DEF Answered
        <2>2. k.result = NoResult /\ t = NoTurn /\ ~pending
              BY <1>1, <1>5 DEF Placed, Honest, Early, Readiness, Requesting
        <2>3. Mode(c) = "persistent" => Locks(k)
              BY <1>1 DEF Locks, Requesting
        <2>4. CASE k.ask = "resume"
              <3>1. "turn" \in Kinds \ {"start"} /\ "turn" \notin Readiness /\ Mode(c) # "ready"
                    BY <1>1, <2>4 DEF Kinds, Readiness, Placed
              <3>2. QED
                    BY <1>1, <2>1, <2>2, <2>3, <2>4, <3>1, AskIs
        <2>5. CASE k.ask = "account"
              <3>1. "features" \in Kinds \ {"start"} /\ "features" \in Readiness /\ Mode(c) = "ready"
                    BY <1>1, <2>5 DEF Kinds, Readiness, Placed
              <3>2. QED
                    BY <1>1, <2>1, <2>2, <2>3, <2>5, <3>1, AskIs
        <2>6. QED
              BY <1>5, <2>4, <2>5
  <1>6. CASE k.ask \in {"turn", "interrupt"}
        <2> DEFINE n == [k EXCEPT !.pc = IF k.ask = "turn" THEN "turning" ELSE "settling"]
        <2>1. Answered(c) = n
              BY <1>6 DEF Answered
        <2>2. /\ n \in Future /\ n.request = k.request /\ n.rpc = k.rpc /\ n.ask = k.ask
              /\ n.image = k.image /\ n.cut = k.cut /\ n.result = k.result /\ n.mail = k.mail
              /\ n.pc = IF k.ask = "turn" THEN "turning" ELSE "settling"
              BY <1>1 DEF Future
        <2> HIDE DEF n
        <2>3. QED
              BY <1>6, <2>1, <2>2, ReplyIs
  <1>7. CASE k.ask = "archive"
        <2>1. Told(k, k.result, t, pending)
              BY <1>1 DEF Honest, Told, Future
        <2>2. QED
              BY <1>7, <2>1, EndIs DEF Answered
  <1>8. CASE k.ask = "features"
        <2>1. Mode(c) = "ready"
              BY <1>1, <1>8 DEF Placed, Readiness
        <2>2. Told(k, Success, t, pending)
              BY <1>1, <2>1 DEF Told, Success, Known, Report
        <2>3. QED
              BY <1>8, <2>2, EndIs DEF Answered
  <1>9. QED
        BY <1>1, <1>3, <1>4, <1>5, <1>6, <1>7, <1>8 DEF Kinds

LEMMA RepliedIs ==
  ASSUME NEW c \in Calls, NEW t, NEW pending, Good(c, call[c], t, pending),
         Requesting(call[c]), NEW body
  PROVE  LET n == Replied(c, body)
         IN  Good(c, n, t, pending) /\ Moves(call[c], n) /\ ~Launching(n)
  <1>1. CASE body = "ok"
        BY <1>1, AnsweredIs DEF Replied
  <1>2. CASE body # "ok"
        <2>1. /\ Told(call[c], Known("protocol"), t, pending)
              /\ Told(call[c], Refusal(c), t, pending)
              <3>1. {"protocol", "authentication", "unsupported_capability", "upstream"}
                       \subseteq ErrorCode \ {"cancelled", "timeout"}
                    BY DEF ErrorCode
              <3>2. QED
                    BY <3>1, PlainTold DEF Refusal
        <2>2. Replied(c, body) \in {RequestFailed(c, Refusal(c)), RequestFailed(c, Known("protocol"))}
              BY <1>2 DEF Replied
        <2>3. QED
              BY <2>1, <2>2, RequestFailedIs
  <1>3. QED
        BY <1>1, <1>2

-----------------------------------------------------------------------------
(* A future with other mail, and what run_turn() and interrupt_and_confirm() *)
(* do with theirs.                                                           *)
LEMMA MailIs ==
  ASSUME NEW c \in Calls, NEW t, NEW pending, NEW f, Good(c, f, t, pending),
         NEW mail \in Mail, Len(mail.queue) <= Ring, Reports(c, mail.queue, t)
  PROVE  LET n == [f EXCEPT !.mail = mail]
         IN  /\ Good(c, n, t, pending) /\ n.mail = mail
             /\ n.pc = f.pc /\ n.rpc = f.rpc
             /\ \A k : Moves(k, f) => Moves(k, n)
  <1> DEFINE n == [f EXCEPT !.mail = mail]
  <1>1. f \in Future /\ Placed(f) /\ Honest(c, f, t, pending)
        BY DEF Good
  <1>2. /\ n \in Future /\ n.request = f.request /\ n.rpc = f.rpc /\ n.ask = f.ask
        /\ n.image = f.image /\ n.cut = f.cut /\ n.result = f.result /\ n.mail = mail
        /\ n.pc = f.pc
        BY <1>1 DEF Future
  <1> HIDE DEF n
  <1>3. Placed(n) /\ (Early(n) <=> Early(f))
        BY <1>1, <1>2 DEF Placed, Requesting, Early
  <1>4. Honest(c, n, t, pending)
        BY <1>1, <1>2, <1>3 DEF Honest
  <1>5. \A k : Moves(k, f) => Moves(k, n)
        BY <1>2 DEF Moves, Locks, Binds, Requesting
  <1>6. QED
        BY <1>2, <1>3, <1>4, <1>5 DEF Good, n

(* A future that is done with the first of its messages, if it still listens.*)
Rest(f) == [f EXCEPT !.mail.queue = IF @ = <<>> THEN @ ELSE Tail(@)]

LEMMA TailIs ==
  ASSUME NEW c \in Calls, NEW t, NEW pending, NEW f, Good(c, f, t, pending)
  PROVE  /\ Good(c, Rest(f), t, pending)
         /\ Rest(f).pc = f.pc /\ Rest(f).rpc = f.rpc
         /\ \A k : Moves(k, f) => Moves(k, Rest(f))
  <1> DEFINE q    == f.mail.queue
             rest == IF q = <<>> THEN q ELSE Tail(q)
             m    == [f.mail EXCEPT !.queue = rest]
             n    == Rest(f)
  <1>1. /\ f \in Future /\ f.mail \in Mail /\ q \in Seq(Notification) /\ Len(q) <= Ring
        /\ Reports(c, q, t)
        BY DEF Good, Honest, Future, Mail
  <1>2. rest \in Seq(Notification) /\ Len(rest) <= Len(q) /\ Reports(c, rest, t)
        BY <1>1, TailReports
  <1>3. Len(rest) <= Ring
        BY <1>1, <1>2, AppServerAssumption
  <1> HIDE DEF rest
  <1>4. m \in Mail /\ m.queue = rest
        BY <1>1, <1>2 DEF Mail
  <1>5. n = [f EXCEPT !.mail = m]
        BY <1>1 DEF Rest, Future, Mail, rest
  <1> HIDE DEF m
  <1>6. LET x == [f EXCEPT !.mail = m]
        IN  /\ Good(c, x, t, pending) /\ x.pc = f.pc /\ x.rpc = f.rpc
            /\ \A k : Moves(k, f) => Moves(k, x)
        BY <1>2, <1>3, <1>4, MailIs
  <1> HIDE DEF n
  <1>7. /\ Good(c, n, t, pending) /\ n.pc = f.pc /\ n.rpc = f.rpc
        /\ \A k : Moves(k, f) => Moves(k, n)
        BY <1>5, <1>6
  <1>8. QED
        BY <1>7 DEF n

LEMMA HeardIs ==
  ASSUME NEW c \in Calls, NEW t, NEW pending, Good(c, call[c], t, pending),
         call[c].pc = "turning", NEW kind,
         kind = "image" => t.drawn, kind \in Statuses => t.state = kind,
         NEW n \in Heard(c, kind)
  PROVE  Good(c, n, t, pending) /\ Moves(call[c], n) /\ ~Launching(n)
  <1> DEFINE k == call[c]
  <1>1. /\ k \in Future /\ Placed(k) /\ Honest(c, k, t, pending) /\ k.rpc \in Children
        BY DEF Good, Placed
  <1>2. {"protocol", "upstream"} \subseteq ErrorCode \ {"cancelled", "timeout"}
        BY DEF ErrorCode
  <1>3. Told(k, Known("protocol"), t, pending) /\ Told(k, Known("upstream"), t, pending)
        BY <1>2, PlainTold
  <1>4. CASE kind = "image" /\ n = [k EXCEPT !.image = TRUE]
        <2>1. /\ n \in Future /\ n.request = k.request /\ n.rpc = k.rpc /\ n.ask = k.ask
              /\ n.image = TRUE /\ n.cut = k.cut /\ n.result = k.result /\ n.mail = k.mail
              /\ n.pc = k.pc
              BY <1>1, <1>4 DEF Future
        <2>2. Placed(n) /\ (Early(n) <=> Early(k))
              BY <1>1, <2>1 DEF Placed, Requesting, Early
        <2>3. Honest(c, n, t, pending)
              BY <1>1, <1>4, <2>1, <2>2 DEF Honest
        <2>4. Moves(k, n) /\ ~Launching(n)
              BY <2>1 DEF Moves, Locks, Binds, Requesting, Launching
        <2>5. QED
              BY <2>1, <2>2, <2>3, <2>4 DEF Good
  <1>5. CASE n = Interrupt(c, Known("protocol"))
        BY <1>2, <1>5, InterruptIs
  <1>6. CASE kind = "completed" /\ k.image /\ n = Conclude(c, Success)
        <2>1. Told(k, Success, t, pending)
              BY <1>1, <1>6 DEF Told, Report, Success, Known, Honest, Statuses
        <2>2. QED
              BY <1>1, <1>6, <2>1, ConcludeIs
  <1>7. CASE n \in {Conclude(c, Known("protocol")), Conclude(c, Known("upstream"))}
        BY <1>1, <1>3, <1>7, ConcludeIs
  <1>8. QED
        BY <1>4, <1>5, <1>6, <1>7 DEF Heard

LEMMA ConfirmedIs ==
  ASSUME NEW c \in Calls, NEW t, NEW pending, Good(c, call[c], t, pending),
         call[c].pc = "settling", NEW kind, kind \in Statuses => t.state = kind
  PROVE  LET n == Confirmed(c, kind)
         IN  Good(c, n, t, pending) /\ Moves(call[c], n) /\ ~Launching(n)
  <1> DEFINE k == call[c]
  <1>1. /\ Honest(c, k, t, pending) /\ k.rpc \in Children /\ k.cut \in Error /\ ~k.cut.unknown
        BY DEF Good, Placed
  <1>2. CASE kind \in {"interrupted", "failed"}
        <2>1. t.state = kind
              BY <1>2 DEF Statuses
        <2>2. ~pending
              BY <1>1, <1>2, <2>1 DEF Honest, NoTurn
        <2>3. k.cut # Success
              BY <1>1 DEF Success, Known, Error, ErrorCode
        <2>4. Told(k, k.cut, t, pending)
              BY <1>1, <1>2, <2>1, <2>2, <2>3 DEF Told, Report
        <2>5. QED
              BY <1>1, <1>2, <2>4, ConcludeIs DEF Confirmed
  <1>3. CASE kind = "completed"
        BY <1>3, UnconfirmedIs DEF Confirmed
  <1>4. CASE kind \notin {"interrupted", "failed", "completed"}
        <2>1. Confirmed(c, kind) = k
              BY <1>4 DEF Confirmed
        <2>2. Moves(k, k) /\ ~Launching(k)
              BY DEF Moves, Launching
        <2>3. QED
              BY <2>1, <2>2
  <1>5. QED
        BY <1>2, <1>3, <1>4

(* recv() of a listener, whatever the message: what is heard is of its turn, *)
(* or skipped.                                                               *)
LEMMA ReceiveIs ==
  ASSUME NEW c \in Calls, NEW t, NEW pending, Good(c, call[c], t, pending),
         ~Launching(call[c]), NEW lost, NEW futures, Receive(c, lost, futures),
         Good(c, lost, t, pending), Moves(call[c], lost), ~Launching(lost),
         ~call[c].mail.lagged /\ call[c].mail.queue # <<>>
           /\ Head(call[c].mail.queue).turn = c =>
             \A n \in futures : Good(c, n, t, pending) /\ Moves(call[c], n) /\ ~Launching(n)
  PROVE  \E n : Set(c, n) /\ Good(c, n, t, pending) /\ Moves(call[c], n) /\ ~Launching(n)
  <1> DEFINE m == call[c].mail
  <1>1. CASE m.lagged
        BY <1>1 DEF Receive
  <1>2. CASE ~m.lagged
        <2>1. PICK f \in IF Head(m.queue).turn = c THEN futures ELSE {call[c]} :
                Set(c, Rest(f))
              BY <1>2 DEF Receive, Rest
        <2>2. m.queue # <<>>
              BY <1>2 DEF Receive
        <2>3. Moves(call[c], call[c])
              BY DEF Moves
        <2>4. Good(c, f, t, pending) /\ Moves(call[c], f) /\ ~Launching(f)
              BY <1>2, <2>1, <2>2, <2>3
        <2>5. /\ Good(c, Rest(f), t, pending) /\ Rest(f).pc = f.pc
              /\ Moves(call[c], Rest(f))
              <3>1. Good(c, f, t, pending)
                    BY <2>4
              <3>2. /\ Good(c, Rest(f), t, pending) /\ Rest(f).pc = f.pc
                    /\ \A k : Moves(k, f) => Moves(k, Rest(f))
                    BY ONLY c \in Calls, <3>1, TailIs
              <3>3. QED
                    BY <2>4, <3>2
        <2>6. ~Launching(Rest(f))
              BY <2>4, <2>5 DEF Launching
        <2>7. QED
              BY <2>1, <2>5, <2>6
  <1>3. QED
        BY <1>1, <1>2

LEMMA PushIs ==
  ASSUME NEW c \in Calls, NEW t, NEW pending, NEW k, Good(c, k, t, pending),
         NEW n \in Notification,
         n.turn = c => /\ n.kind = "image" => t.drawn
                       /\ n.kind \in Statuses => t.state = n.kind
  PROVE  LET f == [k EXCEPT !.mail = Push(@, n)]
         IN  Good(c, f, t, pending) /\ Moves(k, f) /\ Quiet(k, f)
  <1> DEFINE m == Push(k.mail, n)
             q == k.mail.queue
  <1>1. k.mail \in Mail /\ q \in Seq(Notification) /\ Len(q) <= Ring /\ Reports(c, q, t)
        BY DEF Good, Honest, Future, Mail
  <1>2. m \in Mail /\ Len(m.queue) <= Ring /\ Reports(c, m.queue, t)
        <2>1. CASE Len(q) < Ring
              <3>1. m = [k.mail EXCEPT !.queue = Append(q, n)]
                    BY <2>1 DEF Push
              <3>2. /\ Append(q, n) \in Seq(Notification) /\ Len(Append(q, n)) = Len(q) + 1
                    /\ Reports(c, Append(q, n), t)
                    BY <1>1, AppendReports
              <3>3. Len(Append(q, n)) <= Ring
                    BY <1>1, <2>1, <3>2, AppServerAssumption
              <3> HIDE DEF m
              <3>4. QED
                    BY <1>1, <3>1, <3>2, <3>3 DEF Mail
        <2>2. CASE ~(Len(q) < Ring)
              <3> DEFINE rest == Tail(q)
                         r == Append(rest, n)
              <3>1. m = [k.mail EXCEPT !.queue = r, !.lagged = TRUE]
                    BY <2>2 DEF Push
              <3>2. q # <<>>
                    BY <2>2, AppServerAssumption
              <3>3. rest \in Seq(Notification) /\ Len(rest) = Len(q) - 1 /\ Reports(c, rest, t)
                    BY <1>1, <3>2, TailReports
              <3> HIDE DEF rest
              <3>4. r \in Seq(Notification) /\ Len(r) = Len(rest) + 1 /\ Reports(c, r, t)
                    BY <3>3, AppendReports
              <3>5. Len(r) <= Ring
                    BY <1>1, <3>3, <3>4
              <3> HIDE DEF m, r
              <3>6. QED
                    BY <1>1, <3>1, <3>4, <3>5 DEF Mail
        <2>3. QED
              BY <2>1, <2>2
  <1> HIDE DEF m
  <1>3. LET f == [k EXCEPT !.mail = m]
        IN  /\ Good(c, f, t, pending) /\ f.pc = k.pc /\ f.rpc = k.rpc
            /\ \A x : Moves(x, k) => Moves(x, f)
        BY <1>2, MailIs
  <1>4. Moves(k, k)
        BY DEF Moves
  <1>5. QED
        BY <1>3, <1>4 DEF m, Quiet, Launching

-----------------------------------------------------------------------------
(* What the child does with a turn leaves true what its call knows of it.    *)
LEMMA TurnIs ==
  ASSUME NEW c \in Calls, NEW t \in Turn, t.state = "running", NEW pending,
         NEW k, Good(c, k, t, pending)
  PROVE  /\ Good(c, k, [t EXCEPT !.state = "lost"], pending)
         /\ Good(c, k, [t EXCEPT !.drawn = TRUE], pending)
         /\ \A status \in Statuses : Good(c, k, [t EXCEPT !.state = status], pending)
  <1>1. Honest(c, k, t, pending)
        BY DEF Good
  <1>2. ~Early(k) /\ ~pending
        BY <1>1 DEF Honest, NoTurn
  <1>3. k.result \notin {Known("cancelled"), Known("timeout")}
        BY <1>1 DEF Honest, NoTurn
  <1>4. ~(k.result = Success /\ k.request.mode # "ready")
        BY <1>1 DEF Honest
  <1>5. \A i \in DOMAIN k.mail.queue :
          k.mail.queue[i].turn = c =>
            /\ k.mail.queue[i].kind = "image" => t.drawn
            /\ k.mail.queue[i].kind \notin Statuses
        BY <1>1 DEF Honest, Reports, Statuses
  <1>6. ASSUME NEW t2 \in Turn, t.drawn => t2.drawn
        PROVE  Good(c, k, t2, pending)
        <2>1. Reports(c, k.mail.queue, t2)
              BY <1>5, <1>6 DEF Reports
        <2>2. k.image => t2.drawn
              BY <1>1, <1>6 DEF Honest
        <2>3. Honest(c, k, t2, pending)
              BY <1>2, <1>3, <1>4, <2>1, <2>2 DEF Honest
        <2>4. QED
              BY <2>3 DEF Good
  <1>7. /\ [t EXCEPT !.state = "lost"] \in Turn /\ [t EXCEPT !.drawn = TRUE] \in Turn
        /\ \A status \in Statuses : [t EXCEPT !.state = status] \in Turn
        BY DEF Turn
  <1>8. /\ [t EXCEPT !.state = "lost"].drawn = t.drawn /\ [t EXCEPT !.drawn = TRUE].drawn
        /\ \A status \in Statuses : [t EXCEPT !.state = status].drawn = t.drawn
        BY DEF Turn
  <1>9. QED
        BY <1>6, <1>7, <1>8

LEMMA StartedIs ==
  ASSUME NEW c \in Calls, NEW k, NEW t, Good(c, k, t, TRUE)
  PROVE  Good(c, k, [t EXCEPT !.state = "running"], FALSE)
  <1> DEFINE t2 == [t EXCEPT !.state = "running"]
  <1>1. Honest(c, k, t, TRUE)
        BY DEF Good
  <1>2. ~Early(k) /\ t = NoTurn
        BY <1>1 DEF Honest
  <1>3. t.drawn = FALSE /\ t2.drawn = FALSE /\ t.state = "none"
        BY <1>2 DEF NoTurn
  <1>4. \A i \in DOMAIN k.mail.queue :
          k.mail.queue[i].turn = c => /\ k.mail.queue[i].kind # "image"
                                      /\ k.mail.queue[i].kind \notin Statuses
        BY <1>1, <1>3 DEF Honest, Reports, Statuses
  <1>5. /\ k.result \notin {Known("cancelled"), Known("timeout")}
        /\ ~(k.result = Success /\ k.request.mode # "ready") /\ ~k.image
        BY <1>1, <1>3 DEF Honest
  <1> HIDE DEF t2
  <1>6. Honest(c, k, t2, FALSE)
        BY <1>2, <1>4, <1>5 DEF Honest, Reports
  <1>7. QED
        BY <1>6 DEF Good, t2

LEMMA ForgottenIs ==
  ASSUME NEW c \in Calls, NEW k, NEW t, NEW pending, Good(c, k, t, pending)
  PROVE  Good(c, k, t, FALSE)
  BY DEF Good, Honest

-----------------------------------------------------------------------------
(* The mutex of the supervisor and the locks of the sessions, under steps    *)
(* that have nothing to do with them.                                        *)
LEMMA SupervisedKept ==
  ASSUME NEW cl, NEW cl2, NEW lk, NEW lk2, NEW sp, Supervised(cl, lk, sp),
         \A c \in Calls : Quiet(cl[c], cl2[c]),
         \A g \in Children : lk2[g].child = "up" => lk[g].child = "up"
  PROVE  Supervised(cl2, lk2, sp)
  <1>1. \A c \in Calls : Launching(cl2[c]) <=> Launching(cl[c])
        BY DEF Quiet
  <1>2. \A c \in Calls : cl[c].pc = "launching" => cl2[c].pc = "launching" /\ cl2[c].rpc = cl[c].rpc
        BY DEF Quiet, Launching
  <1>3. QED
        BY <1>1, <1>2 DEF Supervised

LEMMA LockedKept ==
  ASSUME NEW cl, NEW cl2, NEW bd, NEW bd2, Locked(cl, bd),
         \A c \in Calls : /\ cl[c].request \in Request /\ Placed(cl[c])
                          /\ Moves(cl[c], cl2[c]),
         \A s \in Sessions : bd2[s] \in {bd[s], None}
  PROVE  Locked(cl2, bd2)
  <1>1. ASSUME NEW c \in Calls, NEW d \in Calls, c # d, Locks(cl2[c]), Locks(cl2[d])
        PROVE  cl2[c].request.key # cl2[d].request.key
        BY <1>1 DEF Locked, Moves
  <1>2. ASSUME NEW c \in Calls, Binds(cl2[c])
        PROVE  bd2[cl2[c].request.key] = None
        <2>1. Binds(cl[c]) /\ cl2[c].request = cl[c].request
              BY <1>2 DEF Moves
        <2>2. bd[cl[c].request.key] = None
              BY <2>1 DEF Locked
        <2>3. cl[c].request.key \in Sessions
              BY <2>1 DEF Binds, Placed, Request
        <2>4. QED
              BY <2>1, <2>2, <2>3
  <1>3. QED
        BY <1>1, <1>2 DEF Locked

LEMMA IInvKept ==
  ASSUME IInv, Types',
         \A c \in Calls : /\ Good(c, call'[c], turn'[c], Pending(c)')
                          /\ Moves(call[c], call'[c]) /\ Quiet(call[c], call'[c]),
         supervisor' = supervisor,
         \A g \in Children : link'[g].child = "up" => link[g].child = "up",
         \A s \in Sessions : bindings'[s] \in {bindings[s], None}
  PROVE  IInv'
  <1>1. Supervised(call', link', supervisor')
        BY SupervisedKept DEF IInv
  <1>2. \A c \in Calls : call[c].request \in Request /\ Placed(call[c])
        BY DEF IInv, Good, Future
  <1>3. Locked(call', bindings')
        BY <1>2, LockedKept DEF IInv
  <1>4. QED
        BY <1>1, <1>3 DEF IInv

(* A step of one call: c goes on with n.                                     *)
LEMMA SetKept ==
  ASSUME IInv, NEW c \in Calls, NEW n, Set(c, n), Good(c, n, turn[c], Pending(c)'),
         Moves(call[c], n), Quiet(call[c], n),
         LinkOK', \A g \in Children : link'[g].child = link[g].child,
         supervisor' = supervisor, bindings' = bindings, turn' = turn,
         atChild' \subseteq Ids, \A d \in Calls \ {c} : Pending(d)' = Pending(d),
         faults' \in 0..MaxFaults
  PROVE  IInv'
  <1>1. Types /\ call' = [call EXCEPT ![c] = n] /\ n \in Future
        BY DEF IInv, Set, Good
  <1>2. call'[c] = n /\ \A d \in Calls \ {c} : call'[d] = call[d]
        BY <1>1 DEF Types
  <1>3. Types'
        BY <1>1 DEF Types
  <1>4. ASSUME NEW d \in Calls
        PROVE  /\ Good(d, call'[d], turn'[d], Pending(d)')
               /\ Moves(call[d], call'[d]) /\ Quiet(call[d], call'[d])
        <2>1. CASE d = c
              BY <1>2, <2>1
        <2>2. CASE d # c
              <3>1. Good(d, call[d], turn[d], Pending(d))
                    BY DEF IInv
              <3>2. Moves(call[d], call[d]) /\ Quiet(call[d], call[d])
                    BY DEF Moves, Quiet
              <3>3. QED
                    BY <1>2, <2>2, <3>1, <3>2
        <2>3. QED
              BY <2>1, <2>2
  <1>5. QED
        BY <1>3, <1>4, IInvKept

LEMMA SetOnly ==
  ASSUME IInv, NEW c \in Calls, NEW n, Set(c, n), Good(c, n, turn[c], Pending(c)),
         Moves(call[c], n), Quiet(call[c], n),
         UNCHANGED <<link, supervisor, bindings, atChild, turn>>, faults' \in 0..MaxFaults
  PROVE  IInv'
  <1>1. LinkOK' /\ atChild' \subseteq Ids
        BY DEF IInv, Types, LinkOK
  <1>2. \A d \in Calls : Pending(d)' = Pending(d)
        BY DEF Pending
  <1>3. QED
        BY <1>1, <1>2, SetKept

LEMMA CallIs ==
  ASSUME IInv, NEW c \in Calls
  PROVE  /\ Good(c, call[c], turn[c], Pending(c)) /\ call[c] \in Future
         /\ call[c].request \in Request /\ Mode(c) = call[c].request.mode
         /\ Placed(call[c]) /\ Honest(c, call[c], turn[c], Pending(c))
         /\ turn[c] \in Turn /\ faults \in 0..MaxFaults
  BY DEF IInv, Types, Good, Future, Mode

LEMMA FaultIs ==
  ASSUME IInv, Fault
  PROVE  faults' \in 0..MaxFaults
  BY BoundsAssumption DEF IInv, Types, Fault

(* A future that is elsewhere, and knows and says as much as before.         *)
LEMMA SameIs ==
  ASSUME NEW c \in Calls, NEW t, NEW pending, NEW k, Good(c, k, t, pending),
         NEW n \in Future, n.request = k.request, n.image = k.image, n.result = k.result,
         n.mail = k.mail, Placed(n), Early(n) => t = NoTurn /\ ~pending
  PROVE  Good(c, n, t, pending)
  BY DEF Good, Honest

LEMMA EarlyTold ==
  ASSUME NEW c, NEW k, NEW t, NEW pending, t = NoTurn, ~pending
  PROVE  Told(k, Known("cancelled"), t, pending) /\ Told(k, Known("timeout"), t, pending)
  <1>1. /\ Known("cancelled") \in Report /\ Known("timeout") \in Report
        /\ Success \notin {Known("cancelled"), Known("timeout")}
        BY DEF Report, Known, Error, ErrorCode, Success
  <1>2. QED
        BY <1>1 DEF Told, NoTurn

LEMMA ConnectedIs ==
  ASSUME NEW c \in Calls, NEW t, NEW pending, Good(c, call[c], t, pending),
         call[c].pc \in {"queued", "launching"}, NEW g \in Children
  PROVE  LET n == Connected(c, g)
         IN  Good(c, n, t, pending) /\ Moves(call[c], n) /\ ~Launching(n)
  <1> DEFINE k == call[c]
             n == Connected(c, g)
  <1>1. /\ k \in Future /\ Placed(k) /\ Honest(c, k, t, pending) /\ Mode(c) = k.request.mode
        BY DEF Good, Mode
  <1>2. /\ n \in Future /\ n.request = k.request /\ n.image = k.image /\ n.result = k.result
        /\ n.mail = k.mail /\ n.rpc = g
        /\ n.pc = IF Mode(c) = "ready" THEN "asking" ELSE "session"
        /\ n.ask = IF Mode(c) = "ready" THEN "account" ELSE None
        <2>1. {"asking", "session"} \subseteq Pcs /\ "account" \in Kinds
              BY DEF Pcs, Kinds
        <2>2. QED
              BY <1>1, <2>1 DEF Connected, Future
  <1> HIDE DEF n
  <1>3. Placed(n)
        BY <1>1, <1>2 DEF Placed, Requesting, Readiness, Kinds
  <1>4. t = NoTurn /\ ~pending
        BY <1>1 DEF Honest, Early
  <1>5. Good(c, n, t, pending)
        BY <1>2, <1>3, <1>4, SameIs
  <1>6. Moves(k, n) /\ ~Launching(n)
        BY <1>1, <1>2 DEF Moves, Locks, Binds, Launching, Requesting
  <1>7. QED
        BY <1>5, <1>6 DEF n

-----------------------------------------------------------------------------
(* The tasks of the calls, up to the request.                                *)
LEMMA BeginKeeps ==
  ASSUME IInv, NEW c \in Calls, Begin(c)
  PROVE  IInv'
  <1> DEFINE k == call[c]
             n == [k EXCEPT !.pc = "queued"]
  <1>1. /\ Good(c, k, turn[c], Pending(c)) /\ k \in Future /\ k.pc = "idle" /\ Placed(k)
        /\ turn[c] = NoTurn /\ ~Pending(c) /\ faults' \in 0..MaxFaults
        BY CallIs DEF Begin, Honest, Early
  <1>2. UNCHANGED <<link, supervisor, bindings, atChild, turn>>
        BY DEF Begin
  <1>3. CASE Set(c, End(c, Known("cancelled")))
        <2>1. Told(k, Known("cancelled"), turn[c], Pending(c))
              BY <1>1, EarlyTold
        <2>2. /\ Good(c, End(c, Known("cancelled")), turn[c], Pending(c))
              /\ Moves(k, End(c, Known("cancelled"))) /\ ~Launching(End(c, Known("cancelled")))
              BY <1>1, <2>1, EndIs
        <2>3. ~Launching(k)
              BY <1>1 DEF Launching
        <2>4. QED
              BY <1>1, <1>2, <1>3, <2>2, <2>3, SetOnly DEF Quiet
  <1>4. CASE Set(c, n)
        <2>1. /\ n \in Future /\ n.request = k.request /\ n.image = k.image /\ n.result = k.result
              /\ n.mail = k.mail /\ n.rpc = k.rpc /\ n.pc = "queued" /\ n.ask = k.ask
              <3>1. "queued" \in Pcs
                    BY DEF Pcs
              <3>2. QED
                    BY <1>1, <3>1 DEF Future
        <2> HIDE DEF n
        <2>2. Placed(n)
              BY <1>1, <2>1 DEF Placed, Requesting
        <2>3. Good(c, n, turn[c], Pending(c))
              BY <1>1, <2>1, <2>2, SameIs
        <2>4. Moves(k, n) /\ Quiet(k, n)
              BY <1>1, <2>1 DEF Moves, Locks, Binds, Requesting, Quiet, Launching
        <2>5. QED
              BY <1>1, <1>2, <1>4, <2>3, <2>4, SetOnly
  <1>5. QED
        BY <1>3, <1>4 DEF Begin

LEMMA UseRunningKeeps ==
  ASSUME IInv, NEW c \in Calls, UseRunning(c)
  PROVE  IInv'
  <1> DEFINE g == supervisor.running
             n == Connected(c, g)
  <1>1. Good(c, call[c], turn[c], Pending(c)) /\ call[c].pc = "queued" /\ faults' \in 0..MaxFaults
        BY CallIs DEF UseRunning, Holding
  <1>2. g \in Children
        BY DEF UseRunning, Healthy, IInv, Types, Supervisor
  <1>3. Set(c, n) /\ UNCHANGED <<link, supervisor, bindings, atChild, turn>>
        BY DEF UseRunning
  <1>4. Good(c, n, turn[c], Pending(c)) /\ Moves(call[c], n) /\ ~Launching(n)
        BY <1>1, <1>2, ConnectedIs
  <1> HIDE DEF n
  <1>5. Quiet(call[c], n)
        BY <1>1, <1>4 DEF Quiet, Launching
  <1>6. QED
        BY <1>1, <1>3, <1>4, <1>5, SetOnly

(* The session lock is taken: nobody else of the session has it.             *)
LEMMA ResolveKeeps ==
  ASSUME IInv, NEW c \in Calls, Resolve(c)
  PROVE  IInv'
  <1> DEFINE k     == call[c]
             bound == IF Mode(c) = "persistent" THEN bindings[k.request.key]
                      ELSE IF Mode(c) = "thread" THEN Old ELSE None
             ask   == IF bound = None THEN "start" ELSE "resume"
             m     == Ask(c, ask)
             n     == [m EXCEPT !.thread = bound]
  <1>1. /\ Good(c, k, turn[c], Pending(c)) /\ k \in Future /\ k.pc = "session" /\ Placed(k)
        /\ turn[c] = NoTurn /\ ~Pending(c) /\ faults' \in 0..MaxFaults
        /\ Mode(c) = k.request.mode /\ k.request \in Request /\ k.rpc \in Children
        BY CallIs DEF Resolve, Honest, Early, Placed
  <1>2. UNCHANGED <<link, supervisor, bindings, atChild, turn, faults>> /\ ~Launching(k)
        BY <1>1 DEF Resolve, Launching
  <1>3. k.request.mode = "persistent" => k.request.key \in Sessions
        BY <1>1 DEF Placed, Request
  <1>4. bound \in Threads \cup {None}
        BY <1>1, <1>3 DEF IInv, Types, Threads
  <1>5. CASE Set(c, n)
        <2>1. /\ n \in Future /\ n.request = k.request /\ n.image = k.image /\ n.result = k.result
              /\ n.mail = k.mail /\ n.rpc = k.rpc /\ n.pc = "asking" /\ n.ask = ask
              <3>1. "asking" \in Pcs /\ ask \in Kinds
                    BY DEF Pcs, Kinds
              <3> HIDE DEF bound, ask
              <3>2. QED
                    BY <1>1, <1>4, <3>1 DEF Ask, Future
        <2>2. ask \in {"start", "resume"} /\ (ask = "start" <=> bound = None)
              OBVIOUS
        <2>3. Mode(c) = "persistent" => bound = bindings[k.request.key]
              OBVIOUS
        <2> HIDE DEF n, ask, bound, m
        <2>4. Placed(n)
              BY <1>1, <2>1, <2>2 DEF Placed, Requesting, Readiness, Kinds
        <2>5. Good(c, n, turn[c], Pending(c))
              BY <1>1, <2>1, <2>4, SameIs
        <2>6. Quiet(k, n)
              BY <1>2, <2>1 DEF Quiet, Launching
        <2>7. call' = [call EXCEPT ![c] = n] /\ Types
              BY <1>5 DEF Set, IInv
        <2>8. call'[c] = n /\ \A d \in Calls \ {c} : call'[d] = call[d]
              BY <2>7 DEF Types
        <2>9. Types'
              BY <1>2, <2>1, <2>7 DEF Types, LinkOK
        <2>10. \A d \in Calls : Good(d, call'[d], turn'[d], Pending(d)')
              <3>1. \A d \in Calls : Pending(d)' = Pending(d) /\ turn'[d] = turn[d]
                    BY <1>2 DEF Pending
              <3>2. QED
                    BY <2>5, <2>8, <3>1 DEF IInv
        <2>11. Supervised(call', link', supervisor')
              <3>1. \A d \in Calls : Quiet(call[d], call'[d])
                    BY <2>6, <2>8 DEF Quiet
              <3>2. QED
                    BY <1>2, <3>1, SupervisedKept DEF IInv
        <2>12. Locked(call', bindings')
              <3>1. Locked(call, bindings)
                    BY DEF IInv
              <3>2. ASSUME NEW d \in Calls \ {c}, Locks(call[d]), Locks(n)
                    PROVE  call[d].request.key # n.request.key
                    <4>1. InSession(d)
                          BY <3>2 DEF Locks, InSession
                    <4>2. LockKey(d) # LockKey(c)
                          BY <4>1 DEF Resolve
                    <4>3. Mode(d) = "persistent" /\ Mode(c) = "persistent"
                          BY <2>1, <3>2 DEF Locks, Mode
                    <4>4. QED
                          BY <2>1, <4>2, <4>3 DEF LockKey
              <3>3. ASSUME Binds(n) PROVE bindings[n.request.key] = None
                    <4>1. Mode(c) = "persistent" /\ ask = "start"
                          BY <1>1, <2>1, <3>3 DEF Binds
                    <4>2. QED
                          BY <2>1, <2>2, <2>3, <4>1
              <3>4. QED
                    BY <1>2, <2>8, <3>1, <3>2, <3>3 DEF Locked
        <2>13. QED
              BY <2>9, <2>10, <2>11, <2>12 DEF IInv
  <1>6. CASE Set(c, End(c, Known("session")))
        <2>1. "session" \in ErrorCode \ {"cancelled", "timeout"}
              BY DEF ErrorCode
        <2>2. /\ Good(c, End(c, Known("session")), turn[c], Pending(c))
              /\ Moves(k, End(c, Known("session"))) /\ ~Launching(End(c, Known("session")))
              BY <1>1, <2>1, PlainTold, EndIs
        <2>3. QED
              BY <1>1, <1>2, <1>6, <2>2, SetOnly DEF Quiet
  <1>7. QED
        BY <1>5, <1>6 DEF Resolve

(* The thread is written while the lock is held: nobody else binds one.      *)
LEMMA BindKeeps ==
  ASSUME IInv, NEW c \in Calls, Bind(c)
  PROVE  IInv'
  <1> DEFINE k == call[c]
             n == Ask(c, "turn")
             s == k.request.key
  <1>1. /\ Good(c, k, turn[c], Pending(c)) /\ k \in Future /\ k.pc = "binding" /\ Placed(k)
        /\ turn[c] = NoTurn /\ ~Pending(c) /\ faults' \in 0..MaxFaults
        /\ Mode(c) = "persistent" /\ k.request \in Request /\ k.rpc \in Children
        /\ k.result = NoResult
        BY CallIs DEF Bind, Honest, Early, Placed, Requesting
  <1>2. UNCHANGED <<link, supervisor, atChild, turn, faults>> /\ ~Launching(k)
        BY <1>1 DEF Bind, Launching
  <1>3. k.request.mode = "persistent" /\ s \in Sessions /\ Locks(k) /\ Binds(k)
        BY <1>1 DEF Mode, Placed, Request, Locks, Binds
  <1>4. CASE bindings' = [bindings EXCEPT ![s] = k.thread] /\ Set(c, n)
        <2>1. /\ Good(c, n, turn[c], Pending(c)) /\ Moves(k, n) /\ ~Launching(n)
              /\ n.ask = "turn" /\ n.pc = "asking" /\ n.request = k.request
              <3>1. "turn" \in Kinds \ {"start"} /\ "turn" \notin Readiness
                    BY DEF Kinds, Readiness
              <3>2. QED
                    BY <1>1, <1>3, <3>1, AskIs
        <2> HIDE DEF n
        <2>2. call' = [call EXCEPT ![c] = n] /\ Types /\ n \in Future
              BY <1>4, <2>1 DEF Set, IInv, Good
        <2>3. call'[c] = n /\ \A d \in Calls \ {c} : call'[d] = call[d]
              BY <2>2 DEF Types
        <2>4. bindings' \in [Sessions -> Threads \cup {None}]
              BY <1>1, <1>4, <2>2 DEF Types, Future
        <2>5. Types'
              BY <1>2, <2>2, <2>4 DEF Types, LinkOK
        <2>6. \A d \in Calls : Good(d, call'[d], turn'[d], Pending(d)')
              <3>1. \A d \in Calls : Pending(d)' = Pending(d) /\ turn'[d] = turn[d]
                    BY <1>2 DEF Pending
              <3>2. QED
                    BY <2>1, <2>3, <3>1 DEF IInv
        <2>7. Supervised(call', link', supervisor')
              <3>1. \A d \in Calls : Quiet(call[d], call'[d])
                    BY <1>2, <2>1, <2>3 DEF Quiet
              <3>2. QED
                    BY <1>2, <3>1, SupervisedKept DEF IInv
        <2>8. Locked(call', bindings')
              <3>1. Locked(call, bindings)
                    BY DEF IInv
              <3>2. ~Binds(n) /\ (Locks(n) => Locks(k))
                    BY <2>1 DEF Binds, Moves
              <3>3. ASSUME NEW d \in Calls \ {c}, Binds(call[d])
                    PROVE  bindings'[call[d].request.key] = None
                    <4>1. Locks(call[d])
                          BY <3>3 DEF Locks, Binds, Requesting
                    <4>2. call[d].request.key # s
                          BY <1>3, <3>1, <4>1 DEF Locked
                    <4>3. bindings[call[d].request.key] = None
                          BY <3>1, <3>3 DEF Locked
                    <4>4. call[d].request.key \in Sessions
                          BY <3>3, CallIs DEF Binds, Placed, Request
                    <4>5. QED
                          BY <1>4, <2>2, <4>2, <4>3, <4>4 DEF Types
              <3>4. QED
                    BY <2>1, <2>3, <3>1, <3>2, <3>3 DEF Locked
        <2>9. QED
              BY <2>5, <2>6, <2>7, <2>8 DEF IInv
  <1>5. CASE Set(c, End(c, Known("session"))) /\ UNCHANGED bindings
        <2>1. "session" \in ErrorCode \ {"cancelled", "timeout"}
              BY DEF ErrorCode
        <2>2. /\ Good(c, End(c, Known("session")), turn[c], Pending(c))
              /\ Moves(k, End(c, Known("session"))) /\ ~Launching(End(c, Known("session")))
              BY <1>1, <2>1, PlainTold, EndIs
        <2>3. QED
              BY <1>1, <1>2, <1>5, <2>2, SetOnly DEF Quiet
  <1>6. QED
        BY <1>4, <1>5 DEF Bind

LEMMA DeleteSessionKeeps ==
  ASSUME IInv, NEW s \in Sessions, DeleteSession(s)
  PROVE  IInv'
  <1>1. /\ bindings' = [bindings EXCEPT ![s] = None] /\ faults' \in 0..MaxFaults
        /\ UNCHANGED <<link, call, supervisor, atChild, turn>>
        BY FaultIs DEF DeleteSession
  <1>2. Types'
        BY <1>1 DEF IInv, Types, LinkOK
  <1>3. \A r \in Sessions : bindings'[r] \in {bindings[r], None}
        BY <1>1 DEF IInv, Types
  <1>4. \A c \in Calls : /\ Good(c, call'[c], turn'[c], Pending(c)')
                         /\ Moves(call[c], call'[c]) /\ Quiet(call[c], call'[c])
        <2>1. \A c \in Calls : Pending(c)' = Pending(c)
              BY <1>1 DEF Pending
        <2>2. QED
              BY <1>1, <2>1 DEF IInv, Moves, Quiet
  <1>5. QED
        BY <1>1, <1>2, <1>3, <1>4, IInvKept

LEMMA LeaveQueueKeeps ==
  ASSUME IInv, NEW c \in Calls, NEW code \in Codes, LeaveQueue(c, code), faults' \in 0..MaxFaults
  PROVE  IInv'
  <1> DEFINE n == End(c, Known(code))
  <1>1. /\ Good(c, call[c], turn[c], Pending(c)) /\ call[c].pc = "session"
        /\ turn[c] = NoTurn /\ ~Pending(c)
        BY CallIs DEF LeaveQueue, Honest, Early
  <1>2. Set(c, n) /\ UNCHANGED <<link, supervisor, bindings, atChild, turn>>
        BY DEF LeaveQueue
  <1>3. Told(call[c], Known(code), turn[c], Pending(c))
        BY <1>1, EarlyTold DEF Codes
  <1>4. Good(c, n, turn[c], Pending(c)) /\ Moves(call[c], n) /\ ~Launching(n)
        BY <1>1, <1>3, EndIs
  <1> HIDE DEF n
  <1>5. Quiet(call[c], n)
        BY <1>1, <1>4 DEF Quiet, Launching
  <1>6. QED
        BY <1>2, <1>4, <1>5, SetOnly

-----------------------------------------------------------------------------
(* A request of a call: checked, written, waited for, given up.              *)
LEMMA CheckOpenKeeps ==
  ASSUME IInv, NEW c \in Calls, CheckOpen(c)
  PROVE  IInv'
  <1> DEFINE k == call[c]
             m == [k.mail EXCEPT !.hearing = @ \/ k.ask = "turn"]
             f == [k EXCEPT !.pc = "sending"]
             n == [f EXCEPT !.mail = m]
  <1>1. /\ Good(c, k, turn[c], Pending(c)) /\ k \in Future /\ k.pc = "asking" /\ Placed(k)
        /\ Honest(c, k, turn[c], Pending(c)) /\ faults' \in 0..MaxFaults
        /\ k.mail \in Mail /\ Len(k.mail.queue) <= Ring
        BY CallIs DEF CheckOpen, Good, Future
  <1>2. /\ call' = [call EXCEPT ![c] = [k EXCEPT !.pc = "sending",
                                                 !.mail.hearing = @ \/ k.ask = "turn"]]
        /\ UNCHANGED <<link, supervisor, bindings, atChild, turn>>
        BY DEF CheckOpen, Set
  <1>3. m \in Mail /\ m.queue = k.mail.queue
        BY <1>1 DEF Mail
  <1>4. n = [k EXCEPT !.pc = "sending", !.mail.hearing = @ \/ k.ask = "turn"]
        BY <1>1 DEF Future, Mail
  <1>5. /\ f \in Future /\ f.request = k.request /\ f.image = k.image /\ f.result = k.result
        /\ f.mail = k.mail /\ f.rpc = k.rpc /\ f.pc = "sending" /\ f.ask = k.ask /\ f.cut = k.cut
        <2>1. "sending" \in Pcs
              BY DEF Pcs
        <2>2. QED
              BY <1>1, <2>1 DEF Future
  <1> HIDE DEF m, f
  <1>6. Placed(f) /\ (Early(f) => Early(k))
        BY <1>1, <1>5 DEF Placed, Requesting, Early
  <1>7. Good(c, f, turn[c], Pending(c)) /\ Moves(k, f)
        <2>1. Early(f) => turn[c] = NoTurn /\ ~Pending(c)
              BY <1>1, <1>6 DEF Honest
        <2>2. Good(c, f, turn[c], Pending(c))
              BY <1>1, <1>5, <1>6, <2>1, SameIs
        <2>3. Moves(k, f)
              BY <1>1, <1>5 DEF Moves, Locks, Binds, Requesting
        <2>4. QED
              BY <2>2, <2>3
  <1>8. Good(c, n, turn[c], Pending(c)) /\ Moves(k, n) /\ n.pc = "sending"
        <2>1. Reports(c, m.queue, turn[c]) /\ Len(m.queue) <= Ring
              BY <1>1, <1>3 DEF Honest
        <2>2. QED
              BY <1>3, <1>5, <1>7, <2>1, MailIs
  <1>9. Set(c, n)
        BY <1>2, <1>4 DEF Set
  <1> HIDE DEF n
  <1>10. Quiet(k, n)
        BY <1>1, <1>8 DEF Quiet, Launching
  <1>11. QED
        BY <1>1, <1>2, <1>8, <1>9, <1>10, SetOnly

LEMMA RefuseRequestKeeps ==
  ASSUME IInv, NEW c \in Calls, RefuseRequest(c)
  PROVE  IInv'
  <1>1. /\ Good(c, call[c], turn[c], Pending(c)) /\ call[c].pc = "asking"
        /\ faults' \in 0..MaxFaults
        BY CallIs DEF RefuseRequest
  <1>2. UNCHANGED <<link, supervisor, bindings, atChild, turn>>
        BY DEF RefuseRequest
  <1>3. PICK code \in {"protocol", "input"} : Set(c, RequestFailed(c, Known(code)))
        BY DEF RefuseRequest
  <1>4. code \in ErrorCode \ {"cancelled", "timeout"}
        BY DEF ErrorCode
  <1>5. Told(call[c], Known(code), turn[c], Pending(c)) /\ Requesting(call[c])
        BY <1>1, <1>4, PlainTold DEF Requesting
  <1> DEFINE n == RequestFailed(c, Known(code))
  <1>6. Good(c, n, turn[c], Pending(c)) /\ Moves(call[c], n) /\ ~Launching(n)
        BY <1>1, <1>5, RequestFailedIs
  <1> HIDE DEF n
  <1>7. Quiet(call[c], n)
        BY <1>1, <1>6 DEF Quiet, Launching
  <1>8. QED
        BY <1>1, <1>2, <1>3, <1>6, <1>7, SetOnly DEF n

(* Everybody who waits on a connection hears that it is closed.              *)
LEMMA NotifiedIs ==
  ASSUME IInv, NEW g, NEW c \in Calls
  PROVE  LET n == Notified(g)[c]
         IN  Good(c, n, turn[c], Pending(c)) /\ Moves(call[c], n) /\ Quiet(call[c], n)
  <1>1. Good(c, call[c], turn[c], Pending(c))
        BY CallIs
  <1>2. CASE Awaits(c) /\ Id(c) \in link[g].pending
        <2>1. Notified(g)[c] = Replied(c, "closed")
              BY <1>2 DEF Notified
        <2>2. Requesting(call[c]) /\ ~Launching(call[c])
              BY <1>2 DEF Awaits, Requesting, Launching
        <2>3. LET n == Replied(c, "closed")
              IN  Good(c, n, turn[c], Pending(c)) /\ Moves(call[c], n) /\ ~Launching(n)
              BY <1>1, <2>2, RepliedIs
        <2>4. QED
              BY <2>1, <2>2, <2>3 DEF Quiet
  <1>3. CASE ~(Awaits(c) /\ Id(c) \in link[g].pending)
        <2>1. Notified(g)[c] = call[c]
              BY <1>3 DEF Notified
        <2>2. QED
              BY <1>1, <2>1 DEF Moves, Quiet
  <1>4. QED
        BY <1>2, <1>3

Link == [child : {"unborn", "up", "dead"}, reading : BOOLEAN, closed : BOOLEAN,
         pending : SUBSET Ids]

LEMMA FailedIs ==
  ASSUME LinkOK, NEW g \in Children
  PROVE  /\ Failed(g) \in [Children -> Link]
         /\ [Failed(g) EXCEPT ![g].reading = FALSE] \in [Children -> Link]
         /\ \A h \in Children : /\ Failed(g)[h].child = link[h].child
                               /\ [Failed(g) EXCEPT ![g].reading = FALSE][h].child = link[h].child
  <1> DEFINE one == [link[g] EXCEPT !.closed = TRUE, !.pending = {}]
             two == [one EXCEPT !.reading = FALSE]
  <1>1. link \in [Children -> Link]
        BY DEF LinkOK, Link
  <1>2. one \in Link /\ two \in Link /\ one.child = link[g].child /\ two.child = link[g].child
        BY <1>1 DEF Link
  <1>3. Failed(g) = [link EXCEPT ![g] = one]
        BY <1>1 DEF Failed, Link
  <1>4. [Failed(g) EXCEPT ![g].reading = FALSE] = [link EXCEPT ![g] = two]
        <2>1. Failed(g)[g] = one
              BY <1>1, <1>3
        <2> HIDE DEF one
        <2>2. QED
              BY <1>1, <1>3, <2>1
  <1> HIDE DEF one, two
  <1>5. QED
        BY <1>1, <1>2, <1>3, <1>4

LEMMA SendKeeps ==
  ASSUME IInv, NEW c \in Calls, Send(c)
  PROVE  IInv'
  <1> DEFINE k == call[c]
             g == k.rpc
             n == [k EXCEPT !.pc = "waiting"]
             f == RequestFailed(c, Known("protocol"))
  <1>1. /\ Good(c, k, turn[c], Pending(c)) /\ k \in Future /\ k.pc = "sending" /\ Placed(k)
        /\ Honest(c, k, turn[c], Pending(c)) /\ g \in Children /\ k.ask \in Kinds
        /\ Requesting(k) /\ ~Launching(k)
        BY CallIs DEF Send, Placed, Requesting, Launching
  <1>2. UNCHANGED <<supervisor, bindings, turn, faults>> /\ LinkOK /\ faults' \in 0..MaxFaults
        BY CallIs DEF Send, IInv, Types
  <1>3. CASE /\ link[g].child = "up"
             /\ link' = [link EXCEPT ![g].pending = @ \cup {Id(c)}]
             /\ call' = [call EXCEPT ![c] = n]
        <2>1. /\ n \in Future /\ n.request = k.request /\ n.image = k.image /\ n.result = k.result
              /\ n.mail = k.mail /\ n.rpc = k.rpc /\ n.pc = "waiting" /\ n.ask = k.ask
              /\ n.cut = k.cut
              <3>1. "waiting" \in Pcs
                    BY DEF Pcs
              <3>2. QED
                    BY <1>1, <3>1 DEF Future
        <2> HIDE DEF n
        <2>2. /\ Placed(n) /\ (Early(n) => Early(k) /\ k.ask # "turn")
              /\ (k.ask = "turn" => Early(k))
              BY <1>1, <2>1 DEF Placed, Requesting, Early, Readiness
        <2>3. atChild' = atChild \cup {Id(c)} /\ Id(c) \in Ids /\ Id(c) = <<c, k.ask>>
              BY <1>1, <1>3 DEF Send, Ids, Id
        <2>4. Good(c, n, turn[c], Pending(c)')
              <3>1. CASE k.ask = "turn"
                    <4>1. turn[c] = NoTurn /\ ~Early(n)
                          BY <1>1, <2>2, <3>1 DEF Honest
                    <4>2. Honest(c, n, turn[c], TRUE)
                          <5>1. n.result = NoResult
                                BY <1>1, <2>1, <3>1 DEF Placed, Requesting
                          <5>2. n.result \notin {Known("cancelled"), Known("timeout"), Success}
                                BY <5>1 DEF NoResult, Success, Known
                          <5>3. QED
                                BY <1>1, <2>1, <4>1, <5>2 DEF Honest
                    <4>3. Pending(c)' = TRUE
                          BY <2>3, <3>1 DEF Pending
                    <4>4. Good(c, n, turn[c], TRUE)
                          BY <1>1, <2>1, <2>2, <4>2 DEF Good
                    <4>5. QED
                          BY <4>3, <4>4
              <3>2. CASE k.ask # "turn"
                    <4>1. Pending(c)' = Pending(c)
                          BY <2>3, <3>2 DEF Pending
                    <4>2. Early(n) => turn[c] = NoTurn /\ ~Pending(c)
                          BY <1>1, <2>2 DEF Honest
                    <4>3. Good(c, n, turn[c], Pending(c))
                          BY <1>1, <2>1, <2>2, <4>2, SameIs
                    <4>4. QED
                          BY <4>1, <4>3
              <3>3. QED
                    BY <3>1, <3>2
        <2>5. Moves(k, n) /\ Quiet(k, n)
              BY <1>1, <2>1 DEF Moves, Quiet, Locks, Binds, Requesting, Launching
        <2>6. LinkOK' /\ \A h \in Children : link'[h].child = link[h].child
              BY <1>1, <1>2, <1>3, <2>3 DEF LinkOK
        <2>7. atChild' \subseteq Ids /\ \A d \in Calls \ {c} : Pending(d)' = Pending(d)
              BY <2>3 DEF IInv, Types, Pending
        <2>8. QED
              BY <1>2, <1>3, <2>4, <2>5, <2>6, <2>7, SetKept DEF Set
  <1>4. CASE /\ link[g].child = "dead"
             /\ link' = Failed(g)
             /\ call' = [Notified(g) EXCEPT ![c] = f]
        <2>1. "protocol" \in ErrorCode \ {"cancelled", "timeout"}
              BY DEF ErrorCode
        <2>2. Told(k, Known("protocol"), turn[c], Pending(c))
              BY <2>1, PlainTold
        <2>3. Good(c, f, turn[c], Pending(c)) /\ Moves(k, f) /\ ~Launching(f)
              BY <1>1, <2>2, RequestFailedIs
        <2> HIDE DEF f
        <2>4. /\ call' \in [Calls -> Future]
              /\ call'[c] = f /\ \A d \in Calls \ {c} : call'[d] = Notified(g)[d]
              <3>1. \A d \in Calls : Notified(g)[d] \in Future
                    BY NotifiedIs DEF Good
              <3>2. Notified(g) = [d \in Calls |-> Notified(g)[d]]
                    BY DEF Notified
              <3>3. f \in Future
                    BY <2>3 DEF Good
              <3>4. QED
                    BY <1>4, <3>1, <3>2, <3>3
        <2>5. atChild' = atChild
              BY <1>4 DEF Send
        <2>6. LinkOK' /\ \A h \in Children : link'[h].child = link[h].child
              BY <1>1, <1>2, <1>4, FailedIs DEF LinkOK, Link
        <2>7. Types'
              BY <1>2, <2>4, <2>5, <2>6 DEF IInv, Types
        <2>8. \A d \in Calls : /\ Good(d, call'[d], turn'[d], Pending(d)')
                               /\ Moves(call[d], call'[d]) /\ Quiet(call[d], call'[d])
              <3>1. \A d \in Calls : turn'[d] = turn[d] /\ Pending(d)' = Pending(d)
                    BY <1>2, <2>5 DEF Pending
              <3>2. Quiet(k, f)
                    BY <1>1, <2>3 DEF Quiet
              <3>3. QED
                    BY <2>3, <2>4, <3>1, <3>2, NotifiedIs
        <2>9. QED
              BY <1>2, <2>6, <2>7, <2>8, IInvKept
  <1>5. QED
        BY <1>3, <1>4 DEF Send, Write

(* What the child still has of a call that has given up: its turn, if any.   *)
LEMMA UnansweredIs ==
  ASSUME IInv, NEW c \in Calls, atChild' = Unanswered(c)
  PROVE  atChild' \subseteq Ids /\ \A d \in Calls : Pending(d)' = Pending(d)
  <1>1. atChild \subseteq Ids
        BY DEF IInv, Types
  <1>2. CASE call[c].ask = "turn"
        BY <1>1, <1>2 DEF Unanswered, Pending
  <1>3. CASE call[c].ask # "turn"
        BY <1>1, <1>3 DEF Unanswered, Pending, Id
  <1>4. QED
        BY <1>2, <1>3

LEMMA GiveUpKeeps ==
  ASSUME IInv, NEW c \in Calls, NEW code \in Codes, GiveUp(c, code), faults' \in 0..MaxFaults
  PROVE  IInv'
  <1> DEFINE k == call[c]
             e == Interrupted(c, code)
             n == RequestFailed(c, e)
  <1>1. /\ Good(c, k, turn[c], Pending(c)) /\ k.pc = "waiting" /\ Placed(k)
        /\ Honest(c, k, turn[c], Pending(c)) /\ k.rpc \in Children /\ k.ask \in Kinds
        /\ Requesting(k) /\ ~Launching(k)
        BY CallIs DEF GiveUp, Awaits, Placed, Requesting, Launching
  <1>2. /\ link' = [link EXCEPT ![k.rpc].pending = @ \ {Id(c)}] /\ Set(c, n)
        /\ atChild' = Unanswered(c) /\ UNCHANGED <<supervisor, bindings, turn>>
        BY DEF GiveUp
  <1>3. k.ask \notin {"interrupt", "archive"} => Told(k, e, turn[c], Pending(c))
        <2>1. CASE k.ask = "turn"
              <3>1. e = Unknown(code) /\ code \in ErrorCode
                    BY <2>1 DEF Interrupted, Codes, ErrorCode
              <3> HIDE DEF e
              <3>2. QED
                    BY <3>1, PlainTold
        <2>2. CASE k.ask \in {"start", "resume"} \cup Readiness
              <3>1. e = Known(code) /\ turn[c] = NoTurn /\ ~Pending(c)
                    BY <1>1, <2>2 DEF Interrupted, Honest, Early, Readiness
              <3> HIDE DEF e
              <3>2. QED
                    BY <3>1, EarlyTold DEF Codes
        <2>3. QED
              BY <1>1, <2>1, <2>2 DEF Kinds, Readiness
  <1> HIDE DEF e
  <1>4. Good(c, n, turn[c], Pending(c)) /\ Moves(k, n) /\ ~Launching(n)
        BY <1>1, <1>3, RequestFailedIs
  <1> HIDE DEF n
  <1>5. Quiet(k, n)
        BY <1>1, <1>4 DEF Quiet
  <1>6. LinkOK' /\ \A h \in Children : link'[h].child = link[h].child
        BY <1>1, <1>2 DEF IInv, Types, LinkOK
  <1>7. atChild' \subseteq Ids /\ \A d \in Calls : Pending(d)' = Pending(d)
        BY <1>2, UnansweredIs
  <1>8. Good(c, n, turn[c], Pending(c)')
        BY <1>4, <1>7
  <1>9. QED
        BY <1>2, <1>4, <1>5, <1>6, <1>7, <1>8, SetKept

-----------------------------------------------------------------------------
(* The turn and its interruption.                                            *)
LEMMA ListenKeeps ==
  ASSUME IInv, NEW c \in Calls, Listen(c)
  PROVE  IInv'
  <1> DEFINE k    == call[c]
             kind == Head(k.mail.queue).kind
             lost == Conclude(c, Known("overloaded"))
  <1>1. /\ Good(c, k, turn[c], Pending(c)) /\ k \in Future /\ k.pc = "turning" /\ k.rpc \in Children
        /\ Honest(c, k, turn[c], Pending(c)) /\ ~Launching(k) /\ faults' \in 0..MaxFaults
        BY CallIs DEF Listen, Placed, Launching
  <1>2. Receive(c, lost, Heard(c, kind)) /\ UNCHANGED <<link, supervisor, bindings, atChild, turn>>
        BY DEF Listen
  <1>3. Good(c, lost, turn[c], Pending(c)) /\ Moves(k, lost) /\ ~Launching(lost)
        <2>1. "overloaded" \in ErrorCode \ {"cancelled", "timeout"}
              BY DEF ErrorCode
        <2>2. Told(k, Known("overloaded"), turn[c], Pending(c))
              BY <2>1, PlainTold
        <2>3. QED
              BY <1>1, <2>2, ConcludeIs
  <1>4. ASSUME k.mail.queue # <<>>, Head(k.mail.queue).turn = c
        PROVE  \A n \in Heard(c, kind) :
                 Good(c, n, turn[c], Pending(c)) /\ Moves(k, n) /\ ~Launching(n)
        <2>1. /\ kind = "image" => turn[c].drawn
              /\ kind \in Statuses => turn[c].state = kind
              <3>1. 1 \in DOMAIN k.mail.queue /\ k.mail.queue[1] = Head(k.mail.queue)
                    BY <1>1, <1>4 DEF Future, Mail
              <3>2. QED
                    BY <1>1, <1>4, <3>1 DEF Honest, Reports
        <2> HIDE DEF kind
        <2>2. QED
              BY <1>1, <2>1, HeardIs
  <1> HIDE DEF kind, lost
  <1>5. \E n : Set(c, n) /\ Good(c, n, turn[c], Pending(c)) /\ Moves(k, n) /\ ~Launching(n)
        BY <1>1, <1>2, <1>3, <1>4, ReceiveIs
  <1>6. QED
        BY <1>1, <1>2, <1>5, SetOnly DEF Quiet

LEMMA SettleKeeps ==
  ASSUME IInv, NEW c \in Calls, Settle(c) \/ GraceOver(c)
  PROVE  IInv'
  <1> DEFINE k    == call[c]
             kind == Head(k.mail.queue).kind
             lost == Unconfirmed(c)
  <1>1. /\ Good(c, k, turn[c], Pending(c)) /\ k \in Future /\ k.pc = "settling"
        /\ Honest(c, k, turn[c], Pending(c)) /\ ~Launching(k) /\ faults' \in 0..MaxFaults
        BY CallIs DEF Settle, GraceOver, Launching
  <1>2. UNCHANGED <<link, supervisor, bindings, atChild, turn>>
        BY DEF Settle, GraceOver
  <1>3. Good(c, lost, turn[c], Pending(c)) /\ Moves(k, lost) /\ ~Launching(lost)
        BY <1>1, UnconfirmedIs
  <1>4. CASE GraceOver(c)
        <2>1. Set(c, lost)
              BY <1>4 DEF GraceOver
        <2> HIDE DEF lost
        <2>2. QED
              BY <1>1, <1>2, <1>3, <2>1, SetOnly DEF Quiet
  <1>5. CASE Settle(c)
        <2>1. Receive(c, lost, {Confirmed(c, kind)})
              BY <1>5 DEF Settle
        <2>2. ASSUME k.mail.queue # <<>>, Head(k.mail.queue).turn = c
              PROVE  \A n \in {Confirmed(c, kind)} :
                       Good(c, n, turn[c], Pending(c)) /\ Moves(k, n) /\ ~Launching(n)
              <3>1. kind \in Statuses => turn[c].state = kind
                    <4>1. 1 \in DOMAIN k.mail.queue /\ k.mail.queue[1] = Head(k.mail.queue)
                          BY <1>1, <2>2 DEF Future, Mail
                    <4>2. QED
                          BY <1>1, <2>2, <4>1 DEF Honest, Reports
              <3> HIDE DEF kind
              <3>2. QED
                    BY <1>1, <3>1, ConfirmedIs
        <2> HIDE DEF kind, lost
        <2>3. \E n : Set(c, n) /\ Good(c, n, turn[c], Pending(c)) /\ Moves(k, n) /\ ~Launching(n)
              BY <1>1, <1>3, <2>1, <2>2, ReceiveIs
        <2>4. QED
              BY <1>1, <1>2, <2>3, SetOnly DEF Quiet
  <1>6. QED
        BY <1>4, <1>5

LEMMA CutKeeps ==
  ASSUME IInv, NEW c \in Calls, NEW code \in Codes, Cut(c, code), faults' \in 0..MaxFaults
  PROVE  IInv'
  <1> DEFINE n == Interrupt(c, Known(code))
  <1>1. Good(c, call[c], turn[c], Pending(c)) /\ call[c].pc = "turning" /\ code \in ErrorCode
        BY CallIs DEF Cut, Codes, ErrorCode
  <1>2. Set(c, n) /\ UNCHANGED <<link, supervisor, bindings, atChild, turn>>
        BY DEF Cut
  <1>3. Good(c, n, turn[c], Pending(c)) /\ Moves(call[c], n) /\ ~Launching(n)
        BY <1>1, InterruptIs
  <1> HIDE DEF n
  <1>4. Quiet(call[c], n)
        BY <1>1, <1>3 DEF Quiet, Launching
  <1>5. QED
        BY <1>2, <1>3, <1>4, SetOnly

-----------------------------------------------------------------------------
(* The supervisor.                                                           *)
LEMMA KillIs ==
  ASSUME IInv, NEW g \in Children \cup {None}, Kill(g)
  PROVE  /\ LinkOK' /\ turn' \in [Calls -> Turn]
         /\ \A h \in Children : link'[h].child = "up" => link[h].child = "up" /\ h # g
         /\ \A d \in Calls : Good(d, call[d], turn'[d], Pending(d))
  <1>1. link \in [Children -> Link] /\ turn \in [Calls -> Turn] /\ None \notin Children
        BY AppServerAssumption DEF IInv, Types, LinkOK, Link, Children
  <1>2. CASE g = None \/ link[g].child # "up"
        <2>1. UNCHANGED <<link, turn>>
              BY <1>2 DEF Kill
        <2>2. \A h \in Children : link[h].child = "up" => h # g
              BY <1>1, <1>2
        <2>3. QED
              BY <1>1, <2>1, <2>2 DEF IInv, LinkOK, Link
  <1>3. CASE ~(g = None \/ link[g].child # "up")
        <2>1. link' = [link EXCEPT ![g].child = "dead"] /\ LoseTurns(g)
              BY <1>3 DEF Kill
        <2>2. g \in Children
              BY <1>3
        <2>3. link' \in [Children -> Link] /\ link'[g].child = "dead"
              BY <1>1, <2>1, <2>2 DEF Link
        <2>4. \A h \in Children \ {g} : link'[h] = link[h]
              BY <1>1, <2>1
        <2>5. \A d \in Calls :
                \/ turn'[d] = turn[d]
                \/ turn[d].state = "running" /\ turn'[d] = [turn[d] EXCEPT !.state = "lost"]
              BY <2>1 DEF LoseTurns
        <2>6. turn' \in [Calls -> Turn]
              <3>1. \A d \in Calls : turn[d] \in Turn /\ [turn[d] EXCEPT !.state = "lost"] \in Turn
                    BY <1>1 DEF Turn
              <3>2. \A d \in Calls : turn'[d] \in Turn
                    BY <2>5, <3>1
              <3>3. turn' = [d \in Calls |-> turn'[d]]
                    BY <2>1 DEF LoseTurns
              <3>4. QED
                    BY <3>2, <3>3
        <2>7. ASSUME NEW d \in Calls PROVE Good(d, call[d], turn'[d], Pending(d))
              <3>1. Good(d, call[d], turn[d], Pending(d)) /\ turn[d] \in Turn
                    BY CallIs
              <3>2. CASE turn'[d] = turn[d]
                    BY <3>1, <3>2
              <3>3. CASE turn[d].state = "running" /\ turn'[d] = [turn[d] EXCEPT !.state = "lost"]
                    <4> DEFINE t == turn[d]
                               p == Pending(d)
                               k == call[d]
                    <4>1. d \in Calls /\ t \in Turn /\ t.state = "running" /\ Good(d, k, t, p)
                          BY <3>1, <3>3
                    <4> HIDE DEF t, p, k
                    <4>2. Good(d, k, [t EXCEPT !.state = "lost"], p)
                          BY ONLY <4>1, TurnIs
                    <4>3. QED
                          BY <3>3, <4>2 DEF t, p, k
              <3>4. QED
                    BY <2>5, <3>2, <3>3
        <2>8. QED
              BY <2>3, <2>4, <2>6, <2>7 DEF LinkOK, Link
  <1>4. QED
        BY <1>2, <1>3

(* A call that moves with the supervisor.                                    *)
LEMMA OneMoves ==
  ASSUME IInv, NEW c \in Calls, NEW n, Set(c, n), Good(c, n, turn'[c], Pending(c)'),
         Moves(call[c], n),
         \A d \in Calls \ {c} : Good(d, call[d], turn'[d], Pending(d)'),
         bindings' = bindings, LinkOK', turn' \in [Calls -> Turn], supervisor' \in Supervisor,
         atChild' \subseteq Ids, faults' \in 0..MaxFaults
  PROVE  /\ call'[c] = n /\ \A d \in Calls \ {c} : call'[d] = call[d]
         /\ Supervised(call', link', supervisor') => IInv'
  <1>1. Types /\ call' = [call EXCEPT ![c] = n] /\ n \in Future
        BY DEF IInv, Set, Good
  <1>2. call'[c] = n /\ \A d \in Calls \ {c} : call'[d] = call[d]
        BY <1>1 DEF Types
  <1>3. Types'
        BY <1>1 DEF Types
  <1>4. \A d \in Calls : Good(d, call'[d], turn'[d], Pending(d)')
        BY <1>2
  <1>5. \A d \in Calls : /\ call[d].request \in Request /\ Placed(call[d])
                         /\ Moves(call[d], call'[d])
        <2>1. \A d \in Calls : Moves(call[d], call[d])
              BY DEF Moves
        <2>2. QED
              BY <1>2, <2>1, CallIs
  <1>6. Locked(call', bindings')
        <2>1. \A s \in Sessions : bindings'[s] \in {bindings[s], None}
              OBVIOUS
        <2>2. QED
              BY <1>5, <2>1, LockedKept DEF IInv
  <1>7. QED
        BY <1>2, <1>3, <1>4, <1>6 DEF IInv

(* Who has the mutex, and which children are up then.                        *)
LEMMA MutexIs ==
  ASSUME IInv
  PROVE  /\ supervisor \in Supervisor
         /\ \A d \in Calls : Launching(call[d]) <=> supervisor.holder = d
         /\ supervisor.holder # None => supervisor.running = None
         /\ supervisor.stop = "done" => supervisor.running = None /\ supervisor.holder = None
         /\ \A g \in Children : link[g].child = "up" =>
              \/ supervisor.running = g
              \/ \E d \in Calls : /\ call[d].pc = "launching" /\ call[d].rpc = g
                                  /\ supervisor.holder = d
         /\ None \notin Calls /\ None \notin Children
  <1>1. None \notin Calls /\ None \notin Children
        BY AppServerAssumption DEF Children
  <1>2. QED
        BY <1>1 DEF IInv, Types, Supervised, Launching

LEMMA StopFailedKeeps ==
  ASSUME IInv, NEW c \in Calls, StopFailed(c)
  PROVE  IInv'
  <1> DEFINE k == call[c]
             n == [k EXCEPT !.pc = "pausing"]
             r == supervisor.running
  <1>1. /\ k \in Future /\ k.pc = "queued" /\ Placed(k) /\ supervisor.holder = None
        /\ turn[c] = NoTurn /\ ~Pending(c) /\ r \in Children \cup {None}
        BY CallIs, MutexIs DEF StopFailed, Holding, Honest, Early, Supervisor
  <1>2. /\ Kill(r) /\ UNCHANGED <<bindings, atChild, faults>>
        /\ atChild' \subseteq Ids /\ faults' \in 0..MaxFaults
        BY DEF StopFailed, IInv, Types
  <1>3. /\ LinkOK' /\ turn' \in [Calls -> Turn]
        /\ \A h \in Children : link'[h].child = "up" => link[h].child = "up" /\ h # r
        /\ \A d \in Calls : Good(d, call[d], turn'[d], Pending(d))
        BY <1>1, <1>2, KillIs
  <1>4. \A d \in Calls : Pending(d)' = Pending(d)
        BY <1>2 DEF Pending
  <1>5. \A h \in Children : link'[h].child # "up"
        BY <1>1, <1>3, MutexIs
  <1>6. turn'[c] = NoTurn
        BY <1>1, <1>3 DEF Good, Honest, Early
  <1>7. CASE /\ ~Stopping /\ Set(c, n)
             /\ supervisor' = [supervisor EXCEPT !.running = None, !.holder = c]
        <2>1. /\ n \in Future /\ n.request = k.request /\ n.image = k.image /\ n.result = k.result
              /\ n.mail = k.mail /\ n.rpc = k.rpc /\ n.pc = "pausing" /\ n.ask = k.ask
              <3>1. "pausing" \in Pcs
                    BY DEF Pcs
              <3>2. QED
                    BY <1>1, <3>1 DEF Future
        <2> HIDE DEF n
        <2>2. Placed(n)
              BY <1>1, <2>1 DEF Placed, Requesting
        <2>3. Good(c, n, turn'[c], Pending(c)')
              BY <1>1, <1>3, <1>4, <1>6, <2>1, <2>2, SameIs
        <2>4. Moves(k, n)
              BY <2>1 DEF Moves, Locks, Binds, Requesting
        <2>5. /\ supervisor' \in Supervisor /\ supervisor'.running = None /\ supervisor'.holder = c
              /\ supervisor'.stop # "done"
              BY <1>7, MutexIs DEF Supervisor, Stopping
        <2>6. /\ call'[c] = n /\ \A d \in Calls \ {c} : call'[d] = call[d]
              /\ Supervised(call', link', supervisor') => IInv'
              BY <1>2, <1>3, <1>4, <1>7, <2>3, <2>4, <2>5, OneMoves
        <2>7. \A d \in Calls : Launching(call'[d]) <=> supervisor'.holder = d
              BY <1>1, <2>1, <2>5, <2>6, MutexIs DEF Launching
        <2>8. Supervised(call', link', supervisor')
              BY <1>5, <2>5, <2>7 DEF Supervised
        <2>9. QED
              BY <2>6, <2>8
  <1>8. ASSUME NEW code \in {"cancelled", "timeout"}, Set(c, End(c, Known(code))),
               supervisor' = [supervisor EXCEPT !.running = None]
        PROVE  IInv'
        <2> DEFINE e == End(c, Known(code))
        <2>1. Told(k, Known(code), turn'[c], Pending(c))
              BY <1>1, <1>6, EarlyTold
        <2>2. Good(c, e, turn'[c], Pending(c)) /\ Moves(k, e) /\ ~Launching(e)
              BY <1>3, <2>1, EndIs
        <2>3. /\ supervisor' \in Supervisor /\ supervisor'.running = None
              /\ supervisor'.holder = None
              BY <1>1, <1>8, MutexIs DEF Supervisor
        <2> HIDE DEF e
        <2>4. /\ call'[c] = e /\ \A d \in Calls \ {c} : call'[d] = call[d]
              /\ Supervised(call', link', supervisor') => IInv'
              BY <1>2, <1>3, <1>4, <1>8, <2>2, <2>3, OneMoves DEF e
        <2>5. \A d \in Calls : Launching(call'[d]) <=> supervisor'.holder = d
              BY <1>1, <2>2, <2>3, <2>4, MutexIs
        <2>6. Supervised(call', link', supervisor')
              BY <1>5, <2>3, <2>5 DEF Supervised
        <2>7. QED
              BY <2>4, <2>6
  <1>9. QED
        BY <1>7, <1>8 DEF StopFailed

LEMMA LaunchKeeps ==
  ASSUME IInv, NEW c \in Calls, Launch(c)
  PROVE  IInv'
  <1> DEFINE k == call[c]
             g == supervisor.started + 1
             n == [k EXCEPT !.pc = "launching", !.rpc = g]
             e == End(c, Known(IF Stopping THEN "cancelled" ELSE "configuration"))
  <1>1. /\ Good(c, k, turn[c], Pending(c)) /\ k \in Future /\ k.pc = "pausing" /\ Placed(k)
        /\ turn[c] = NoTurn /\ ~Pending(c)
        BY CallIs DEF Launch, Honest, Early
  <1>2. supervisor.holder = c /\ supervisor.running = None /\ supervisor.stop # "done"
        BY <1>1, MutexIs DEF Launching
  <1>3. /\ UNCHANGED <<bindings, atChild, turn, faults>> /\ atChild' \subseteq Ids
        /\ faults' \in 0..MaxFaults /\ turn' \in [Calls -> Turn] /\ LinkOK
        BY DEF Launch, IInv, Types
  <1>4. \A d \in Calls : Good(d, call[d], turn'[d], Pending(d)') /\ Pending(d)' = Pending(d)
        BY <1>3, CallIs DEF Pending
  <1>5. \A h \in Children : link[h].child # "up"
        BY <1>1, <1>2, MutexIs
  <1>6. CASE /\ g \in Children /\ link' = [link EXCEPT ![g] = Started]
             /\ supervisor' = [supervisor EXCEPT !.started = g] /\ Set(c, n)
        <2>1. /\ n \in Future /\ n.request = k.request /\ n.image = k.image /\ n.result = k.result
              /\ n.mail = k.mail /\ n.rpc = g /\ n.pc = "launching" /\ n.ask = k.ask
              <3>1. "launching" \in Pcs
                    BY DEF Pcs
              <3> HIDE DEF g
              <3>2. QED
                    BY <1>1, <1>6, <3>1 DEF Future
        <2>2. LinkOK' /\ \A h \in Children : link'[h].child = "up" => h = g
              <3>1. Started \in Link
                    BY DEF Started, Link
              <3> HIDE DEF g
              <3>2. QED
                    BY <1>3, <1>5, <1>6, <3>1 DEF LinkOK, Link
        <2>3. /\ supervisor' \in Supervisor /\ supervisor'.running = None
              /\ supervisor'.holder = c /\ supervisor'.stop # "done"
              <3> HIDE DEF g
              <3>1. QED
                    BY <1>2, <1>6, MutexIs DEF Supervisor
        <2> HIDE DEF n, g
        <2>4. Placed(n)
              BY <1>1, <1>6, <2>1 DEF Placed, Requesting
        <2>5. Good(c, n, turn'[c], Pending(c)')
              BY <1>1, <1>3, <1>4, <2>1, <2>4, SameIs
        <2>6. Moves(k, n)
              BY <2>1 DEF Moves, Locks, Binds, Requesting
        <2>7. /\ call'[c] = n /\ \A d \in Calls \ {c} : call'[d] = call[d]
              /\ Supervised(call', link', supervisor') => IInv'
              BY <1>3, <1>4, <1>6, <2>2, <2>3, <2>5, <2>6, OneMoves
        <2>8. \A d \in Calls : Launching(call'[d]) <=> supervisor'.holder = d
              BY <1>2, <2>1, <2>3, <2>7, MutexIs DEF Launching
        <2>9. Supervised(call', link', supervisor')
              BY <2>1, <2>2, <2>3, <2>7, <2>8 DEF Supervised
        <2>10. QED
              BY <2>7, <2>9
  <1>7. CASE /\ Set(c, e) /\ supervisor' = [supervisor EXCEPT !.holder = None]
             /\ UNCHANGED link
        <2>1. Told(k, Known(IF Stopping THEN "cancelled" ELSE "configuration"), turn[c], Pending(c))
              <3>1. "configuration" \in ErrorCode \ {"cancelled", "timeout"}
                    BY DEF ErrorCode
              <3>2. QED
                    BY <1>1, <3>1, PlainTold, EarlyTold
        <2>2. Good(c, e, turn[c], Pending(c)) /\ Moves(k, e) /\ ~Launching(e)
              BY <1>1, <2>1, EndIs
        <2> HIDE DEF e
        <2>3. /\ supervisor' \in Supervisor /\ supervisor'.running = None
              /\ supervisor'.holder = None
              BY <1>2, <1>7, MutexIs DEF Supervisor
        <2>4. LinkOK'
              BY <1>3, <1>7 DEF LinkOK
        <2>5. Good(c, e, turn'[c], Pending(c)')
              BY <1>3, <1>4, <2>2
        <2>6. /\ call'[c] = e /\ \A d \in Calls \ {c} : call'[d] = call[d]
              /\ Supervised(call', link', supervisor') => IInv'
              BY <1>3, <1>4, <1>7, <2>2, <2>3, <2>4, <2>5, OneMoves
        <2>7. \A d \in Calls : Launching(call'[d]) <=> supervisor'.holder = d
              BY <1>2, <2>2, <2>3, <2>6, MutexIs
        <2>8. Supervised(call', link', supervisor')
              BY <1>5, <1>7, <2>3, <2>7 DEF Supervised
        <2>9. QED
              BY <2>6, <2>8
  <1>8. QED
        BY <1>6, <1>7 DEF Launch

(* The mutex is given back, and no child is up then.                         *)
LEMMA ReleasedKeeps ==
  ASSUME IInv, NEW c \in Calls, NEW n, Set(c, n), Good(c, n, turn'[c], Pending(c)'),
         Moves(call[c], n), ~Launching(n), Launching(call[c]),
         \A d \in Calls \ {c} : Good(d, call[d], turn'[d], Pending(d)'),
         bindings' = bindings, LinkOK', turn' \in [Calls -> Turn],
         supervisor' = [supervisor EXCEPT !.holder = None],
         atChild' \subseteq Ids, faults' \in 0..MaxFaults,
         \A h \in Children : link'[h].child # "up"
  PROVE  IInv'
  <1>1. supervisor.holder = c /\ supervisor.running = None
        BY MutexIs
  <1>2. /\ supervisor' \in Supervisor /\ supervisor'.holder = None
        /\ supervisor'.running = None
        BY <1>1, MutexIs DEF Supervisor
  <1>3. /\ call'[c] = n /\ \A d \in Calls \ {c} : call'[d] = call[d]
        /\ Supervised(call', link', supervisor') => IInv'
        BY <1>2, OneMoves
  <1>4. \A d \in Calls : Launching(call'[d]) <=> supervisor'.holder = d
        BY <1>1, <1>2, <1>3, MutexIs
  <1>5. Supervised(call', link', supervisor')
        BY <1>2, <1>4 DEF Supervised
  <1>6. QED
        BY <1>3, <1>5

LEMMA InitializedKeeps ==
  ASSUME IInv, NEW c \in Calls, Initialized(c)
  PROVE  IInv'
  <1> DEFINE k == call[c]
             g == k.rpc
             n == Connected(c, g)
             e == End(c, Known("protocol"))
  <1>1. /\ Good(c, k, turn[c], Pending(c)) /\ k.pc = "launching" /\ g \in Children
        BY CallIs DEF Initialized, Placed
  <1>2. supervisor.holder = c /\ supervisor.running = None /\ supervisor.stop # "done"
        BY <1>1, MutexIs DEF Launching
  <1>3. /\ UNCHANGED <<bindings, atChild, faults>> /\ atChild' \subseteq Ids
        /\ faults' \in 0..MaxFaults
        BY DEF Initialized, IInv, Types
  <1>4. \A d \in Calls : Pending(d)' = Pending(d)
        BY <1>3 DEF Pending
  <1>5. \A h \in Children : link[h].child = "up" => h = g
        BY <1>2, MutexIs
  <1>6. CASE /\ supervisor' = [supervisor EXCEPT !.running = g, !.holder = None,
                                                 !.generation = @ + 1]
             /\ Set(c, n) /\ UNCHANGED <<link, turn>>
        <2>1. Good(c, n, turn[c], Pending(c)) /\ Moves(k, n) /\ ~Launching(n)
              BY <1>1, ConnectedIs
        <2> HIDE DEF n
        <2>2. /\ supervisor' \in Supervisor /\ supervisor'.running = g
              /\ supervisor'.holder = None /\ supervisor'.stop # "done"
              <3>1. supervisor.generation + 1 \in Nat
                    BY MutexIs DEF Supervisor
              <3>2. QED
                    BY <1>1, <1>2, <1>6, <3>1, MutexIs DEF Supervisor
        <2>3. LinkOK' /\ turn' \in [Calls -> Turn]
              BY <1>6 DEF IInv, Types, LinkOK
        <2>4. \A d \in Calls : Good(d, call[d], turn'[d], Pending(d)')
              BY <1>4, <1>6, CallIs
        <2>5. Good(c, n, turn'[c], Pending(c)')
              BY <1>4, <1>6, <2>1
        <2>6. /\ call'[c] = n /\ \A d \in Calls \ {c} : call'[d] = call[d]
              /\ Supervised(call', link', supervisor') => IInv'
              BY <1>3, <1>6, <2>1, <2>2, <2>3, <2>4, <2>5, OneMoves
        <2>7. \A d \in Calls : Launching(call'[d]) <=> supervisor'.holder = d
              BY <1>2, <2>1, <2>2, <2>6, MutexIs
        <2>8. Supervised(call', link', supervisor')
              BY <1>5, <1>6, <2>2, <2>7 DEF Supervised
        <2>9. QED
              BY <2>6, <2>8
  <1>7. CASE /\ Kill(g) /\ supervisor' = [supervisor EXCEPT !.holder = None] /\ Set(c, e)
        <2>1. /\ LinkOK' /\ turn' \in [Calls -> Turn]
              /\ \A h \in Children : link'[h].child = "up" => link[h].child = "up" /\ h # g
              /\ \A d \in Calls : Good(d, call[d], turn'[d], Pending(d))
              BY <1>1, <1>7, KillIs
        <2>2. \A h \in Children : link'[h].child # "up"
              BY <1>5, <2>1
        <2>3. "protocol" \in ErrorCode \ {"cancelled", "timeout"}
              BY DEF ErrorCode
        <2>4. Told(k, Known("protocol"), turn'[c], Pending(c))
              BY <2>3, PlainTold
        <2>5. Good(c, e, turn'[c], Pending(c)) /\ Moves(k, e) /\ ~Launching(e)
              BY <2>1, <2>4, EndIs
        <2> HIDE DEF e
        <2>6. \A d \in Calls : Good(d, call[d], turn'[d], Pending(d)')
              BY <1>4, <2>1
        <2>7. Good(c, e, turn'[c], Pending(c)') /\ Launching(k)
              BY <1>1, <1>4, <2>5 DEF Launching
        <2>8. QED
              BY <1>3, <1>7, <2>1, <2>2, <2>5, <2>6, <2>7, ReleasedKeeps
  <1>8. QED
        BY <1>6, <1>7 DEF Initialized

(* A dropped future gives back the mutex, if it has it, with its child.      *)
LEMMA DropKeeps ==
  ASSUME IInv, NEW c \in Calls, Drop(c)
  PROVE  IInv'
  <1> DEFINE k == call[c]
             e == End(c, NoResult)
             n == [e EXCEPT !.pc = "dropped"]
             g == k.rpc
  <1>1. Set(c, n) /\ supervisor' = [supervisor EXCEPT !.holder = IF @ = c THEN None ELSE @]
        BY DEF Drop
  <1>2. /\ faults' \in 0..MaxFaults /\ bindings' = bindings /\ atChild' \subseteq Ids
        /\ \A d \in Calls : Pending(d)' = Pending(d)
        BY FaultIs, UnansweredIs DEF Drop
  <1>3. /\ LinkOK' /\ turn' \in [Calls -> Turn]
        /\ \A h \in Children :
             link'[h].child = "up" => link[h].child = "up" /\ (k.pc = "launching" => h # g)
        /\ \A d \in Calls : Good(d, call[d], turn'[d], Pending(d))
        <2>1. CASE k.pc = "launching"
              <3>1. g \in Children
                    BY <2>1, CallIs DEF Placed
              <3>2. Kill(g)
                    BY <2>1 DEF Drop
              <3>3. QED
                    BY <3>1, <3>2, KillIs
        <2>2. CASE k.pc # "launching"
              <3>1. UNCHANGED <<link, turn>>
                    BY <2>2 DEF Drop
              <3>2. QED
                    BY <2>2, <3>1, CallIs DEF IInv, Types, LinkOK
        <2>3. QED
              BY <2>1, <2>2
  <1>4. Told(k, NoResult, turn'[c], Pending(c))
        BY DEF Told, Report, NoResult, Success, Known
  <1>5. /\ Good(c, e, turn'[c], Pending(c)) /\ e.pc = "done" /\ Moves(k, e)
        <2>1. Good(c, k, turn'[c], Pending(c))
              BY <1>3
        <2>2. QED
              BY <1>4, <2>1, EndIs
  <1>6. e.result = NoResult
        BY <1>5 DEF End, Good, NewCall, Future
  <1> HIDE DEF e
  <1>7. /\ n \in Future /\ n.request = e.request /\ n.image = e.image /\ n.result = e.result
        /\ n.mail = e.mail /\ n.rpc = e.rpc /\ n.pc = "dropped" /\ n.ask = e.ask
        <2>1. "dropped" \in Pcs
              BY DEF Pcs
        <2>2. QED
              BY <1>5, <2>1 DEF Future, Good
  <1> HIDE DEF n
  <1>8. Placed(n) /\ ~Early(n) /\ ~Launching(n)
        BY <1>5, <1>6, <1>7 DEF Good, Placed, Early, Requesting, Launching
  <1>9. Good(c, n, turn'[c], Pending(c))
        BY <1>5, <1>7, <1>8, SameIs
  <1>10. Moves(k, n)
        BY <1>5, <1>7 DEF Moves, Locks, Binds, Requesting
  <1>11. Good(c, n, turn'[c], Pending(c)') /\ \A d \in Calls : Good(d, call[d], turn'[d], Pending(d)')
        BY <1>2, <1>3, <1>9
  <1>12. CASE Launching(k)
        <2>1. supervisor.holder = c /\ supervisor.running = None
              BY <1>12, MutexIs
        <2>2. \A h \in Children : link'[h].child # "up"
              BY <1>3, <2>1, MutexIs
        <2>3. supervisor' = [supervisor EXCEPT !.holder = None]
              BY <1>1, <2>1
        <2>4. QED
              BY <1>1, <1>2, <1>3, <1>8, <1>10, <1>11, <1>12, <2>2, <2>3, ReleasedKeeps
  <1>13. CASE ~Launching(k)
        <2>1. supervisor.holder # c
              BY <1>13, MutexIs
        <2>2. supervisor' = supervisor /\ supervisor \in Supervisor
              BY <1>1, <2>1, MutexIs DEF Supervisor
        <2>3. /\ call'[c] = n /\ \A d \in Calls \ {c} : call'[d] = call[d]
              /\ Supervised(call', link', supervisor') => IInv'
              BY <1>1, <1>2, <1>3, <1>10, <1>11, <2>2, OneMoves
        <2>4. Quiet(k, n)
              BY <1>8, <1>13 DEF Quiet
        <2>5. \A d \in Calls : Quiet(call[d], call'[d])
              BY <2>3, <2>4 DEF Quiet
        <2>6. Supervised(call', link', supervisor')
              BY <1>3, <2>2, <2>5, SupervisedKept DEF IInv
        <2>7. QED
              BY <2>3, <2>6
  <1>14. QED
        BY <1>12, <1>13

LEMMA ShutdownKeeps ==
  ASSUME IInv, Shutdown
  PROVE  IInv'
  <1>1. /\ supervisor' = [supervisor EXCEPT !.stop = "asked"] /\ faults' \in 0..MaxFaults
        /\ UNCHANGED <<link, call, bindings, atChild, turn>>
        BY FaultIs DEF Shutdown
  <1>2. /\ supervisor' \in Supervisor /\ supervisor'.running = supervisor.running
        /\ supervisor'.holder = supervisor.holder /\ supervisor'.stop # "done"
        BY <1>1, MutexIs DEF Supervisor
  <1>3. Types' /\ \A c \in Calls : Pending(c)' = Pending(c)
        BY <1>1, <1>2 DEF IInv, Types, LinkOK, Pending
  <1>4. Supervised(call', link', supervisor')
        BY <1>1, <1>2 DEF IInv, Supervised
  <1>5. QED
        BY <1>1, <1>3, <1>4 DEF IInv

LEMMA StopRunningKeeps ==
  ASSUME IInv, StopRunning
  PROVE  IInv'
  <1> DEFINE r == supervisor.running
  <1>1. /\ Kill(r) /\ UNCHANGED <<call, bindings, atChild, faults>>
        /\ supervisor' = [supervisor EXCEPT !.stop = "done", !.running = None]
        /\ supervisor.holder = None /\ r \in Children \cup {None}
        BY MutexIs DEF StopRunning, Supervisor
  <1>2. /\ LinkOK' /\ turn' \in [Calls -> Turn]
        /\ \A h \in Children : link'[h].child = "up" => link[h].child = "up" /\ h # r
        /\ \A d \in Calls : Good(d, call[d], turn'[d], Pending(d))
        BY <1>1, KillIs
  <1>3. \A h \in Children : link'[h].child # "up"
        BY <1>1, <1>2, MutexIs
  <1>4. supervisor' \in Supervisor /\ supervisor'.running = None /\ supervisor'.holder = None
        BY <1>1, MutexIs DEF Supervisor
  <1>5. Types' /\ \A c \in Calls : Pending(c)' = Pending(c)
        BY <1>1, <1>2, <1>4 DEF IInv, Types, Pending
  <1>6. \A c \in Calls : ~Launching(call'[c])
        BY <1>1, MutexIs
  <1>7. Supervised(call', link', supervisor')
        BY <1>3, <1>4, <1>6, MutexIs DEF Supervised
  <1>8. QED
        BY <1>1, <1>2, <1>5, <1>7 DEF IInv

-----------------------------------------------------------------------------
(* The child.                                                                *)
LEMMA DispatchIs ==
  ASSUME IInv, NEW g \in Children, NEW c \in Calls, NEW k \in Kinds, NEW body,
         Dispatch(g, <<c, k>>, body)
  PROVE  /\ LinkOK' /\ \A h \in Children : link'[h].child = link[h].child
         /\ \A d \in Calls \ {c} : call'[d] = call[d]
         /\ call' \in [Calls -> Future]
         /\ \/ call'[c] = call[c]
            \/ call'[c] = Replied(c, body) /\ Requesting(call[c]) /\ call[c].ask = k
  <1>1. LinkOK /\ call \in [Calls -> Future]
        BY DEF IInv, Types
  <1>2. CASE ~(link[g].reading /\ <<c, k>> \in link[g].pending)
        <2>1. UNCHANGED <<link, call>>
              BY <1>2 DEF Dispatch
        <2>2. QED
              BY <1>1, <2>1 DEF LinkOK
  <1>3. CASE link[g].reading /\ <<c, k>> \in link[g].pending
        <2>1. /\ link' = [link EXCEPT ![g].pending = @ \ {<<c, k>>}]
              /\ call' = IF Awaits(c) /\ Id(c) = <<c, k>>
                         THEN [call EXCEPT ![c] = Replied(c, body)] ELSE call
              BY <1>3 DEF Dispatch
        <2>2. LinkOK' /\ \A h \in Children : link'[h].child = link[h].child
              BY <1>1, <2>1 DEF LinkOK
        <2>3. CASE Awaits(c) /\ Id(c) = <<c, k>>
              <3>1. Requesting(call[c]) /\ call[c].ask = k
                    BY <2>3 DEF Awaits, Id, Requesting
              <3>2. Replied(c, body) \in Future
                    BY <3>1, CallIs, RepliedIs DEF Good
              <3>3. QED
                    BY <1>1, <2>1, <2>2, <2>3, <3>1, <3>2
        <2>4. CASE ~(Awaits(c) /\ Id(c) = <<c, k>>)
              BY <1>1, <2>1, <2>2, <2>4
        <2>5. QED
              BY <2>3, <2>4
  <1>4. QED
        BY <1>2, <1>3

LEMMA HandleKeeps ==
  ASSUME IInv, NEW c \in Calls, NEW k \in Kinds, Handle(c, k)
  PROVE  IInv'
  <1> DEFINE g == call[c].rpc
             p == (k # "turn") /\ Pending(c)
  <1>1. /\ g \in Children /\ atChild' = atChild \ {<<c, k>>} /\ <<c, k>> \in atChild
        /\ UNCHANGED <<supervisor, bindings, faults>>
        BY CallIs DEF Handle, Serving, Future
  <1>2. PICK body :
          /\ \/ Dispatch(g, <<c, k>>, body)
             \/ UNCHANGED <<link, call>>
          /\ turn' = IF k = "turn" /\ body # "refused"
                     THEN [turn EXCEPT ![c].state = "running"] ELSE turn
        BY DEF Handle
  <1>3. /\ LinkOK' /\ \A h \in Children : link'[h].child = link[h].child
        /\ \A d \in Calls \ {c} : call'[d] = call[d]
        /\ call' \in [Calls -> Future]
        /\ \/ call'[c] = call[c]
           \/ call'[c] = Replied(c, body) /\ Requesting(call[c]) /\ call[c].ask = k
        <2>1. CASE Dispatch(g, <<c, k>>, body)
              BY <1>1, <2>1, DispatchIs
        <2>2. CASE UNCHANGED <<link, call>>
              BY <2>2 DEF IInv, Types, LinkOK
        <2>3. QED
              BY <1>2, <2>1, <2>2
  <1>4. (Pending(c)' <=> p) /\ \A d \in Calls \ {c} : Pending(d)' = Pending(d)
        BY <1>1 DEF Pending
  <1>5. /\ turn' \in [Calls -> Turn] /\ \A d \in Calls \ {c} : turn'[d] = turn[d]
        /\ \/ turn'[c] = turn[c]
           \/ k = "turn" /\ turn'[c] = [turn[c] EXCEPT !.state = "running"]
        <2>1. turn \in [Calls -> Turn]
              BY DEF IInv, Types
        <2>2. [turn[c] EXCEPT !.state = "running"] \in Turn
              BY <2>1 DEF Turn
        <2>3. QED
              BY <1>2, <2>1, <2>2
  <1>6. Good(c, call[c], turn'[c], p)
        <2>1. Good(c, call[c], turn[c], Pending(c))
              BY CallIs
        <2>2. CASE k # "turn"
              <3>1. p = Pending(c) /\ turn'[c] = turn[c]
                    BY <1>5, <2>2 DEF Pending
              <3>2. QED
                    BY <2>1, <3>1
        <2>3. CASE k = "turn"
              <3>1. Pending(c) = TRUE /\ p = FALSE
                    BY <1>1, <2>3 DEF Pending
              <3>2. Good(c, call[c], turn[c], TRUE)
                    BY <2>1, <3>1
              <3>3. /\ Good(c, call[c], turn[c], FALSE)
                    /\ Good(c, call[c], [turn[c] EXCEPT !.state = "running"], FALSE)
                    BY ONLY <3>2, c \in Calls, StartedIs, ForgottenIs
              <3>4. QED
                    BY <1>5, <3>1, <3>3
        <2>4. QED
              BY <2>2, <2>3
  <1>7. Good(c, call'[c], turn'[c], p) /\ Moves(call[c], call'[c]) /\ Quiet(call[c], call'[c])
        <2>1. CASE call'[c] = call[c]
              BY <1>6, <2>1 DEF Moves, Quiet
        <2>2. CASE call'[c] = Replied(c, body) /\ Requesting(call[c]) /\ call[c].ask = k
              <3> DEFINE n == Replied(c, body)
              <3>1. Good(c, n, turn'[c], p) /\ Moves(call[c], n) /\ ~Launching(n)
                    BY <1>6, <2>2, RepliedIs
              <3>2. ~Launching(call[c])
                    BY <2>2 DEF Requesting, Launching
              <3> HIDE DEF n
              <3>3. call'[c] = n
                    BY <2>2 DEF n
              <3>4. QED
                    BY <3>1, <3>2, <3>3 DEF Quiet
        <2>3. QED
              BY <1>3, <2>1, <2>2
  <1>8. Good(c, call'[c], turn'[c], Pending(c)')
        <2>1. Pending(c)' = p
              BY <1>4 DEF Pending
        <2>2. QED
              BY <1>7, <2>1
  <1>9. \A d \in Calls : /\ Good(d, call'[d], turn'[d], Pending(d)')
                         /\ Moves(call[d], call'[d]) /\ Quiet(call[d], call'[d])
        <2>1. \A d \in Calls : Moves(call[d], call[d]) /\ Quiet(call[d], call[d])
              BY DEF Moves, Quiet
        <2>2. QED
              BY <1>3, <1>4, <1>5, <1>7, <1>8, <2>1, CallIs
  <1>10. Types'
        BY <1>1, <1>3, <1>5 DEF IInv, Types
  <1>11. QED
        BY <1>1, <1>3, <1>9, <1>10, IInvKept

(* A notification about the turn of c reaches whoever listens, after the     *)
(* turn has become what it says.                                             *)
LEMMA BroadcastKeeps ==
  ASSUME IInv, NEW c \in Calls, NEW g, NEW kind, NEW t \in Turn,
         [turn |-> c, kind |-> kind] \in Notification,
         turn' = [turn EXCEPT ![c] = t], Good(c, call[c], t, Pending(c)),
         kind = "image" => t.drawn, kind \in Statuses => t.state = kind,
         Broadcast(g, [turn |-> c, kind |-> kind]),
         UNCHANGED <<supervisor, bindings, atChild, faults>>
  PROVE  IInv'
  <1> DEFINE n == [turn |-> c, kind |-> kind]
  <1>1. /\ turn' \in [Calls -> Turn] /\ turn'[c] = t
        /\ \A d \in Calls \ {c} : turn'[d] = turn[d]
        BY DEF IInv, Types
  <1>2. \A d \in Calls : Good(d, call[d], turn'[d], Pending(d))
        BY <1>1, CallIs
  <1>3. n \in Notification /\ n.turn = c /\ n.kind = kind
        OBVIOUS
  <1>4. /\ link' = link
        /\ call' = [d \in Calls |-> IF call[d].mail.hearing /\ call[d].rpc = g /\ link[g].reading
                                    THEN [call[d] EXCEPT !.mail = Push(@, n)] ELSE call[d]]
        BY DEF Broadcast
  <1> HIDE DEF n
  <1>5. ASSUME NEW d \in Calls
        PROVE  /\ Good(d, call'[d], turn'[d], Pending(d))
               /\ Moves(call[d], call'[d]) /\ Quiet(call[d], call'[d])
        <2> DEFINE f == [call[d] EXCEPT !.mail = Push(@, n)]
        <2>1. n.turn = d => /\ n.kind = "image" => turn'[d].drawn
                            /\ n.kind \in Statuses => turn'[d].state = n.kind
              BY <1>1, <1>3
        <2>2. Good(d, f, turn'[d], Pending(d)) /\ Moves(call[d], f) /\ Quiet(call[d], f)
              <3> DEFINE k == call[d]
                         u == turn'[d]
                         p == Pending(d)
              <3>1. d \in Calls /\ Good(d, k, u, p) /\ n \in Notification
                    BY <1>2, <1>3
              <3>2. n.turn = d => /\ n.kind = "image" => u.drawn
                                  /\ n.kind \in Statuses => u.state = n.kind
                    BY <2>1
              <3> HIDE DEF k, u, p
              <3>3. LET x == [k EXCEPT !.mail = Push(@, n)]
                    IN  Good(d, x, u, p) /\ Moves(k, x) /\ Quiet(k, x)
                    BY ONLY <3>1, <3>2, PushIs
              <3>4. QED
                    BY <3>3 DEF k, u, p
        <2>3. Moves(call[d], call[d]) /\ Quiet(call[d], call[d])
              BY DEF Moves, Quiet
        <2>4. call'[d] \in {f, call[d]}
              BY <1>4
        <2> HIDE DEF f
        <2>5. QED
              BY <1>2, <2>2, <2>3, <2>4
  <1>6. \A d \in Calls : Pending(d)' = Pending(d)
        BY DEF Pending
  <1>7. call' \in [Calls -> Future]
        <2>1. \A d \in Calls : call'[d] \in Future
              BY <1>5 DEF Good
        <2>2. call' = [d \in Calls |-> call'[d]]
              BY <1>4
        <2>3. QED
              BY <2>1, <2>2
  <1>8. Types'
        BY <1>1, <1>4, <1>7 DEF IInv, Types, LinkOK
  <1>9. \A d \in Calls : /\ Good(d, call'[d], turn'[d], Pending(d)')
                         /\ Moves(call[d], call'[d]) /\ Quiet(call[d], call'[d])
        BY <1>5, <1>6
  <1>10. QED
        BY <1>4, <1>8, <1>9, IInvKept

LEMMA DrawKeeps ==
  ASSUME IInv, NEW c \in Calls, Draw(c)
  PROVE  IInv'
  <1> DEFINE t == [turn[c] EXCEPT !.drawn = TRUE]
  <1>1. turn \in [Calls -> Turn] /\ turn[c].state = "running" /\ Good(c, call[c], turn[c], Pending(c))
        BY CallIs DEF Draw, IInv, Types
  <1>2. t \in Turn /\ t.drawn
        BY <1>1 DEF Turn
  <1>3. turn' = [turn EXCEPT ![c] = t]
        BY <1>1 DEF Draw
  <1>4. Good(c, call[c], t, Pending(c))
        BY <1>1, TurnIs
  <1>5. [turn |-> c, kind |-> "image"] \in Notification /\ "image" \notin Statuses
        BY DEF Notification, Statuses
  <1>6. /\ Broadcast(call[c].rpc, [turn |-> c, kind |-> "image"])
        /\ UNCHANGED <<supervisor, bindings, atChild, faults>>
        BY DEF Draw
  <1> HIDE DEF t
  <1>7. QED
        BY <1>2, <1>3, <1>4, <1>5, <1>6, BroadcastKeeps

LEMMA TurnEndsKeeps ==
  ASSUME IInv, NEW c \in Calls, NEW s \in Statuses, TurnEnds(c, s)
  PROVE  IInv'
  <1> DEFINE t == [turn[c] EXCEPT !.state = s]
  <1>1. turn \in [Calls -> Turn] /\ turn[c].state = "running" /\ Good(c, call[c], turn[c], Pending(c))
        BY CallIs DEF TurnEnds, IInv, Types
  <1>2. t \in Turn /\ t.state = s
        BY <1>1 DEF Turn
  <1>3. turn' = [turn EXCEPT ![c] = t]
        BY <1>1 DEF TurnEnds
  <1>4. Good(c, call[c], t, Pending(c))
        BY <1>1, TurnIs
  <1>5. [turn |-> c, kind |-> s] \in Notification /\ s # "image"
        BY DEF Notification, Statuses
  <1>6. /\ Broadcast(call[c].rpc, [turn |-> c, kind |-> s])
        /\ UNCHANGED <<supervisor, bindings, atChild, faults>>
        BY DEF TurnEnds
  <1> HIDE DEF t
  <1>7. QED
        BY <1>2, <1>3, <1>4, <1>5, <1>6, BroadcastKeeps

LEMMA StopReadingKeeps ==
  ASSUME IInv, NEW g \in Children, StopReading(g), faults' \in 0..MaxFaults,
         UNCHANGED <<supervisor, bindings, atChild, turn>>
  PROVE  IInv'
  <1>1. link' = [Failed(g) EXCEPT ![g].reading = FALSE] /\ call' = Notified(g)
        BY DEF StopReading
  <1>2. LinkOK' /\ \A h \in Children : link'[h].child = link[h].child
        BY <1>1, FailedIs DEF IInv, Types, LinkOK, Link
  <1>3. call' \in [Calls -> Future]
        <2>1. \A d \in Calls : Notified(g)[d] \in Future
              BY NotifiedIs DEF Good
        <2>2. Notified(g) = [d \in Calls |-> Notified(g)[d]]
              BY DEF Notified
        <2>3. QED
              BY <1>1, <2>1, <2>2
  <1>4. Types' /\ \A d \in Calls : Pending(d)' = Pending(d)
        BY <1>2, <1>3 DEF IInv, Types, Pending
  <1>5. \A d \in Calls : /\ Good(d, call'[d], turn'[d], Pending(d)')
                         /\ Moves(call[d], call'[d]) /\ Quiet(call[d], call'[d])
        BY <1>1, <1>4, NotifiedIs
  <1>6. QED
        BY <1>2, <1>4, <1>5, IInvKept

LEMMA BreakKeeps ==
  ASSUME IInv, NEW g \in Children, Break(g)
  PROVE  IInv'
  <1>1. faults' \in 0..MaxFaults /\ UNCHANGED <<supervisor, bindings, atChild>>
        BY FaultIs DEF Break
  <1>2. CASE Kill(g) /\ UNCHANGED call
        <2>1. /\ LinkOK' /\ turn' \in [Calls -> Turn]
              /\ \A h \in Children : link'[h].child = "up" => link[h].child = "up" /\ h # g
              /\ \A d \in Calls : Good(d, call[d], turn'[d], Pending(d))
              BY <1>2, KillIs
        <2>2. Types' /\ \A d \in Calls : Pending(d)' = Pending(d)
              BY <1>1, <1>2, <2>1 DEF IInv, Types, Pending
        <2>3. \A d \in Calls : /\ Good(d, call'[d], turn'[d], Pending(d)')
                               /\ Moves(call[d], call'[d]) /\ Quiet(call[d], call'[d])
              BY <1>2, <2>1, <2>2 DEF Moves, Quiet
        <2>4. QED
              BY <1>1, <2>1, <2>2, <2>3, IInvKept
  <1>3. CASE StopReading(g) /\ UNCHANGED turn
        BY <1>1, <1>3, StopReadingKeeps
  <1>4. QED
        BY <1>2, <1>3 DEF Break

LEMMA ReadEofKeeps ==
  ASSUME IInv, NEW g \in Children, ReadEof(g)
  PROVE  IInv'
  <1>1. faults' \in 0..MaxFaults
        BY DEF ReadEof, IInv, Types
  <1>2. QED
        BY <1>1, StopReadingKeeps DEF ReadEof

-----------------------------------------------------------------------------
LEMMA InitInv ==
  ASSUME Init
  PROVE  IInv
  <1>1. 1 \in Children /\ None \notin Calls
        BY AppServerAssumption DEF Children
  <1>2. PICK up \in {"up", "dead"} :
          link = [g \in Children |-> IF g = 1 THEN [Started EXCEPT !.child = up] ELSE Unborn]
        BY DEF Init
  <1>3. LinkOK /\ \A g \in Children : link[g].child = "up" => g = 1
        <2>1. /\ [Started EXCEPT !.child = up] \in Link /\ Unborn \in Link
              /\ Unborn.child = "unborn"
              BY DEF Started, Unborn, Link
        <2>2. \A g \in Children : link[g] \in Link
              BY <1>2, <2>1
        <2>3. \A g \in Children : g # 1 => link[g].child = "unborn"
              BY <1>2, <2>1
        <2>4. QED
              BY <1>2, <2>2, <2>3 DEF LinkOK, Link
  <1>4. supervisor = [running |-> 1, holder |-> None, started |-> 1, generation |-> 1, stop |-> "no"]
        BY DEF Init
  <1>5. /\ supervisor \in Supervisor /\ supervisor.running = 1 /\ supervisor.holder = None
        /\ supervisor.stop = "no"
        BY <1>1, <1>4 DEF Supervisor
  <1>6. PICK r \in Requests : call = [c \in Calls |-> NewCall(r[c])]
        BY DEF Init
  <1>7. ASSUME NEW c \in Calls
        PROVE  /\ r[c] \in Request /\ (r[c].mode = "persistent" <=> r[c].key # None)
               /\ call[c] \in Future /\ call[c].request = r[c] /\ call[c].pc = "idle"
               /\ call[c].image = FALSE /\ call[c].mail.queue = <<>>
               /\ call[c].result = NoResult
        <2>1. r[c] \in Request /\ (r[c].mode = "persistent" <=> r[c].key # None)
              BY AppServerAssumption
        <2>2. call[c] = NewCall(r[c])
              BY <1>6
        <2>3. QED
              BY <2>1, <2>2, NewIs
  <1>8. turn = [c \in Calls |-> NoTurn] /\ atChild = {} /\ bindings = [s \in Sessions |-> None]
        /\ faults = 0
        BY DEF Init
  <1>9. NoTurn \in Turn
        BY DEF NoTurn, Turn
  <1>10. Types
        <2>1. call \in [Calls -> Future]
              BY <1>6, <1>7
        <2>2. /\ turn \in [Calls -> Turn] /\ bindings \in [Sessions -> Threads \cup {None}]
              /\ atChild \subseteq Ids /\ faults \in 0..MaxFaults
              BY <1>8, <1>9, BoundsAssumption
        <2>3. QED
              BY <1>3, <1>5, <2>1, <2>2 DEF Types
  <1>11. ASSUME NEW c \in Calls PROVE Good(c, call[c], turn[c], Pending(c))
        <2>1. turn[c] = NoTurn /\ ~Pending(c)
              BY <1>8 DEF Pending
        <2>2. Reports(c, call[c].mail.queue, turn[c]) /\ Len(call[c].mail.queue) <= Ring
              BY <1>7, EmptyMail
        <2>3. Placed(call[c])
              BY <1>7 DEF Placed, Requesting
        <2>4. NoResult \notin {Known("cancelled"), Known("timeout"), Success}
              BY DEF NoResult, Success, Known
        <2>5. Honest(c, call[c], turn[c], Pending(c))
              BY <1>7, <2>1, <2>2, <2>4 DEF Honest
        <2>6. QED
              BY <1>7, <2>2, <2>3, <2>5 DEF Good
  <1>12. Supervised(call, link, supervisor)
        <2>1. \A c \in Calls : ~Launching(call[c])
              BY <1>7 DEF Launching
        <2>2. QED
              BY <1>1, <1>3, <1>5, <2>1 DEF Supervised
  <1>13. Locked(call, bindings)
        BY <1>7 DEF Locked, Locks, Binds, Requesting
  <1>14. QED
        BY <1>10, <1>11, <1>12, <1>13 DEF IInv

LEMMA NextInv ==
  ASSUME IInv, [Next]_vars
  PROVE  IInv'
  <1>1. faults \in 0..MaxFaults
        BY DEF IInv, Types
  <1>2. ASSUME NEW c \in Calls, Begin(c) PROVE IInv'
        BY <1>2, BeginKeeps
  <1>3. ASSUME NEW c \in Calls, Proceed(c) PROVE IInv'
        BY <1>3, UseRunningKeeps, StopFailedKeeps, LaunchKeeps, InitializedKeeps, ResolveKeeps,
           BindKeeps, CheckOpenKeeps, RefuseRequestKeeps, SendKeeps, ListenKeeps, SettleKeeps
        DEF Proceed
  <1>4. ASSUME NEW c \in Calls, NEW code \in Codes, Stop(c, code), faults' \in 0..MaxFaults
        PROVE  IInv'
        BY <1>4, LeaveQueueKeeps, GiveUpKeeps, CutKeeps DEF Stop
  <1>5. "timeout" \in Codes /\ "cancelled" \in Codes
        BY DEF Codes
  <1>6. ASSUME NEW c \in Calls, Expire(c) PROVE IInv'
        BY <1>1, <1>4, <1>5, <1>6, SettleKeeps DEF Expire
  <1>7. ASSUME NEW c \in Calls, Cancel(c) PROVE IInv'
        BY <1>4, <1>5, <1>7, FaultIs DEF Cancel
  <1>8. ASSUME NEW c \in Calls, Drop(c) PROVE IInv'
        BY <1>8, DropKeeps
  <1>9. CASE Shutdown \/ StopRunning
        BY <1>9, ShutdownKeeps, StopRunningKeeps
  <1>10. ASSUME NEW s \in Sessions, DeleteSession(s) PROVE IInv'
        BY <1>10, DeleteSessionKeeps
  <1>11. CASE Child
        BY <1>11, HandleKeeps, DrawKeeps, TurnEndsKeeps, BreakKeeps, ReadEofKeeps DEF Child
  <1>12. CASE UNCHANGED vars
        <2>1. UNCHANGED <<link, call, supervisor, bindings, atChild, turn, faults>>
              BY <1>12 DEF vars
        <2>2. Types' /\ \A c \in Calls : Pending(c)' = Pending(c)
              BY <2>1 DEF IInv, Types, LinkOK, Pending
        <2>3. QED
              BY <2>1, <2>2 DEF IInv
  <1>13. QED
        BY <1>2, <1>3, <1>6, <1>7, <1>8, <1>9, <1>10, <1>11, <1>12 DEF Next

LEMMA Invariant == Spec => []IInv
  BY InitInv, NextInv, PTL DEF Spec

(* Of a call that reports a cancellation or a timeout as known nothing more  *)
(* comes: whether the token or the deadline fired before the request for the *)
(* turn, while it was pending, during the turn or during its interruption,   *)
(* run_turn() and interrupt_and_confirm() report the outcome as known only   *)
(* when there is no turn, and none that the child could still start, or when *)
(* the turn was seen to fail or to be interrupted.  What an interrupted turn *)
(* had drawn before is not ruled out: interrupt_outcome() throws it away.    *)
THEOREM CutsTellTheTruth == Spec => []CutsAreTruthful
  <1>1. IInv => CutsAreTruthful
        <2> SUFFICES ASSUME IInv, NEW c \in Calls, Finished(c),
                            call[c].result \in {Known("cancelled"), Known("timeout")}
                     PROVE  /\ turn[c] = NoTurn \/ turn[c].state \in {"failed", "interrupted"}
                            /\ <<c, "turn">> \notin atChild
            BY DEF CutsAreTruthful
        <2>1. QED
              BY CallIs DEF Honest, Pending
  <1>2. QED
        BY Invariant, <1>1, PTL

(* Everything has one owner: at most one child of CodexProcess is up, at the *)
(* supervisor or in the hands of the one call that holds its mutex and       *)
(* starts it, none once shutdown() has returned; and a call succeeds only    *)
(* with an image of its own turn, which has completed, whatever other turns  *)
(* the connection broadcasts.                                                *)
THEOREM EverythingIsOwned == Spec => []Owned
  <1>1. IInv => Owned
        <2> SUFFICES ASSUME IInv PROVE Owned
            OBVIOUS
        <2>1. TypeOK
              <3>1. CallOK
                    <4> SUFFICES ASSUME NEW c \in Calls
                                 PROVE  /\ call[c] \in Future /\ call[c].mail \in Mail
                                        /\ Len(call[c].mail.queue) <= Ring
                        BY DEF CallOK, Future, Mail, Report
                    <4>1. QED
                          BY DEF IInv, Good, Future
              <3>2. QED
                    BY <3>1 DEF IInv, Types, TypeOK, Supervisor, Turn
        <2>2. ChildrenAreOwned
              <3>1. \A g, h \in Children : link[g].child = "up" /\ link[h].child = "up" => g = h
                    BY MutexIs
              <3>2. supervisor.stop = "done" => \A g \in Children : link[g].child # "up"
                    BY MutexIs
              <3>3. QED
                    BY <3>1, <3>2 DEF ChildrenAreOwned
        <2>3. OutputIsOwn
              BY CallIs DEF OutputIsOwn, Honest
        <2>4. QED
              BY <2>1, <2>2, <2>3 DEF Owned
  <1>2. QED
        BY Invariant, <1>1, PTL

(* What a step does to the session table.                                    *)
LEMMA BindingsMove ==
  ASSUME IInv, Next
  PROVE  \/ bindings' = bindings
         \/ \E c \in Calls : Bind(c)
         \/ \E s \in Sessions : DeleteSession(s)
  <1>1. ASSUME NEW c \in Calls, Begin(c) PROVE bindings' = bindings
        BY <1>1 DEF Begin
  <1>2. ASSUME NEW c \in Calls, Proceed(c) PROVE bindings' = bindings \/ Bind(c)
        BY <1>2 DEF Proceed, UseRunning, StopFailed, Launch, Initialized, Resolve, CheckOpen,
                    RefuseRequest, Send, Listen, Settle
  <1>3. ASSUME NEW c \in Calls, NEW code, Stop(c, code) PROVE bindings' = bindings
        BY <1>3 DEF Stop, LeaveQueue, GiveUp, Cut
  <1>4. ASSUME NEW c \in Calls, Expire(c) \/ Cancel(c) PROVE bindings' = bindings
        BY <1>3, <1>4 DEF Expire, Cancel, GraceOver
  <1>5. ASSUME NEW c \in Calls, Drop(c) PROVE bindings' = bindings
        BY <1>5 DEF Drop
  <1>6. CASE Shutdown \/ StopRunning
        BY <1>6 DEF Shutdown, StopRunning
  <1>7. CASE Child
        BY <1>7 DEF Child, Handle, Draw, TurnEnds, Break, ReadEof
  <1>8. QED
        BY <1>1, <1>2, <1>4, <1>5, <1>6, <1>7 DEF Next

(* Whatever calls of a session overlap, the binding of a session changes     *)
(* only by its deletion, once it has one: resolve_thread() looks it up under *)
(* the lock of the session, so that sessions.put() never overwrites it, also *)
(* when delete_session() comes in between.                                   *)
THEOREM BindingsStay == Spec => BindingsAreStable
  <1> DEFINE Stable == \A s \in Sessions : bindings[s] # None => bindings'[s] \in {bindings[s], None}
  <1>1. IInv /\ [Next]_vars => [Stable]_vars
        <2> SUFFICES ASSUME IInv, Next PROVE Stable
            OBVIOUS
        <2>1. bindings \in [Sessions -> Threads \cup {None}]
              BY DEF IInv, Types
        <2>2. ASSUME NEW c \in Calls, Bind(c) PROVE Stable
              <3>1. Binds(call[c])
                    BY <2>2, CallIs DEF Bind, Binds, Placed
              <3>2. bindings[call[c].request.key] = None
                    BY <3>1 DEF IInv, Locked
              <3>3. \/ bindings' = [bindings EXCEPT ![call[c].request.key] = call[c].thread]
                    \/ bindings' = bindings
                    BY <2>2 DEF Bind
              <3>4. QED
                    BY <2>1, <3>2, <3>3
        <2>3. ASSUME NEW s \in Sessions, DeleteSession(s) PROVE Stable
              BY <2>1, <2>3 DEF DeleteSession
        <2>4. QED
              BY <2>2, <2>3, BindingsMove
  <1>2. QED
        BY Invariant, <1>1, PTL DEF Spec, BindingsAreStable
=============================================================================
