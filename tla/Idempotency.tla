---------------------------- MODULE Idempotency ----------------------------
(***************************************************************************)
(* The process-local idempotency coordinator of                            *)
(* crates/runtime/src/idempotency.rs, with the callers that                *)
(* execute_with_optional_events() of orchestrator.rs sends through it.  A  *)
(* caller with a new record key leads; a caller with a pending one waits   *)
(* on the leader's watch channel; a settled one is replayed until its      *)
(* lifetime ends or the bounds evict it.  A leader or a waiter can be      *)
(* dropped at any await, with the client's connection.                     *)
(*                                                                         *)
(* The mutex is never held across an await, so begin(), complete() and     *)
(* fail() are atomic.  A caller's own work and wait end within LeaderTime, *)
(* its deadline and the cancellation grace.                                *)
(***************************************************************************)
EXTENDS Integers, FiniteSets, FiniteSetsExt

CONSTANTS
  Callers, NoCaller, \* requests with an Idempotency-Key
  Keys, NoKey,       \* record keys: a scope and a key
  Prints,            \* request fingerprints
  Weights,           \* serialized weights of the responses leaders get
  MaxEntries,        \* max_entries
  MaxBytes,          \* max_completed_bytes
  CompletedTtl,      \* completed_ttl
  InFlightTtl,       \* in_flight_ttl
  UnknownTtl,        \* unknown_ttl
  LeaderTime,        \* the longest request timeout and its grace
  MaxTime            \* bound: the clock stops there

ASSUME CoordinatorAssumption ==
  /\ NoCaller \notin Callers /\ NoKey \notin Keys
  /\ Weights \subseteq Nat \ {0}
  /\ {MaxEntries, MaxBytes, CompletedTtl, InFlightTtl, UnknownTtl, LeaderTime}
       \subseteq Nat \ {0}
  /\ MaxTime \in Nat

VARIABLES
  state,    \* IdempotencyState
  channel,  \* the watch channel of each caller that led: what it last sent
  caller,   \* where each caller is
  outlived, \* history: a record expired whose leader was still at work
  now       \* Instant::now()

vars == <<state, channel, caller, outlived, now>>

(* A pending entry has expires 0 (None).                                     *)
Entry == [channel  : Callers \cup {NoCaller},
          print    : Prints \cup {NoKey},
          created  : Nat,
          expires  : Nat,
          bytes    : Nat,
          uncertain: BOOLEAN,
          access   : Nat]
NoEntry == [channel |-> NoCaller, print |-> NoKey, created |-> 0, expires |-> 0,
            bytes |-> 0, uncertain |-> FALSE, access |-> 0]

Outcomes == {"pending", "completed", "failed", "unknown"}
Refusals == {"conflict", "overloaded", "timeout", "ended"}
(* by is history: the leader whose outcome was sent.                         *)
Message  == [kind : Outcomes \cup Refusals, by : Callers \cup {NoCaller}]
Pending  == [kind |-> "pending", by |-> NoCaller]
Sent(kind, c) == [kind |-> kind, by |-> c]

Caller == [phase : {"new", "leading", "waiting", "done", "dropped"},
           key : Keys \cup {NoKey}, print : Prints \cup {NoKey},
           on : Callers \cup {NoCaller}, since : Nat, reply : Message]
NewCaller == [phase |-> "new", key |-> NoKey, print |-> NoKey, on |-> NoCaller,
              since |-> 0, reply |-> Pending]

In(phase)     == {c \in Callers : caller[c].phase = phase}
Held(entries) == {k \in Keys : entries[k].channel # NoCaller}

(* Types; and a record has a lifetime exactly when its channel is settled.   *)
TypeOK ==
  /\ state \in [entries : [Keys -> Entry], bytes : Nat, clock : Nat]
  /\ channel \in [Callers -> Message]
  /\ caller \in [Callers -> Caller]
  /\ outlived \in BOOLEAN
  /\ now \in 0 .. MaxTime
  /\ \A k \in Held(state.entries) :
       state.entries[k].expires = 0 <=> channel[state.entries[k].channel].kind = "pending"

Init ==
  /\ state = [entries |-> [k \in Keys |-> NoEntry], bytes |-> 0, clock |-> 0]
  /\ channel = [c \in Callers |-> Pending]
  /\ caller = [c \in Callers |-> NewCaller]
  /\ outlived = FALSE
  /\ now = 0

-----------------------------------------------------------------------------
Monus(a, b) == IF a > b THEN a - b ELSE 0
BytesOf(entries, K) == MapThenSumSet(LAMBDA k : entries[k].bytes, K)

(* remove(), for a set of records.                                           *)
Remove(s, K) ==
  [s EXCEPT !.entries = [k \in Keys |-> IF k \in K THEN NoEntry ELSE @[k]],
            !.bytes = Monus(@, BytesOf(s.entries, K))]

(* cleanup(): settled records past their lifetime and pending ones past      *)
(* in_flight_ttl, whose waiters are told.                                    *)
Overdue(s, k) ==
  LET e == s.entries[k] IN
    IF e.expires = 0 THEN now - e.created >= InFlightTtl ELSE e.expires <= now
Stale(s)      == {k \in Held(s.entries) : Overdue(s, k)}
StalePending  == {state.entries[k].channel :
                    k \in {j \in Stale(state) : state.entries[j].expires = 0}}

Cleanup == Remove(state, Stale(state))

Told ==
  [c \in Callers |-> IF c \in StalePending THEN Sent("failed", NoCaller) ELSE channel[c]]

Expire ==
  /\ channel' = Told
  /\ outlived' = (outlived \/ StalePending \cap In("leading") # {})

(* Mutants: pending records are evicted too; unknown ones are.               *)
EvictableAll(s)     == Held(s.entries)
EvictableSettled(s) == {k \in Held(s.entries) : s.entries[k].expires # 0}

(* make_capacity(): room, or the least recently used settled record.         *)
Evictable(s) ==
  {k \in Held(s.entries) : s.entries[k].expires # 0 /\ ~s.entries[k].uncertain}
Oldest(s, K)   == CHOOSE k \in K : \A j \in K : s.entries[k].access <= s.entries[j].access
HasRoom(s)     == Cardinality(Held(s.entries)) < MaxEntries
MakeCapacity(s) == IF HasRoom(s) THEN s ELSE Remove(s, {Oldest(s, Evictable(s))})

Answer(c, k, p, message) ==
  caller' = [caller EXCEPT ![c] = [NewCaller EXCEPT !.phase = "done", !.key = k, !.print = p,
                                                    !.reply = message]]
Refuse(c, kind) ==
  caller' = [caller EXCEPT ![c] = [NewCaller EXCEPT !.phase = "done",
                                                    !.reply = Sent(kind, NoCaller)]]

(* The accesses of begin() tick the clock even when it then refuses.         *)
Accessed(s) == [s EXCEPT !.clock = @ + 1]

(* begin() finds the key's record.                                           *)
(* Mutant: the fingerprint is not compared.                                  *)
BeginKnownAny(c, k, p) ==
  LET s == Accessed(Cleanup)
      e == s.entries[k]
  IN
    /\ c \in In("new") /\ k \in Held(s.entries)
    /\ Expire
    /\ state' = [s EXCEPT !.entries[k].access = s.clock]
    /\ IF channel[e.channel].kind = "pending"
         THEN caller' = [caller EXCEPT ![c] =
                [@ EXCEPT !.phase = "waiting", !.key = k, !.print = p,
                          !.on = e.channel, !.since = now]]
         ELSE Answer(c, k, p, channel[e.channel])
    /\ UNCHANGED now

BeginKnown(c, k, p) ==
  LET s == Accessed(Cleanup)
      e == s.entries[k]
  IN
    /\ c \in In("new") /\ k \in Held(s.entries)
    /\ Expire
    /\ IF e.print # p
         THEN state' = s /\ Refuse(c, "conflict")
         ELSE
           /\ state' = [s EXCEPT !.entries[k].access = s.clock]
           /\ IF channel[e.channel].kind = "pending"
                THEN caller' = [caller EXCEPT ![c] =
                       [@ EXCEPT !.phase = "waiting", !.key = k, !.print = p,
                                 !.on = e.channel, !.since = now]]
                ELSE Answer(c, k, p, channel[e.channel])
    /\ UNCHANGED now

(* begin() makes the caller the leader of a new record.                      *)
BeginLead(c, k, p) ==
  LET s == Accessed(Cleanup) IN
    /\ c \in In("new") /\ k \notin Held(s.entries)
    /\ HasRoom(s) \/ Evictable(s) # {}
    /\ Expire
    /\ state' = [MakeCapacity(s) EXCEPT !.entries[k] =
         [NoEntry EXCEPT !.channel = c, !.print = p, !.created = now, !.access = s.clock]]
    /\ caller' = [caller EXCEPT ![c] =
         [@ EXCEPT !.phase = "leading", !.key = k, !.print = p, !.since = now]]
    /\ UNCHANGED now

BeginFull(c, k, p) ==
  LET s == Accessed(Cleanup) IN
    /\ c \in In("new") /\ k \notin Held(s.entries)
    /\ ~HasRoom(s) /\ Evictable(s) = {}
    /\ Expire
    /\ state' = s
    /\ Refuse(c, "overloaded")
    /\ UNCHANGED now

-----------------------------------------------------------------------------
(* The token names a record, not the entry the leader inserted.              *)
Mine(c) ==
  LET e == state.entries[caller[c].key] IN
    e.channel # NoCaller /\ e.print = caller[c].print

(* What a leader itself answers its client is not looked at.                 *)
End(c) ==
  caller' = [caller EXCEPT ![c] = [@ EXCEPT !.phase = "done", !.since = 0,
                                            !.reply = Sent("ended", c)]]
Leave(c, message) ==
  caller' = [caller EXCEPT ![c] = [@ EXCEPT !.phase = "done", !.on = NoCaller, !.since = 0,
                                            !.reply = message]]

Send(c, message) ==
  channel' = [channel EXCEPT ![state.entries[caller[c].key].channel] = message]

(* reserve_completed_bytes(): least recently used responses go until the new *)
(* one fits.                                                                 *)
Replayable(k) ==
  {j \in Held(state.entries) \ {k} :
     state.entries[j].bytes > 0 /\ ~state.entries[j].uncertain}
Fits(k, weight, V) == state.bytes - BytesOf(state.entries, V) + weight <= MaxBytes
OlderThan(k, j) ==
  {o \in Replayable(k) : state.entries[o].access < state.entries[j].access}

(* Mutant: responses are kept without making room.                           *)
VictimsNone(k, weight) == {}

Victims(k, weight) == {j \in Replayable(k) : ~Fits(k, weight, OlderThan(k, j))}

Reserved(k, weight) == weight <= MaxBytes /\ Fits(k, weight, Replayable(k))

(* complete() with a response that can be kept.                              *)
Complete(c, weight) ==
  LET k == caller[c].key
      s == Remove(state, Victims(k, weight))
  IN
    /\ c \in In("leading") /\ Mine(c) /\ Reserved(k, weight)
    /\ state' = [s EXCEPT !.clock = @ + 1, !.bytes = @ + weight,
         !.entries[k] = [@ EXCEPT !.expires = now + CompletedTtl, !.uncertain = FALSE,
                                  !.bytes = weight, !.access = s.clock + 1]]
    /\ Send(c, Sent("completed", c))
    /\ End(c)
    /\ UNCHANGED <<outlived, now>>

(* complete() with a response too large to keep: the record refuses replays. *)
CompleteOversized(c, weight) ==
  LET k == caller[c].key IN
    /\ c \in In("leading") /\ Mine(c) /\ ~Reserved(k, weight)
    /\ state' = [(IF weight > MaxBytes THEN state ELSE Remove(state, Replayable(k)))
         EXCEPT !.entries[k] = [@ EXCEPT !.expires = now + CompletedTtl,
                                         !.uncertain = TRUE, !.bytes = 0]]
    /\ Send(c, Sent("unknown", c))
    /\ End(c)
    /\ UNCHANGED <<outlived, now>>

(* fail() with a known outcome: the key is free again.                       *)
FailKnown(c) ==
  /\ c \in In("leading") /\ Mine(c)
  /\ state' = Remove(state, {caller[c].key})
  /\ Send(c, Sent("failed", c))
  /\ End(c)
  /\ UNCHANGED <<outlived, now>>

FailUnknown(c) ==
  /\ c \in In("leading") /\ Mine(c)
  /\ state' = [state EXCEPT !.entries[caller[c].key] =
                 [@ EXCEPT !.expires = now + UnknownTtl, !.uncertain = TRUE]]
  /\ Send(c, Sent("unknown", c))
  /\ End(c)
  /\ UNCHANGED <<outlived, now>>

(* complete() or fail() when the record is gone or another request's.        *)
EndAlone(c) ==
  /\ c \in In("leading") /\ ~Mine(c)
  /\ End(c)
  /\ UNCHANGED <<state, channel, outlived, now>>

-----------------------------------------------------------------------------
(* wait().  The sender of a channel lives in the record that holds it; a     *)
(* pending channel whose sender is gone would end the wait with an internal  *)
(* error, which NoOrphanWaiter shows out of reach.                           *)
Closed(c) == \A k \in Keys : state.entries[k].channel # c

WaitAnswered(c) ==
  /\ c \in In("waiting") /\ channel[caller[c].on].kind # "pending"
  /\ Leave(c, channel[caller[c].on])
  /\ UNCHANGED <<state, channel, outlived, now>>

WaitTimeout(c) ==
  /\ c \in In("waiting") /\ now >= caller[c].since + LeaderTime
  /\ Refuse(c, "timeout")
  /\ UNCHANGED <<state, channel, outlived, now>>

(* The handler is dropped, and the leader's token with it.                   *)
Dropped(c) ==
  /\ c \in In("leading") \cup In("waiting")
  /\ caller' = [caller EXCEPT ![c] = [NewCaller EXCEPT !.phase = "dropped"]]
  /\ UNCHANGED <<state, channel, outlived, now>>

Tick ==
  /\ now < MaxTime
  /\ \A c \in In("leading") \cup In("waiting") : now < caller[c].since + LeaderTime
  /\ now' = now + 1
  /\ UNCHANGED <<state, channel, caller, outlived>>

Next ==
  \/ \E c \in Callers, k \in Keys, p \in Prints :
       BeginKnown(c, k, p) \/ BeginLead(c, k, p) \/ BeginFull(c, k, p)
  \/ \E c \in Callers, weight \in Weights : Complete(c, weight) \/ CompleteOversized(c, weight)
  \/ \E c \in Callers : FailKnown(c) \/ FailUnknown(c) \/ EndAlone(c)
  \/ \E c \in Callers : WaitAnswered(c) \/ WaitTimeout(c) \/ Dropped(c)
  \/ Tick

Spec == Init /\ [][Next]_vars

-----------------------------------------------------------------------------
(* One request per record key is under way at a time: its provider call is   *)
(* the only one (begin() and the Leader token).  It holds for as long as no  *)
(* record expires under a leader still at work; in_flight_ttl is 31 minutes  *)
(* and max_timeout_ms 30 by default, but the configuration checks neither    *)
(* against the other.                                                        *)
OneLeader ==
  ~outlived => \A c, d \in In("leading") : caller[c].key = caller[d].key => c = d

(* completed_bytes covers what the records retain, and both bounds hold,     *)
(* however records are replaced, evicted or expired; it is exact unless a    *)
(* leader outlived its record.                                               *)
BytesCovered ==
  LET retained == BytesOf(state.entries, Held(state.entries)) IN
  /\ retained <= state.bytes /\ state.bytes <= MaxBytes
  /\ ~outlived => state.bytes = retained
  /\ Cardinality(Held(state.entries)) <= MaxEntries

(* "Retention for a provider operation whose outcome is unknown": no         *)
(* pressure on the bounds forgets such an operation before its time (only a  *)
(* leader that outlived its record can settle it anew).                      *)
UnknownIsKept ==
  [][\A k \in Held(state.entries) :
       /\ state.entries[k].uncertain /\ now < state.entries[k].expires /\ ~outlived
       => state'.entries[k].uncertain]_vars

(* A waiter is never left on a channel nobody will answer: wait()'s          *)
(* "idempotency leader ended without a result" is out of reach.              *)
NoOrphanWaiter ==
  \A c \in In("waiting") : channel[caller[c].on].kind = "pending" => ~Closed(caller[c].on)

(* Records, counters and callers agree: every byte is counted once, and who  *)
(* waits has somebody to wait for.                                           *)
Coherent == TypeOK /\ BytesCovered /\ NoOrphanWaiter

(* A response or an error is only replayed to the request it belongs to, the *)
(* same key and the same fingerprint.                                        *)
ReplaysMatch ==
  \A c \in In("done") :
    LET leader == caller[c].reply.by IN
      leader # NoCaller =>
        caller[leader].key = caller[c].key /\ caller[leader].print = caller[c].print

(* A settled outcome is replayed within its lifetime only.                   *)
RepliesAreFresh ==
  [][\A c \in In("new"), k \in Held(state.entries) :
       /\ caller'[c].phase = "done" /\ caller'[c].key = k
       /\ caller'[c].reply.by # NoCaller
       => now < state.entries[k].expires]_vars

(* What a record says stays said: unknown outcomes are kept for their time,  *)
(* and no reply is older than the code allows.                               *)
RecordsKeep == UnknownIsKept /\ RepliesAreFresh
=============================================================================
