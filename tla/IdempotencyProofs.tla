------------------------- MODULE IdempotencyProofs -------------------------
(***************************************************************************)
(* Proofs about Idempotency, for any callers, keys, fingerprints, bounds   *)
(* and lifetimes: first who leads, waits and is answered, then what the    *)
(* records weigh.                                                          *)
(***************************************************************************)
EXTENDS Idempotency, FiniteSetTheorems, WellFoundedInduction, TLAPS

(***************************************************************************)
(* The inductive invariant, of records e, channels ch and callers who, and *)
(* of whether a leader has outlived its record.  begin() sweeps, makes     *)
(* room and inserts under one lock, so the steps between are given the     *)
(* invariant as well: hence the parameters.                                *)
(***************************************************************************)
Typed(e, ch, who) ==
  e \in [Keys -> Entry] /\ ch \in [Callers -> Message] /\ who \in [Callers -> Caller]

Done(who, l, k, p) == who[l].phase = "done" /\ who[l].key = k /\ who[l].print = p

(* A record is settled when its channel is; a pending one keeps no response. *)
Settled(e, ch) ==
  \A k \in Held(e) :
    /\ e[k].expires = 0 <=> ch[e[k].channel].kind = "pending"
    /\ e[k].expires = 0 => e[k].bytes = 0 /\ ~e[k].uncertain

(* No channel is that of two records, or of a caller that never led.         *)
Distinct(e) == \A j, k \in Held(e) : e[j].channel = e[k].channel => j = k
Led(e, ch, who) ==
  /\ \A k \in Held(e) : who[e[k].channel].phase # "new"
  /\ \A c \in Callers : who[c].phase = "new" => ch[c] = Pending

(* What a channel says was said by a leader that is done with it.            *)
Spoken(ch, who) ==
  \A c \in Callers :
    /\ ch[c].kind = "pending" => ch[c].by = NoCaller
    /\ ch[c].by # NoCaller => who[ch[c].by].phase = "done"

RecordsMatch(e, ch, who) ==
  \A k \in Held(e) :
    LET l == ch[e[k].channel].by IN l # NoCaller => Done(who, l, k, e[k].print)

WaitersMatch(e, ch, who) ==
  \A w \in Callers : who[w].phase = "waiting" =>
    LET d == who[w].on IN
    /\ d \in Callers /\ who[d].phase # "new"
    /\ \A k \in Held(e) : e[k].channel = d => who[w].key = k /\ who[w].print = e[k].print
    /\ ch[d].by # NoCaller => Done(who, ch[d].by, who[w].key, who[w].print)
    /\ ch[d].kind = "pending" => \E k \in Keys : e[k].channel = d

RepliesMatch(who) ==
  \A c \in Callers : who[c].phase = "done" =>
    LET l == who[c].reply.by IN l # NoCaller => Done(who, l, who[c].key, who[c].print)

LeadersHold(e, ch, who, out) ==
  \A c \in Callers : who[c].phase = "leading" =>
    /\ who[c].key \in Keys
    /\ ~out => e[who[c].key].channel = c /\ ch[c].kind = "pending"

Good(e, ch, who, out) ==
  /\ Typed(e, ch, who) /\ Settled(e, ch) /\ Distinct(e) /\ Led(e, ch, who) /\ Spoken(ch, who)
  /\ RecordsMatch(e, ch, who) /\ WaitersMatch(e, ch, who) /\ RepliesMatch(who)
  /\ LeadersHold(e, ch, who, out)

Shaped(s) ==
  /\ DOMAIN s = {"entries", "bytes", "clock"}
  /\ s.clock \in Nat

IInv ==
  /\ Good(state.entries, channel, caller, outlived)
  /\ Shaped(state) /\ outlived \in BOOLEAN /\ now \in Nat

USE CoordinatorAssumption

-----------------------------------------------------------------------------
(* Records that are settled can go.                                          *)
LEMMA DropKeeps ==
  ASSUME NEW e, NEW ch, NEW who, NEW out, Good(e, ch, who, out),
         NEW K, \A k \in K \cap Held(e) : e[k].expires # 0,
         NEW e2, e2 = [k \in Keys |-> IF k \in K THEN NoEntry ELSE e[k]]
  PROVE  Good(e2, ch, who, out)
  <1>1. Held(e2) = Held(e) \ K /\ \A k \in Held(e2) : e2[k] = e[k]
        BY DEF Held, NoEntry
  <1>2. Typed(e2, ch, who)
        BY DEF Good, Typed, Entry, NoEntry
  <1>3. Settled(e2, ch) /\ Distinct(e2) /\ Led(e2, ch, who) /\ RecordsMatch(e2, ch, who)
        BY <1>1 DEF Good, Settled, Distinct, Led, RecordsMatch
  <1>4. WaitersMatch(e2, ch, who)
        <2>1. SUFFICES ASSUME NEW w \in Callers, who[w].phase = "waiting",
                              ch[who[w].on].kind = "pending"
                       PROVE  \E k \in Keys : e2[k].channel = who[w].on
              BY <1>1 DEF Good, WaitersMatch
        <2>2. PICK k \in Keys : e[k].channel = who[w].on
              BY <2>1 DEF Good, WaitersMatch
        <2>3. k \in Held(e) \ K
              BY <2>1, <2>2 DEF Good, WaitersMatch, Settled, Held
        <2>4. QED
              BY <1>1, <2>2, <2>3
  <1>5. LeadersHold(e2, ch, who, out)
        <2>1. SUFFICES ASSUME NEW c \in Callers, who[c].phase = "leading", ~out
                       PROVE  e2[who[c].key].channel = c
              BY DEF Good, LeadersHold
        <2>2. who[c].key \in Held(e) \ K
              BY <2>1 DEF Good, LeadersHold, Settled, Held
        <2>3. QED
              BY <1>1, <2>1, <2>2 DEF Good, LeadersHold
  <1>6. QED
        BY <1>2, <1>3, <1>4, <1>5 DEF Good

(* cleanup(): records of any kind can go when the waiters of the pending     *)
(* ones are told, and it is noted when one of these had its leader.          *)
Swept(e, ch, who, out, K, e2, ch2, out2) ==
  LET P == {e[k].channel : k \in {j \in K : e[j].expires = 0}} IN
  /\ K \subseteq Held(e)
  /\ e2 = [k \in Keys |-> IF k \in K THEN NoEntry ELSE e[k]]
  /\ ch2 = [c \in Callers |-> IF c \in P THEN Sent("failed", NoCaller) ELSE ch[c]]
  /\ out \/ (\E c \in P : who[c].phase = "leading") => out2

LEMMA SweepKeeps ==
  ASSUME NEW e, NEW ch, NEW who, NEW out, Good(e, ch, who, out), NEW K, NEW e2, NEW ch2, NEW out2,
         Swept(e, ch, who, out, K, e2, ch2, out2)
  PROVE  Good(e2, ch2, who, out2)
  <1> DEFINE P == {e[k].channel : k \in {j \in K : e[j].expires = 0}}
  <1>0. /\ K \subseteq Held(e)
        /\ e2 = [k \in Keys |-> IF k \in K THEN NoEntry ELSE e[k]]
        /\ ch2 = [c \in Callers |-> IF c \in P THEN Sent("failed", NoCaller) ELSE ch[c]]
        /\ out => out2
        /\ (\E c \in P : who[c].phase = "leading") => out2
        BY DEF Swept
  <1>1. Held(e2) = Held(e) \ K /\ \A k \in Held(e2) : e2[k] = e[k]
        BY <1>0 DEF Held, NoEntry
  <1>2. /\ Sent("failed", NoCaller) \in Message
        /\ Sent("failed", NoCaller).kind # "pending" /\ Sent("failed", NoCaller).by = NoCaller
        BY DEF Sent, Message, Outcomes, Refusals
  <1>3. Typed(e2, ch2, who)
        BY <1>0, <1>2 DEF Good, Typed, Entry, NoEntry
  <1>4. /\ P \subseteq Callers
        /\ \A c \in P : who[c].phase # "new" /\ ch[c].kind = "pending"
        /\ \A k \in Held(e2) : e2[k].channel \in Callers \ P
        <2>1. \A k \in K : e[k].channel \in Callers /\ who[e[k].channel].phase # "new"
              BY <1>0 DEF Good, Typed, Led, Held, Entry
        <2>2. \A k \in K : e[k].expires = 0 => ch[e[k].channel].kind = "pending"
              BY <1>0 DEF Good, Settled
        <2>3. \A k \in Held(e2) : e2[k].channel \in Callers
              BY <1>1 DEF Good, Typed, Held, Entry
        <2>4. \A k \in Held(e2) : e2[k].channel \notin P
              BY <1>0, <1>1 DEF Good, Distinct
        <2>5. QED
              BY <2>1, <2>2, <2>3, <2>4
  <1>5. Settled(e2, ch2) /\ Distinct(e2) /\ Led(e2, ch2, who) /\ RecordsMatch(e2, ch2, who)
        <2>1. \A k \in Held(e2) : ch2[e2[k].channel] = ch[e2[k].channel] /\ k \in Held(e)
              BY <1>0, <1>1, <1>4
        <2>2. Settled(e2, ch2) /\ RecordsMatch(e2, ch2, who)
              BY <1>1, <2>1 DEF Good, Settled, RecordsMatch
        <2>3. Distinct(e2) /\ \A k \in Held(e2) : who[e2[k].channel].phase # "new"
              BY <1>1, <2>1 DEF Good, Distinct, Led
        <2>4. \A c \in Callers : who[c].phase = "new" => ch2[c] = Pending
              BY <1>0, <1>4 DEF Good, Led
        <2>5. QED
              BY <2>2, <2>3, <2>4 DEF Led
  <1>6. Spoken(ch2, who)
        BY <1>0, <1>2 DEF Good, Spoken
  <1>7. WaitersMatch(e2, ch2, who)
        <2>1. ASSUME NEW w \in Callers, who[w].phase = "waiting", ch2[who[w].on].kind = "pending"
              PROVE  \E k \in Keys : e2[k].channel = who[w].on
              <3>1. who[w].on \in Callers \ P /\ ch[who[w].on].kind = "pending"
                    BY <1>0, <1>2, <2>1 DEF Good, WaitersMatch
              <3>2. PICK k \in Keys : e[k].channel = who[w].on
                    BY <2>1, <3>1 DEF Good, WaitersMatch
              <3>3. k \in Held(e) \ K
                    BY <3>1, <3>2 DEF Good, Settled, Held
              <3>4. QED
                    BY <1>1, <3>2, <3>3
        <2>2. SUFFICES ASSUME NEW w \in Callers, who[w].phase = "waiting",
                              ch2[who[w].on].by # NoCaller
                       PROVE  Done(who, ch2[who[w].on].by, who[w].key, who[w].print)
              <3>1. \A w \in Callers : who[w].phase = "waiting" =>
                      /\ who[w].on \in Callers /\ who[who[w].on].phase # "new"
                      /\ \A k \in Held(e2) : e2[k].channel = who[w].on =>
                           who[w].key = k /\ who[w].print = e2[k].print
                    BY <1>1 DEF Good, WaitersMatch
              <3>2. QED
                    BY <2>1, <3>1 DEF WaitersMatch
        <2>3. who[w].on \in Callers /\ ch2[who[w].on] = ch[who[w].on]
              BY <1>0, <1>2, <2>2 DEF Good, WaitersMatch
        <2>4. QED
              BY <2>2, <2>3 DEF Good, WaitersMatch
  <1>8. LeadersHold(e2, ch2, who, out2)
        <2>1. SUFFICES ASSUME NEW c \in Callers, who[c].phase = "leading", ~out2
                       PROVE  e2[who[c].key].channel = c /\ ch2[c].kind = "pending"
              BY <1>0 DEF Good, LeadersHold
        <2>2. /\ who[c].key \in Held(e) /\ e[who[c].key].channel = c
              /\ e[who[c].key].expires = 0 /\ c \notin P /\ ch[c].kind = "pending"
              BY <1>0, <2>1 DEF Good, LeadersHold, Settled, Held
        <2>3. who[c].key \notin K
              BY <2>2
        <2>4. QED
              BY <1>0, <1>1, <2>2, <2>3
  <1>9. QED
        BY <1>3, <1>5, <1>6, <1>7, <1>8 DEF Good

(* begin() notes an access.                                                  *)
LEMMA TouchKeeps ==
  ASSUME NEW e, NEW ch, NEW who, NEW out, Good(e, ch, who, out),
         NEW k \in Held(e), NEW n \in Nat
  PROVE  Good([e EXCEPT ![k].access = n], ch, who, out)
  <1> DEFINE e2 == [e EXCEPT ![k].access = n]
  <1>1. k \in Keys /\ e \in [Keys -> Entry]
        BY DEF Good, Typed, Held
  <1>2. /\ e2 \in [Keys -> Entry]
        /\ \A j \in Keys : /\ e2[j].channel = e[j].channel /\ e2[j].print = e[j].print
                           /\ e2[j].expires = e[j].expires /\ e2[j].bytes = e[j].bytes
                           /\ e2[j].uncertain = e[j].uncertain
        BY <1>1 DEF Entry
  <1> HIDE DEF e2
  <1>3. Held(e2) = Held(e)
        BY <1>2 DEF Held
  <1>4. Typed(e2, ch, who) /\ Settled(e2, ch) /\ Distinct(e2) /\ Led(e2, ch, who)
        BY <1>2, <1>3 DEF Good, Typed, Settled, Distinct, Led, Held
  <1>5. RecordsMatch(e2, ch, who) /\ WaitersMatch(e2, ch, who) /\ LeadersHold(e2, ch, who, out)
        BY <1>2, <1>3 DEF Good, RecordsMatch, WaitersMatch, LeadersHold, Held
  <1>6. QED
        BY <1>4, <1>5 DEF Good, e2

(* begin() inserts the record of a new leader.                               *)
LEMMA LeadKeeps ==
  ASSUME NEW e, NEW ch, NEW who, NEW out, Good(e, ch, who, out),
         NEW c \in Callers, who[c].phase = "new", NEW k \in Keys \ Held(e), NEW r \in Entry,
         r.channel = c, r.expires = 0, r.bytes = 0, ~r.uncertain,
         NEW next \in Caller, next.phase = "leading", next.key = k
  PROVE  Good([e EXCEPT ![k] = r], ch, [who EXCEPT ![c] = next], out)
  <1> DEFINE e2 == [e EXCEPT ![k] = r]
             who2 == [who EXCEPT ![c] = next]
  <1>1. /\ Typed(e2, ch, who2) /\ ch[c] = Pending /\ ch[c].kind = "pending" /\ ch[c].by = NoCaller
        /\ \A d \in Callers : who2[d] = IF d = c THEN next ELSE who[d]
        /\ \A j \in Keys : e2[j] = IF j = k THEN r ELSE e[j]
        BY DEF Good, Typed, Led, Pending
  <1> HIDE DEF e2, who2
  <1>2. Held(e2) = Held(e) \cup {k} /\ \A j \in Held(e) : e[j].channel # c
        BY <1>1 DEF Good, Led, Held
  <1>3. \A l \in Callers : \A j, p : Done(who, l, j, p) => Done(who2, l, j, p)
        BY <1>1 DEF Done
  <1>4. Settled(e2, ch) /\ Distinct(e2) /\ Led(e2, ch, who2) /\ Spoken(ch, who2)
        <2>1. Settled(e2, ch)
              BY <1>1, <1>2 DEF Good, Settled, Held
        <2>2. Distinct(e2)
              BY <1>1, <1>2 DEF Good, Distinct, Held
        <2>3. Led(e2, ch, who2)
              BY <1>1, <1>2 DEF Good, Typed, Led, Held, Entry
        <2>4. \A d \in Callers : ch[d].by # NoCaller => ch[d].by \in Callers
              BY DEF Good, Typed, Message
        <2>5. Spoken(ch, who2)
              BY <1>1, <2>4 DEF Good, Spoken
        <2>6. QED
              BY <2>1, <2>2, <2>3, <2>5
  <1>5. RecordsMatch(e2, ch, who2) /\ RepliesMatch(who2)
        <2>1. RecordsMatch(e2, ch, who2)
              <3>1. SUFFICES ASSUME NEW j \in Held(e2), ch[e2[j].channel].by # NoCaller
                             PROVE  Done(who2, ch[e2[j].channel].by, j, e2[j].print)
                    BY DEF RecordsMatch
              <3>2. j \in Held(e) /\ e2[j] = e[j] /\ e[j].channel \in Callers
                    BY <1>1, <1>2, <3>1 DEF Held, Good, Typed, Entry
              <3>3. ch[e[j].channel].by \in Callers
                    BY <3>1, <3>2 DEF Good, Typed, Message
              <3>4. QED
                    BY <1>3, <3>1, <3>2, <3>3 DEF Good, RecordsMatch
        <2>2. RepliesMatch(who2)
              <3>1. SUFFICES ASSUME NEW d \in Callers, who2[d].phase = "done",
                                    who2[d].reply.by # NoCaller
                             PROVE  Done(who2, who2[d].reply.by, who2[d].key, who2[d].print)
                    BY DEF RepliesMatch
              <3>2. who2[d] = who[d] /\ who[d].reply.by \in Callers
                    BY <1>1, <3>1 DEF Good, Typed, Caller, Message
              <3>3. QED
                    BY <1>3, <3>1, <3>2 DEF Good, RepliesMatch
        <2>3. QED
              BY <2>1, <2>2
  <1>6. WaitersMatch(e2, ch, who2)
        <2>1. SUFFICES ASSUME NEW w \in Callers, who2[w].phase = "waiting"
                       PROVE  LET d == who[w].on IN
                              /\ d \in Callers /\ who2[d].phase # "new"
                              /\ \A j \in Held(e2) : e2[j].channel = d =>
                                   who[w].key = j /\ who[w].print = e2[j].print
                              /\ ch[d].by # NoCaller => Done(who2, ch[d].by, who[w].key, who[w].print)
                              /\ ch[d].kind = "pending" => \E j \in Keys : e2[j].channel = d
              BY <1>1 DEF WaitersMatch
        <2>2. /\ who[w].phase = "waiting" /\ who[w].on \in Callers /\ who[w].on # c
              /\ who2[who[w].on] = who[who[w].on]
              BY <1>1, <2>1 DEF Good, WaitersMatch
        <2>3. ch[who[w].on].by # NoCaller => ch[who[w].on].by \in Callers
              BY <2>2 DEF Good, Typed, Message
        <2>4. \A j \in Keys : e[j].channel = who[w].on => e2[j] = e[j]
              BY <1>1, <2>2 DEF Good, WaitersMatch, Held
        <2>5. QED
              BY <1>1, <1>2, <1>3, <2>2, <2>3, <2>4 DEF Good, WaitersMatch, Held
  <1>7. LeadersHold(e2, ch, who2, out)
        BY <1>1, <1>2 DEF Good, LeadersHold, Held
  <1>8. QED
        BY <1>1, <1>4, <1>5, <1>6, <1>7 DEF Good, e2, who2

(* A caller goes on: it waits on the channel of a pending record, it is      *)
(* answered, or it is gone.                                                  *)
LEMMA MoveKeeps ==
  ASSUME NEW e, NEW ch, NEW who, NEW out, Good(e, ch, who, out),
         NEW c \in Callers, who[c].phase # "done", NEW next \in Caller,
         next.phase \in {"waiting", "done", "dropped"},
         next.phase = "waiting" =>
           /\ next.key \in Held(e) /\ next.on = e[next.key].channel
           /\ next.print = e[next.key].print /\ ch[next.on].kind = "pending",
         next.phase = "done" /\ next.reply.by # NoCaller =>
           next.reply.by = c \/ Done(who, next.reply.by, next.key, next.print)
  PROVE  Good(e, ch, [who EXCEPT ![c] = next], out)
  <1> DEFINE who2 == [who EXCEPT ![c] = next]
  <1>1. /\ Typed(e, ch, who2)
        /\ \A d \in Callers : who2[d] = IF d = c THEN next ELSE who[d]
        BY DEF Good, Typed
  <1> HIDE DEF who2
  <1>2. /\ \A d \in Callers : ch[d].by # NoCaller => ch[d].by \in Callers
        /\ \A d \in Callers : who[d].reply.by # NoCaller => who[d].reply.by \in Callers
        /\ next.reply.by # NoCaller => next.reply.by \in Callers
        /\ \A k \in Held(e) : e[k].channel \in Callers
        BY DEF Good, Typed, Message, Caller, Entry, Held
  <1>3. \A l \in Callers : \A j, p : Done(who, l, j, p) => Done(who2, l, j, p)
        BY <1>1 DEF Done
  <1>4. Led(e, ch, who2)
        BY <1>1, <1>2 DEF Good, Led
  <1>5. Spoken(ch, who2)
        BY <1>1, <1>2 DEF Good, Spoken
  <1>6. RecordsMatch(e, ch, who2)
        BY <1>2, <1>3 DEF Good, RecordsMatch
  <1>7. RepliesMatch(who2)
        <2>1. SUFFICES ASSUME NEW d \in Callers, who2[d].phase = "done", who2[d].reply.by # NoCaller
                       PROVE  Done(who2, who2[d].reply.by, who2[d].key, who2[d].print)
              BY DEF RepliesMatch
        <2>2. CASE d = c
              BY <1>1, <1>2, <1>3, <2>1, <2>2 DEF Done
        <2>3. CASE d # c
              BY <1>1, <1>2, <1>3, <2>1, <2>3 DEF Good, RepliesMatch
        <2>4. QED
              BY <2>2, <2>3
  <1>8. WaitersMatch(e, ch, who2)
        <2>1. ASSUME NEW w \in Callers, who2[w].phase = "waiting", w # c
              PROVE  LET d == who2[w].on IN
                     /\ d \in Callers /\ who2[d].phase # "new"
                     /\ \A k \in Held(e) : e[k].channel = d => who2[w].key = k /\ who2[w].print = e[k].print
                     /\ ch[d].by # NoCaller => Done(who2, ch[d].by, who2[w].key, who2[w].print)
                     /\ ch[d].kind = "pending" => \E k \in Keys : e[k].channel = d
              <3>1. who2[w] = who[w]
                    BY <1>1, <2>1
              <3>2. QED
                    BY <1>1, <1>2, <1>3, <2>1, <3>1 DEF Good, WaitersMatch
        <2>2. ASSUME who2[c].phase = "waiting"
              PROVE  LET d == who2[c].on IN
                     /\ d \in Callers /\ who2[d].phase # "new"
                     /\ \A k \in Held(e) : e[k].channel = d => who2[c].key = k /\ who2[c].print = e[k].print
                     /\ ch[d].by # NoCaller => Done(who2, ch[d].by, who2[c].key, who2[c].print)
                     /\ ch[d].kind = "pending" => \E k \in Keys : e[k].channel = d
              <3>1. /\ who2[c] = next /\ next.key \in Held(e) /\ next.on = e[next.key].channel
                    /\ next.print = e[next.key].print /\ ch[next.on].kind = "pending"
                    BY <1>1, <2>2
              <3>2. next.on \in Callers /\ ch[next.on].by = NoCaller /\ next.key \in Keys
                    BY <1>2, <3>1 DEF Good, Spoken, Held
              <3>3. who2[next.on].phase # "new"
                    BY <1>4, <3>1 DEF Led
              <3>4. \A k \in Held(e) : e[k].channel = next.on => k = next.key
                    BY <3>1 DEF Good, Distinct
              <3>5. QED
                    BY <3>1, <3>2, <3>3, <3>4
        <2>3. QED
              BY <2>1, <2>2 DEF WaitersMatch
  <1>9. LeadersHold(e, ch, who2, out)
        BY <1>1 DEF Good, LeadersHold
  <1>10. QED
        BY <1>1, <1>4, <1>5, <1>6, <1>7, <1>8, <1>9 DEF Good, who2

(* A leader settles the record its token names, and is done with it.         *)
LEMMA SettleKeeps ==
  ASSUME NEW e, NEW ch, NEW who, NEW out, Good(e, ch, who, out),
         NEW c \in Callers, who[c].phase = "leading",
         NEW k \in Held(e), k = who[c].key, e[k].print = who[c].print,
         NEW kind \in {"completed", "failed", "unknown"},
         NEW r \in Entry, r.channel = e[k].channel, r.print = e[k].print, r.expires # 0,
         NEW next \in Caller, next.phase = "done", next.key = k, next.print = who[c].print,
         next.reply.by = c
  PROVE  Good([e EXCEPT ![k] = r], [ch EXCEPT ![e[k].channel] = Sent(kind, c)],
              [who EXCEPT ![c] = next], out)
  <1> DEFINE d == e[k].channel
             e2 == [e EXCEPT ![k] = r]
             ch2 == [ch EXCEPT ![d] = Sent(kind, c)]
             who2 == [who EXCEPT ![c] = next]
  <1>1. k \in Keys /\ d \in Callers /\ d # NoCaller
        BY DEF Good, Typed, Held, Entry
  <1>2. Sent(kind, c) \in Message /\ Sent(kind, c).kind = kind /\ Sent(kind, c).by = c
        BY DEF Sent, Message, Outcomes
  <1>3. /\ Typed(e2, ch2, who2)
        /\ \A x \in Callers : who2[x] = IF x = c THEN next ELSE who[x]
        /\ \A x \in Callers : ch2[x] = IF x = d THEN Sent(kind, c) ELSE ch[x]
        /\ \A j \in Keys : e2[j] = IF j = k THEN r ELSE e[j]
        BY <1>1, <1>2 DEF Good, Typed
  <1> HIDE DEF e2, ch2, who2
  <1>4. /\ \A x \in Callers : ch[x].by # NoCaller => ch[x].by \in Callers
        /\ \A x \in Callers : who[x].reply.by # NoCaller => who[x].reply.by \in Callers
        /\ \A j \in Held(e) : j \in Keys /\ e[j].channel \in Callers
        BY DEF Good, Typed, Message, Caller, Entry, Held
  <1>5. /\ Held(e2) = Held(e)
        /\ \A j \in Held(e) : e2[j].channel = e[j].channel /\ e2[j].print = e[j].print
        /\ \A j \in Held(e) \ {k} : e2[j] = e[j] /\ ch2[e[j].channel] = ch[e[j].channel]
        BY <1>1, <1>3, <1>4 DEF Good, Distinct, Held
  <1>6. /\ \A l \in Callers : \A j, p : Done(who, l, j, p) => Done(who2, l, j, p)
        /\ Done(who2, c, k, e[k].print)
        BY <1>3 DEF Done
  <1>7. Settled(e2, ch2)
        <2>1. ch2[e2[k].channel].kind # "pending" /\ e2[k].expires # 0
              BY <1>1, <1>2, <1>3
        <2>2. QED
              BY <1>5, <2>1 DEF Good, Settled
  <1>8. Distinct(e2) /\ Led(e2, ch2, who2)
        <2>1. Distinct(e2)
              BY <1>5 DEF Good, Distinct
        <2>2. \A x \in Callers : who2[x].phase = "new" => ch2[x] = Pending
              BY <1>3 DEF Good, Led
        <2>3. \A j \in Held(e2) : who2[e2[j].channel].phase # "new"
              BY <1>3, <1>4, <1>5 DEF Good, Led
        <2>4. QED
              BY <2>1, <2>2, <2>3 DEF Led
  <1>9. Spoken(ch2, who2)
        BY <1>2, <1>3, <1>4 DEF Good, Spoken
  <1>10. RecordsMatch(e2, ch2, who2)
        <2>1. Done(who2, ch2[e2[k].channel].by, k, e2[k].print)
              BY <1>1, <1>2, <1>3, <1>5, <1>6
        <2>2. \A j \in Held(e) \ {k} : ch[e[j].channel].by # NoCaller =>
                Done(who2, ch[e[j].channel].by, j, e[j].print)
              BY <1>4, <1>6 DEF Good, RecordsMatch
        <2>3. ASSUME NEW j \in Held(e2), ch2[e2[j].channel].by # NoCaller
              PROVE  Done(who2, ch2[e2[j].channel].by, j, e2[j].print)
              <3>1. CASE j = k
                    BY <2>1, <3>1
              <3>2. CASE j # k
                    <4>1. j \in Held(e) \ {k} /\ e2[j] = e[j] /\ ch2[e[j].channel] = ch[e[j].channel]
                          BY <1>5, <2>3, <3>2
                    <4>2. QED
                          BY <2>2, <2>3, <4>1
              <3>3. QED
                    BY <3>1, <3>2
        <2>4. QED
              BY <2>3 DEF RecordsMatch
  <1>11. RepliesMatch(who2)
        <2>1. SUFFICES ASSUME NEW x \in Callers, who2[x].phase = "done", who2[x].reply.by # NoCaller
                       PROVE  Done(who2, who2[x].reply.by, who2[x].key, who2[x].print)
              BY DEF RepliesMatch
        <2>2. CASE x = c
              BY <1>3, <1>6, <2>2
        <2>3. CASE x # c
              BY <1>3, <1>4, <1>6, <2>1, <2>3 DEF Good, RepliesMatch
        <2>4. QED
              BY <2>2, <2>3
  <1>12. WaitersMatch(e2, ch2, who2)
        <2>1. SUFFICES ASSUME NEW w \in Callers, who2[w].phase = "waiting"
                       PROVE  LET x == who2[w].on IN
                              /\ x \in Callers /\ who2[x].phase # "new"
                              /\ \A j \in Held(e2) : e2[j].channel = x =>
                                   who2[w].key = j /\ who2[w].print = e2[j].print
                              /\ ch2[x].by # NoCaller => Done(who2, ch2[x].by, who2[w].key, who2[w].print)
                              /\ ch2[x].kind = "pending" => \E j \in Keys : e2[j].channel = x
              BY DEF WaitersMatch
        <2>2. /\ who2[w] = who[w] /\ who[w].phase = "waiting" /\ who[w].on \in Callers
              /\ who[who[w].on].phase # "new"
              BY <1>3, <2>1 DEF Good, WaitersMatch
        <2>3. who2[who[w].on].phase # "new"
              BY <1>3, <2>2
        <2>4. \A j \in Held(e2) : e2[j].channel = who[w].on =>
                who[w].key = j /\ who[w].print = e2[j].print
              BY <1>5, <2>2 DEF Good, WaitersMatch
        <2>5. ch2[who[w].on].by # NoCaller =>
                Done(who2, ch2[who[w].on].by, who[w].key, who[w].print)
              <3>1. CASE who[w].on = d
                    BY <1>2, <1>3, <1>5, <1>6, <2>2, <2>4, <3>1
              <3>2. CASE who[w].on # d
                    BY <1>3, <1>4, <1>6, <2>2, <3>2 DEF Good, WaitersMatch
              <3>3. QED
                    BY <3>1, <3>2
        <2>6. ch2[who[w].on].kind = "pending" => \E j \in Keys : e2[j].channel = who[w].on
              <3>1. ASSUME ch2[who[w].on].kind = "pending"
                    PROVE  \E j \in Keys : e2[j].channel = who[w].on
                    <4>1. ch[who[w].on].kind = "pending"
                          BY <1>2, <1>3, <2>2, <3>1
                    <4>2. PICK j \in Keys : e[j].channel = who[w].on
                          BY <2>2, <4>1 DEF Good, WaitersMatch
                    <4>3. QED
                          BY <1>3, <4>2
              <3>2. QED
                    BY <3>1
        <2>7. QED
              BY <2>2, <2>3, <2>4, <2>5, <2>6
  <1>13. LeadersHold(e2, ch2, who2, out)
        <2>1. SUFFICES ASSUME NEW x \in Callers, who2[x].phase = "leading"
                       PROVE  /\ who2[x].key \in Keys
                              /\ ~out => e2[who2[x].key].channel = x /\ ch2[x].kind = "pending"
              BY DEF LeadersHold
        <2>2. x # c /\ who2[x] = who[x]
              BY <1>3, <2>1
        <2>3. ~out => d = c
              BY DEF Good, LeadersHold
        <2>4. QED
              BY <1>3, <2>1, <2>2, <2>3 DEF Good, LeadersHold
  <1>14. QED
        BY <1>3, <1>7, <1>8, <1>9, <1>10, <1>11, <1>12, <1>13 DEF Good, e2, ch2, who2

-----------------------------------------------------------------------------
LEMMA LeastExists ==
  ASSUME NEW T \in SUBSET Nat, T # {}
  PROVE  \E x \in T : \A y \in T : x <= y
  <1> DEFINE R == {p \in Nat \X Nat : p[1] < p[2]}
  <1>1. R = OpToRel(<, Nat)
        BY DEF OpToRel
  <1>2. IsWellFoundedOn(R, Nat)
        BY <1>1, NatLessThanWellFounded
  <1>3. \E x \in T : \A y \in T : ~(<<y, x>> \in R)
        BY <1>2, WFMin
  <1>4. \A x, y \in T : <<y, x>> \in R <=> y < x
        OBVIOUS
  <1> HIDE DEF R
  <1>5. PICK x \in T : \A y \in T : ~(<<y, x>> \in R)
        BY <1>3
  <1>6. \A y \in T : ~(y < x)
        BY <1>4, <1>5
  <1>7. \A y \in T : x \in Int /\ y \in Int
        OBVIOUS
  <1>8. \A y \in T : x <= y
        BY <1>6, <1>7
  <1>9. QED
        BY <1>8

(* make_capacity() evicts one of the records that may go.                    *)
LEMMA OldestIsOne ==
  ASSUME NEW s, s.entries \in [Keys -> Entry], NEW K \in SUBSET Keys, K # {}
  PROVE  Oldest(s, K) \in K
  <1> DEFINE T == {s.entries[k].access : k \in K}
  <1>1. T \in SUBSET Nat /\ T # {}
        BY DEF Entry
  <1>2. \E x \in T : \A y \in T : x <= y
        BY <1>1, LeastExists
  <1>3. \E k \in K : \A j \in K : s.entries[k].access <= s.entries[j].access
        BY <1>2
  <1>4. QED
        BY <1>3 DEF Oldest

LEMMA RemoveIs ==
  ASSUME NEW s, Shaped(s), NEW K
  PROVE  /\ Shaped(Remove(s, K)) /\ Remove(s, K).clock = s.clock
         /\ Remove(s, K).entries = [k \in Keys |-> IF k \in K THEN NoEntry ELSE s.entries[k]]
  BY DEF Shaped, Remove

LEMMA AccessedIs ==
  ASSUME NEW s, Shaped(s)
  PROVE  Shaped(Accessed(s)) /\ Accessed(s).clock = s.clock + 1 /\ Accessed(s).entries = s.entries
  BY DEF Shaped, Accessed

(* What begin() finds once it has swept, and what it has told.               *)
LEMMA SweptState ==
  ASSUME IInv, Expire, NEW s, s = Accessed(Cleanup)
  PROVE  /\ Good(s.entries, channel', caller, outlived')
         /\ Shaped(s) /\ outlived' \in BOOLEAN
         /\ \A k \in Held(s.entries) :
              /\ k \in Held(state.entries) /\ s.entries[k] = state.entries[k]
              /\ ~Overdue(state, k)
              /\ channel'[s.entries[k].channel] = channel[s.entries[k].channel]
         /\ \A k \in Held(state.entries) : k \in Held(s.entries) \/ Overdue(state, k)
  <1>1. /\ Shaped(s)
        /\ s.entries = [k \in Keys |-> IF k \in Stale(state) THEN NoEntry ELSE state.entries[k]]
        BY RemoveIs, AccessedIs DEF IInv, Cleanup
  <1>2. Stale(state) \in SUBSET Held(state.entries)
        BY DEF Stale
  <1>3. outlived' \in BOOLEAN /\ (outlived => outlived')
        /\ ((\E c \in StalePending : caller[c].phase = "leading") => outlived')
        <2>1. StalePending \subseteq Callers
              <3>1. \A k \in Held(state.entries) : state.entries[k].channel \in Callers
                    BY DEF IInv, Good, Typed, Entry, Held
              <3>2. QED
                    BY <1>2, <3>1 DEF StalePending
        <2>2. QED
              BY <2>1 DEF IInv, Expire, In
  <1>4. /\ StalePending = {state.entries[k].channel :
                             k \in {j \in Stale(state) : state.entries[j].expires = 0}}
        /\ channel' = [c \in Callers |-> IF c \in StalePending THEN Sent("failed", NoCaller)
                                         ELSE channel[c]]
        BY DEF StalePending, Expire, Told
  <1>5. Good(s.entries, channel', caller, outlived')
        <2>1. Good(state.entries, channel, caller, outlived) /\ outlived \in BOOLEAN
              BY DEF IInv
        <2>2. Swept(state.entries, channel, caller, outlived, Stale(state), s.entries, channel', outlived')
              BY <1>1, <1>2, <1>3, <1>4 DEF Swept
        <2>3. QED
              BY <2>1, <2>2, SweepKeeps
  <1>6. \A k \in Held(s.entries) :
          /\ k \in Held(state.entries) /\ s.entries[k] = state.entries[k] /\ ~Overdue(state, k)
        BY <1>1 DEF Held, NoEntry, Stale
  <1>7. \A k \in Held(s.entries) : channel'[s.entries[k].channel] = channel[s.entries[k].channel]
        <2>1. \A k \in Held(s.entries) : /\ s.entries[k].channel \notin StalePending
                                         /\ s.entries[k].channel \in Callers
              BY <1>6 DEF IInv, Good, Typed, Entry, Distinct, StalePending, Stale, Held
        <2>2. QED
              BY <1>4, <2>1
  <1>8. \A k \in Held(state.entries) : k \in Held(s.entries) \/ Overdue(state, k)
        BY <1>1 DEF Held, Stale
  <1>9. QED
        BY <1>1, <1>3, <1>5, <1>6, <1>7, <1>8

-----------------------------------------------------------------------------
LEMMA NewCallerIs == NewCaller \in Caller
  BY DEF NewCaller, Caller, Pending, Message, Outcomes

LEMMA SentIs ==
  ASSUME NEW kind \in Outcomes \cup Refusals, NEW c \in Callers \cup {NoCaller}
  PROVE  Sent(kind, c) \in Message /\ Sent(kind, c).kind = kind /\ Sent(kind, c).by = c
  BY DEF Sent, Message

(* A caller that is refused learns nothing of anybody.                       *)
LEMMA RefuseKeeps ==
  ASSUME NEW e, NEW ch, NEW out, Good(e, ch, caller, out), NEW c \in Callers,
         caller[c].phase # "done", NEW kind \in Refusals, Refuse(c, kind)
  PROVE  Good(e, ch, caller', out)
  <1> DEFINE next == [NewCaller EXCEPT !.phase = "done", !.reply = Sent(kind, NoCaller)]
  <1>0. Sent(kind, NoCaller) \in Message /\ Sent(kind, NoCaller).by = NoCaller
        BY SentIs
  <1>1. next \in Caller /\ next.phase = "done" /\ next.reply.by = NoCaller
        BY <1>0, NewCallerIs DEF NewCaller, Caller
  <1>2. caller' = [caller EXCEPT ![c] = next]
        BY DEF Refuse
  <1> HIDE DEF next
  <1>3. QED
        BY <1>1, <1>2, MoveKeeps

LEMMA BeginKnownKeeps ==
  ASSUME IInv, NEW c \in Callers, NEW k \in Keys, NEW p \in Prints, BeginKnown(c, k, p)
  PROVE  IInv'
  <1> DEFINE s == Accessed(Cleanup)
             m == channel[s.entries[k].channel]
  <1>1. /\ Expire /\ now' = now /\ caller[c].phase = "new" /\ k \in Held(s.entries)
        BY DEF BeginKnown, In
  <1>2. /\ Good(s.entries, channel', caller, outlived') /\ Shaped(s) /\ outlived' \in BOOLEAN
        /\ m = channel'[s.entries[k].channel]
        BY <1>1, SweptState
  <1> HIDE DEF s
  <1>3. CASE s.entries[k].print # p
        <2>1. state' = s /\ Refuse(c, "conflict")
              BY <1>3 DEF BeginKnown, s
        <2>2. QED
              BY <1>1, <1>2, <2>1, RefuseKeeps DEF IInv, Refusals
  <1>4. CASE s.entries[k].print = p
        <2> DEFINE touched == [s.entries EXCEPT ![k].access = s.clock]
        <2>1. state' = [s EXCEPT !.entries[k].access = s.clock]
              BY <1>4 DEF BeginKnown, s
        <2>2. state'.entries = touched /\ Shaped(state')
              BY <1>2, <2>1 DEF Shaped
        <2>3. s.clock \in Nat
              BY <1>2 DEF Shaped
        <2>4. Good(touched, channel', caller, outlived')
              BY <1>1, <1>2, <2>3, TouchKeeps
        <2>5. s.entries \in [Keys -> Entry] /\ k \in Keys
              BY <1>2 DEF Good, Typed
        <2>6. /\ touched[k].print = s.entries[k].print
              /\ touched[k].channel = s.entries[k].channel
              /\ k \in Held(touched)
              BY <1>1, <2>5 DEF Entry, Held
        <2> HIDE DEF touched
        <2>7. caller \in [Callers -> Caller]
              BY DEF IInv, Good, Typed
        <2>8. CASE m.kind = "pending"
              <3> DEFINE next == [caller[c] EXCEPT !.phase = "waiting", !.key = k, !.print = p,
                                                   !.on = s.entries[k].channel, !.since = now]
              <3>1. caller' = [caller EXCEPT ![c] = next]
                    BY <1>4, <2>7, <2>8 DEF BeginKnown, s
              <3>2. /\ next \in Caller /\ next.phase = "waiting" /\ next.key = k /\ next.print = p
                    /\ next.on = s.entries[k].channel
                    <4>1. s.entries[k].channel \in Callers \cup {NoCaller} /\ caller[c] \in Caller
                          BY <2>5, <2>7 DEF Entry
                    <4>2. now \in Nat
                          BY DEF IInv
                    <4>3. QED
                          BY <2>5, <4>1, <4>2 DEF Caller
              <3> HIDE DEF next
              <3>3. Good(touched, channel', caller', outlived')
                    BY <1>1, <1>2, <1>4, <2>4, <2>6, <2>8, <3>1, <3>2, MoveKeeps
              <3>4. QED
                    BY <1>1, <1>2, <2>2, <3>3 DEF IInv
        <2>9. CASE m.kind # "pending"
              <3> DEFINE next == [NewCaller EXCEPT !.phase = "done", !.key = k, !.print = p, !.reply = m]
              <3>1. caller' = [caller EXCEPT ![c] = next]
                    BY <1>4, <2>9 DEF BeginKnown, Answer, s
              <3>2. m \in Message
                    BY <1>1, <1>2, <2>5 DEF Good, Typed, Entry, Held
              <3>3. /\ next \in Caller /\ next.phase = "done" /\ next.key = k /\ next.print = p
                    /\ next.reply = m
                    BY <2>5, <3>2, NewCallerIs DEF NewCaller, Caller
              <3> HIDE DEF next
              <3>4. m.by # NoCaller => Done(caller, m.by, k, p)
                    BY <1>1, <1>2, <1>4 DEF Good, RecordsMatch
              <3>5. Good(touched, channel', caller', outlived')
                    BY <1>1, <2>4, <3>1, <3>3, <3>4, MoveKeeps
              <3>6. QED
                    BY <1>1, <1>2, <2>2, <3>5 DEF IInv
        <2>10. QED
              BY <2>8, <2>9
  <1>5. QED
        BY <1>3, <1>4

LEMMA RemoveKeeps ==
  ASSUME NEW s, NEW ch, NEW who, NEW out, Good(s.entries, ch, who, out), Shaped(s),
         NEW K, \A k \in K \cap Held(s.entries) : s.entries[k].expires # 0
  PROVE  /\ Good(Remove(s, K).entries, ch, who, out) /\ Shaped(Remove(s, K))
         /\ \A k \in Held(Remove(s, K).entries) : k \in Held(s.entries)
         /\ \A k \in Keys \ K : Remove(s, K).entries[k] = s.entries[k]
  <1> DEFINE e2 == Remove(s, K).entries
  <1>1. Shaped(Remove(s, K)) /\ e2 = [k \in Keys |-> IF k \in K THEN NoEntry ELSE s.entries[k]]
        BY RemoveIs
  <1> HIDE DEF e2
  <1>2. Good(e2, ch, who, out)
        BY <1>1, DropKeeps
  <1>3. \A k \in Held(e2) : k \in Held(s.entries)
        BY <1>1 DEF Held, NoEntry
  <1>4. QED
        BY <1>1, <1>2, <1>3 DEF e2

LEMMA MadeRoom ==
  ASSUME NEW s, NEW ch, NEW who, NEW out, Good(s.entries, ch, who, out), Shaped(s),
         HasRoom(s) \/ Evictable(s) # {}
  PROVE  /\ Good(MakeCapacity(s).entries, ch, who, out) /\ Shaped(MakeCapacity(s))
         /\ Held(MakeCapacity(s).entries) \subseteq Held(s.entries)
  <1>1. CASE HasRoom(s)
        BY <1>1 DEF MakeCapacity
  <1>2. CASE ~HasRoom(s)
        <2> DEFINE K == {Oldest(s, Evictable(s))}
        <2>1. Evictable(s) \in SUBSET Keys /\ s.entries \in [Keys -> Entry]
              BY DEF Evictable, Held, Good, Typed
        <2>2. \A k \in K : k \in Evictable(s)
              BY <1>2, <2>1, OldestIsOne
        <2>3. MakeCapacity(s) = Remove(s, K)
              BY <1>2 DEF MakeCapacity
        <2>4. \A k \in K \cap Held(s.entries) : s.entries[k].expires # 0
              BY <2>2 DEF Evictable
        <2> HIDE DEF K
        <2>5. QED
              BY <2>3, <2>4, RemoveKeeps
  <1>3. QED
        BY <1>1, <1>2

LEMMA BeginLeadKeeps ==
  ASSUME IInv, NEW c \in Callers, NEW k \in Keys, NEW p \in Prints, BeginLead(c, k, p)
  PROVE  IInv'
  <1> DEFINE s == Accessed(Cleanup)
             room == MakeCapacity(s)
             r == [NoEntry EXCEPT !.channel = c, !.print = p, !.created = now, !.access = s.clock]
             next == [caller[c] EXCEPT !.phase = "leading", !.key = k, !.print = p, !.since = now]
  <1>1. /\ Expire /\ now' = now /\ caller[c].phase = "new" /\ k \notin Held(s.entries)
        /\ HasRoom(s) \/ Evictable(s) # {}
        /\ state' = [room EXCEPT !.entries[k] = r]
        /\ caller' = [caller EXCEPT ![c] = next]
        BY DEF BeginLead, In, IInv, Good, Typed
  <1>2. Good(s.entries, channel', caller, outlived') /\ Shaped(s) /\ outlived' \in BOOLEAN
        BY <1>1, SweptState
  <1>3. /\ Good(room.entries, channel', caller, outlived') /\ Shaped(room)
        /\ k \in Keys \ Held(room.entries)
        BY <1>1, <1>2, MadeRoom
  <1>4. /\ r \in Entry /\ r.channel = c /\ r.expires = 0 /\ r.bytes = 0 /\ ~r.uncertain
        BY <1>2 DEF NoEntry, Entry, IInv, Shaped
  <1>5. next \in Caller /\ next.phase = "leading" /\ next.key = k
        <2>1. caller[c] \in Caller /\ now \in Nat
              BY DEF IInv, Good, Typed
        <2>2. QED
              BY <2>1 DEF Caller
  <1> HIDE DEF s, room, r, next
  <1>6. state'.entries = [room.entries EXCEPT ![k] = r] /\ Shaped(state')
        BY <1>1, <1>3 DEF Shaped
  <1>7. Good(state'.entries, channel', caller', outlived')
        <2>1. Good([room.entries EXCEPT ![k] = r], channel', [caller EXCEPT ![c] = next], outlived')
              BY <1>1, <1>3, <1>4, <1>5, LeadKeeps
        <2>2. QED
              BY <1>1, <1>6, <2>1
  <1>8. QED
        BY <1>1, <1>2, <1>6, <1>7 DEF IInv

LEMMA BeginFullKeeps ==
  ASSUME IInv, NEW c \in Callers, NEW k \in Keys, NEW p \in Prints, BeginFull(c, k, p)
  PROVE  IInv'
  <1> DEFINE s == Accessed(Cleanup)
  <1>1. /\ Expire /\ now' = now /\ caller[c].phase = "new" /\ state' = s /\ Refuse(c, "overloaded")
        BY DEF BeginFull, In
  <1>2. Good(s.entries, channel', caller, outlived') /\ Shaped(s) /\ outlived' \in BOOLEAN
        BY <1>1, SweptState
  <1> HIDE DEF s
  <1>3. QED
        BY <1>1, <1>2, RefuseKeeps DEF IInv, Refusals

-----------------------------------------------------------------------------
(* A leader that ends its request.                                           *)
LEMMA EndIs ==
  ASSUME IInv, NEW c \in Callers, caller[c].phase = "leading", End(c)
  PROVE  \E next \in Caller :
           /\ caller' = [caller EXCEPT ![c] = next]
           /\ next.phase = "done" /\ next.key = caller[c].key /\ next.print = caller[c].print
           /\ next.reply.by = c
  <1> DEFINE next == [caller[c] EXCEPT !.phase = "done", !.since = 0, !.reply = Sent("ended", c)]
  <1>1. caller' = [caller EXCEPT ![c] = next]
        BY DEF End
  <1>2. Sent("ended", c) \in Message /\ Sent("ended", c).by = c
        BY SentIs DEF Refusals
  <1>3. /\ next \in Caller /\ next.phase = "done" /\ next.key = caller[c].key
        /\ next.print = caller[c].print /\ next.reply.by = c
        BY <1>2 DEF IInv, Good, Typed, Caller
  <1>4. QED
        BY <1>1, <1>3

(* It settles the record of its token, in what is left of the records.       *)
LEMMA SettleState ==
  ASSUME IInv, NEW c \in Callers, caller[c].phase = "leading", Mine(c), End(c),
         NEW k, k = caller[c].key, NEW s, Good(s.entries, channel, caller, outlived),
         s.entries[k] = state.entries[k],
         NEW kind \in {"completed", "failed", "unknown"}, Send(c, Sent(kind, c)),
         NEW r \in Entry, r.channel = s.entries[k].channel, r.print = s.entries[k].print,
         r.expires # 0
  PROVE  Good([s.entries EXCEPT ![k] = r], channel', caller', outlived)
  <1>1. k \in Held(s.entries) /\ s.entries[k].print = caller[c].print
        BY DEF IInv, Good, LeadersHold, Mine, Held
  <1>2. channel' = [channel EXCEPT ![s.entries[k].channel] = Sent(kind, c)]
        BY DEF Send
  <1>3. PICK next \in Caller :
           /\ caller' = [caller EXCEPT ![c] = next]
           /\ next.phase = "done" /\ next.key = caller[c].key /\ next.print = caller[c].print
           /\ next.reply.by = c
        BY EndIs
  <1>4. Good([s.entries EXCEPT ![k] = r], [channel EXCEPT ![s.entries[k].channel] = Sent(kind, c)],
             [caller EXCEPT ![c] = next], outlived)
        BY <1>1, <1>3, SettleKeeps
  <1>5. QED
        BY <1>2, <1>3, <1>4

LEMMA MyRecord ==
  ASSUME IInv, NEW c \in Callers, caller[c].phase = "leading", Mine(c)
  PROVE  /\ caller[c].key \in Keys /\ caller[c].key \in Held(state.entries)
         /\ state.entries \in [Keys -> Entry] /\ Shaped(state)
  BY DEF IInv, Good, Typed, LeadersHold, Mine, Held

(* Responses that are dropped for room are settled ones of other requests.   *)
LEMMA ReplayableIsSettled ==
  ASSUME IInv, NEW k
  PROVE  /\ k \notin Replayable(k)
         /\ \A j \in Replayable(k) : j \in Held(state.entries) /\ state.entries[j].expires # 0
  <1>1. \A j \in Replayable(k) : j \in Held(state.entries) /\ state.entries[j].bytes > 0 /\ j # k
        BY DEF Replayable
  <1>2. QED
        BY <1>1 DEF IInv, Good, Settled

LEMMA LifetimesEnd ==
  ASSUME IInv
  PROVE  /\ now + CompletedTtl \in Nat \ {0} /\ now + UnknownTtl \in Nat \ {0}
         /\ \A weight \in Weights : weight \in Nat
  <1>1. CompletedTtl \in Nat \ {0} /\ UnknownTtl \in Nat \ {0} /\ Weights \subseteq Nat
        OBVIOUS
  <1>2. now \in Nat
        BY DEF IInv
  <1>3. QED
        BY <1>1, <1>2

LEMMA CompleteKeeps ==
  ASSUME IInv, NEW c \in Callers, NEW weight \in Weights, Complete(c, weight)
  PROVE  IInv'
  <1> DEFINE k == caller[c].key
             V == Victims(k, weight)
             s == Remove(state, V)
             r == [s.entries[k] EXCEPT !.expires = now + CompletedTtl, !.uncertain = FALSE,
                                       !.bytes = weight, !.access = s.clock + 1]
  <1>1. /\ caller[c].phase = "leading" /\ Mine(c) /\ End(c) /\ Send(c, Sent("completed", c))
        /\ UNCHANGED <<outlived, now>>
        /\ state' = [s EXCEPT !.clock = @ + 1, !.bytes = @ + weight, !.entries[k] = r]
        BY DEF Complete, In
  <1>2. k \in Keys /\ state.entries \in [Keys -> Entry] /\ Shaped(state)
        BY <1>1, MyRecord
  <1>3. k \notin V /\ \A j \in V \cap Held(state.entries) : state.entries[j].expires # 0
        BY ReplayableIsSettled DEF Victims
  <1> HIDE DEF V
  <1>4. /\ Good(s.entries, channel, caller, outlived) /\ Shaped(s)
        /\ s.entries[k] = state.entries[k]
        <2>1. Good(state.entries, channel, caller, outlived)
              BY DEF IInv
        <2>2. Good(s.entries, channel, caller, outlived) /\ Shaped(s)
              BY <1>2, <1>3, <2>1, RemoveKeeps
        <2>3. s.entries[k] = state.entries[k]
              <3>1. s.entries = [j \in Keys |-> IF j \in V THEN NoEntry ELSE state.entries[j]]
                    BY <1>2, RemoveIs
              <3>2. k \in Keys /\ k \notin V
                    BY <1>2, <1>3
              <3> HIDE DEF s, k
              <3>3. QED
                    BY <3>1, <3>2
        <2>4. QED
              BY <2>2, <2>3
  <1> HIDE DEF s
  <1>5. /\ r \in Entry /\ r.channel = s.entries[k].channel /\ r.print = s.entries[k].print
        /\ r.expires # 0
        <2>1. s.entries[k] \in Entry /\ s.clock + 1 \in Nat
              BY <1>2, <1>4 DEF Shaped
        <2>2. QED
              BY <2>1, LifetimesEnd DEF Entry
  <1> HIDE DEF r
  <1>6. state'.entries = [s.entries EXCEPT ![k] = r] /\ Shaped(state')
        BY <1>1, <1>4 DEF Shaped
  <1>7. Good([s.entries EXCEPT ![k] = r], channel', caller', outlived)
        BY <1>1, <1>4, <1>5, SettleState
  <1>8. QED
        BY <1>1, <1>6, <1>7 DEF IInv

LEMMA OversizedKeeps ==
  ASSUME IInv, NEW c \in Callers, NEW weight \in Weights, CompleteOversized(c, weight)
  PROVE  IInv'
  <1> DEFINE k == caller[c].key
             s == IF weight > MaxBytes THEN state ELSE Remove(state, Replayable(k))
             r == [s.entries[k] EXCEPT !.expires = now + CompletedTtl, !.uncertain = TRUE, !.bytes = 0]
  <1>1. /\ caller[c].phase = "leading" /\ Mine(c) /\ End(c) /\ Send(c, Sent("unknown", c))
        /\ UNCHANGED <<outlived, now>>
        /\ state' = [s EXCEPT !.entries[k] = r]
        BY DEF CompleteOversized, In
  <1>2. k \in Keys /\ state.entries \in [Keys -> Entry] /\ Shaped(state)
        BY <1>1, MyRecord
  <1>3. /\ Good(s.entries, channel, caller, outlived) /\ Shaped(s)
        /\ s.entries[k] = state.entries[k]
        <2>1. Good(state.entries, channel, caller, outlived)
              BY DEF IInv
        <2> DEFINE R == Replayable(k)  s2 == Remove(state, R)
        <2>2. k \in Keys \ R /\ \A j \in R \cap Held(state.entries) : state.entries[j].expires # 0
              BY <1>2, ReplayableIsSettled
        <2> HIDE DEF k, R
        <2>3. /\ Good(s2.entries, channel, caller, outlived) /\ Shaped(s2)
              /\ s2.entries[k] = state.entries[k]
              BY <1>2, <2>1, <2>2, RemoveKeeps
        <2>4. s = s2 \/ s = state
              BY DEF R, k
        <2> HIDE DEF s, s2
        <2>5. QED
              BY <1>2, <2>1, <2>3, <2>4
  <1> HIDE DEF s
  <1>4. /\ r \in Entry /\ r.channel = s.entries[k].channel /\ r.print = s.entries[k].print
        /\ r.expires # 0
        <2>1. s.entries[k] \in Entry
              BY <1>2, <1>3
        <2>2. QED
              BY <2>1, LifetimesEnd DEF Entry
  <1> HIDE DEF r
  <1>5. state'.entries = [s.entries EXCEPT ![k] = r] /\ Shaped(state')
        BY <1>1, <1>3 DEF Shaped
  <1>6. Good([s.entries EXCEPT ![k] = r], channel', caller', outlived)
        BY <1>1, <1>3, <1>4, SettleState
  <1>7. QED
        BY <1>1, <1>5, <1>6 DEF IInv

LEMMA FailUnknownKeeps ==
  ASSUME IInv, NEW c \in Callers, FailUnknown(c)
  PROVE  IInv'
  <1> DEFINE k == caller[c].key
             r == [state.entries[k] EXCEPT !.expires = now + UnknownTtl, !.uncertain = TRUE]
  <1>1. /\ caller[c].phase = "leading" /\ Mine(c) /\ End(c) /\ Send(c, Sent("unknown", c))
        /\ UNCHANGED <<outlived, now>>
        /\ state' = [state EXCEPT !.entries[k] = r]
        BY DEF FailUnknown, In
  <1>2. k \in Keys /\ state.entries \in [Keys -> Entry] /\ Shaped(state)
        BY <1>1, MyRecord
  <1>3. /\ r \in Entry /\ r.channel = state.entries[k].channel /\ r.print = state.entries[k].print
        /\ r.expires # 0
        <2>1. state.entries[k] \in Entry
              BY <1>2
        <2>2. QED
              BY <2>1, LifetimesEnd DEF Entry
  <1> HIDE DEF r
  <1>4. state'.entries = [state.entries EXCEPT ![k] = r] /\ Shaped(state')
        BY <1>1, <1>2 DEF Shaped
  <1>5. Good([state.entries EXCEPT ![k] = r], channel', caller', outlived)
        BY <1>1, <1>3, SettleState DEF IInv
  <1>6. QED
        BY <1>1, <1>4, <1>5 DEF IInv

(* The record is settled as failed, then it goes.                            *)
LEMMA FailKnownKeeps ==
  ASSUME IInv, NEW c \in Callers, FailKnown(c)
  PROVE  IInv'
  <1> DEFINE k == caller[c].key
             r == [state.entries[k] EXCEPT !.expires = 1]
             e1 == [state.entries EXCEPT ![k] = r]
             s == Remove(state, {k})
  <1>1. /\ caller[c].phase = "leading" /\ Mine(c) /\ End(c) /\ Send(c, Sent("failed", c))
        /\ UNCHANGED <<outlived, now>> /\ state' = s
        BY DEF FailKnown, In
  <1>2. k \in Keys /\ state.entries \in [Keys -> Entry] /\ Shaped(state)
        BY <1>1, MyRecord
  <1>3. /\ r \in Entry /\ r.channel = state.entries[k].channel /\ r.print = state.entries[k].print
        /\ r.expires # 0
        BY <1>2 DEF Entry
  <1>4. Good(e1, channel', caller', outlived)
        BY <1>1, <1>3, SettleState DEF IInv
  <1> DEFINE gone == {k}
  <1>5. /\ s.entries = [j \in Keys |-> IF j \in gone THEN NoEntry ELSE e1[j]]
        /\ Shaped(s)
        BY <1>2, RemoveIs
  <1>6. \A j \in gone \cap Held(e1) : e1[j].expires # 0
        BY <1>2, <1>3
  <1> HIDE DEF e1, s, gone
  <1>7. Good(s.entries, channel', caller', outlived)
        BY <1>4, <1>5, <1>6, DropKeeps
  <1>8. QED
        BY <1>1, <1>5, <1>7 DEF IInv

(* The records and the channels stay as they are.                            *)
LEMMA MoveState ==
  ASSUME IInv, UNCHANGED <<state, channel, outlived, now>>,
         Good(state.entries, channel, caller', outlived)
  PROVE  IInv'
  BY DEF IInv

LEMMA EndAloneKeeps ==
  ASSUME IInv, NEW c \in Callers, EndAlone(c)
  PROVE  IInv'
  <1>1. /\ caller[c].phase = "leading" /\ End(c) /\ UNCHANGED <<state, channel, outlived, now>>
        BY DEF EndAlone, In
  <1>2. PICK next \in Caller :
           /\ caller' = [caller EXCEPT ![c] = next]
           /\ next.phase = "done" /\ next.reply.by = c
        BY <1>1, EndIs
  <1>3. Good(state.entries, channel, [caller EXCEPT ![c] = next], outlived)
        BY <1>1, <1>2, MoveKeeps DEF IInv
  <1>4. QED
        BY <1>1, <1>2, <1>3, MoveState

LEMMA WaitAnsweredKeeps ==
  ASSUME IInv, NEW c \in Callers, WaitAnswered(c)
  PROVE  IInv'
  <1> DEFINE m == channel[caller[c].on]
             next == [caller[c] EXCEPT !.phase = "done", !.on = NoCaller, !.since = 0, !.reply = m]
  <1>1. /\ caller[c].phase = "waiting" /\ UNCHANGED <<state, channel, outlived, now>>
        /\ caller' = [caller EXCEPT ![c] = next]
        BY DEF WaitAnswered, Leave, In
  <1>2. m \in Message /\ (m.by # NoCaller => Done(caller, m.by, caller[c].key, caller[c].print))
        BY <1>1 DEF IInv, Good, Typed, WaitersMatch
  <1>3. /\ next \in Caller /\ next.phase = "done" /\ next.key = caller[c].key
        /\ next.print = caller[c].print /\ next.reply = m
        <2>1. caller[c] \in Caller
              BY DEF IInv, Good, Typed
        <2> HIDE DEF m
        <2>2. QED
              BY <1>2, <2>1 DEF Caller
  <1> HIDE DEF next
  <1>4. Good(state.entries, channel, [caller EXCEPT ![c] = next], outlived)
        BY <1>1, <1>2, <1>3, MoveKeeps DEF IInv
  <1>5. QED
        BY <1>1, <1>4, MoveState

LEMMA WaitTimeoutKeeps ==
  ASSUME IInv, NEW c \in Callers, WaitTimeout(c)
  PROVE  IInv'
  <1>1. /\ caller[c].phase = "waiting" /\ UNCHANGED <<state, channel, outlived, now>>
        /\ Refuse(c, "timeout")
        BY DEF WaitTimeout, In
  <1>2. Good(state.entries, channel, caller', outlived)
        BY <1>1, RefuseKeeps DEF IInv, Refusals
  <1>3. QED
        BY <1>1, <1>2, MoveState

LEMMA DroppedKeeps ==
  ASSUME IInv, NEW c \in Callers, Dropped(c)
  PROVE  IInv'
  <1> DEFINE next == [NewCaller EXCEPT !.phase = "dropped"]
  <1>1. /\ caller[c].phase \in {"leading", "waiting"} /\ UNCHANGED <<state, channel, outlived, now>>
        /\ caller' = [caller EXCEPT ![c] = next]
        BY DEF Dropped, In
  <1>2. next \in Caller /\ next.phase = "dropped"
        BY NewCallerIs DEF NewCaller, Caller
  <1> HIDE DEF next
  <1>3. Good(state.entries, channel, [caller EXCEPT ![c] = next], outlived)
        BY <1>1, <1>2, MoveKeeps DEF IInv
  <1>4. QED
        BY <1>1, <1>3, MoveState

-----------------------------------------------------------------------------
(* The invariant is inductive.                                               *)
LEMMA InitInv == Init => IInv
  <1>1. SUFFICES ASSUME Init PROVE IInv
        OBVIOUS
  <1>2. /\ state.entries = [k \in Keys |-> NoEntry] /\ Shaped(state)
        /\ channel = [c \in Callers |-> Pending] /\ caller = [c \in Callers |-> NewCaller]
        /\ outlived = FALSE /\ now = 0
        BY <1>1 DEF Init, Shaped
  <1>3. NoEntry \in Entry /\ Pending \in Message /\ Pending.by = NoCaller
        BY DEF NoEntry, Entry, Pending, Message, Outcomes
  <1>4. Typed(state.entries, channel, caller)
        BY <1>2, <1>3, NewCallerIs DEF Typed
  <1>5. Held(state.entries) = {} /\ \A c \in Callers : caller[c].phase = "new"
        BY <1>2 DEF Held, NoEntry, NewCaller
  <1>6. Good(state.entries, channel, caller, outlived)
        BY <1>2, <1>3, <1>4, <1>5 DEF Good, Settled, Distinct, Led, Spoken, RecordsMatch,
           WaitersMatch, RepliesMatch, LeadersHold
  <1>7. QED
        BY <1>2, <1>6 DEF IInv

LEMMA StepInv ==
  ASSUME IInv, [Next]_vars
  PROVE  IInv'
  <1>1. CASE UNCHANGED vars
        BY <1>1 DEF vars, IInv
  <1>2. CASE \E c \in Callers, k \in Keys, p \in Prints :
               BeginKnown(c, k, p) \/ BeginLead(c, k, p) \/ BeginFull(c, k, p)
        BY <1>2, BeginKnownKeeps, BeginLeadKeeps, BeginFullKeeps
  <1>3. CASE \E c \in Callers, weight \in Weights : Complete(c, weight) \/ CompleteOversized(c, weight)
        BY <1>3, CompleteKeeps, OversizedKeeps
  <1>4. CASE \E c \in Callers : FailKnown(c) \/ FailUnknown(c) \/ EndAlone(c)
        BY <1>4, FailKnownKeeps, FailUnknownKeeps, EndAloneKeeps
  <1>5. CASE \E c \in Callers : WaitAnswered(c) \/ WaitTimeout(c) \/ Dropped(c)
        BY <1>5, WaitAnsweredKeeps, WaitTimeoutKeeps, DroppedKeeps
  <1>6. CASE Tick
        BY <1>6 DEF Tick, IInv
  <1>7. QED
        BY <1>1, <1>2, <1>3, <1>4, <1>5, <1>6 DEF Next

(* begin(), wait(), complete(), fail(), cleanup(): every call of the          *)
(* coordinator, and every drop of a caller, keeps the invariant.             *)
THEOREM Invariance == Spec => []IInv
  BY InitInv, StepInv, PTL DEF Spec

(* begin(): of the requests with a key, one at a time is at its provider,    *)
(* for as long as no record expires under its leader.                        *)
THEOREM OneLeads == Spec => []OneLeader
  <1>1. IInv => OneLeader
        BY DEF IInv, Good, LeadersHold, OneLeader, In
  <1>2. QED
        BY <1>1, Invariance, PTL

(* begin(), wait(), complete(), fail(): what a caller is told of somebody    *)
(* else's request is told of its own, also when a leader settles a record    *)
(* that another one has inserted since.                                      *)
THEOREM RepliesBelong == Spec => []ReplaysMatch
  <1>1. IInv => ReplaysMatch
        BY DEF IInv, Good, RepliesMatch, Done, ReplaysMatch, In
  <1>2. QED
        BY <1>1, Invariance, PTL

(* wait(): a channel that is waited on keeps its sender until it is answered. *)
THEOREM NobodyWaitsInVain == Spec => []NoOrphanWaiter
  <1>1. IInv => NoOrphanWaiter
        BY DEF IInv, Good, WaitersMatch, NoOrphanWaiter, Closed, In
  <1>2. QED
        BY <1>1, Invariance, PTL

-----------------------------------------------------------------------------
(* An unknown outcome that is not out of date survives every step: it is not *)
(* swept, not evicted, and not the record of a leader still at work.         *)
LEMMA UnknownStays ==
  ASSUME IInv, [Next]_vars, NEW k \in Held(state.entries), state.entries[k].uncertain,
         now < state.entries[k].expires, ~outlived
  PROVE  state'.entries[k].uncertain
  <1>1. /\ k \in Keys /\ state.entries \in [Keys -> Entry] /\ Shaped(state)
        /\ Good(state.entries, channel, caller, outlived) /\ now \in Nat
        BY DEF IInv, Good, Typed, Held
  <1>2. state.entries[k].expires # 0 /\ ~Overdue(state, k)
        BY <1>1 DEF Overdue, Entry
  <1>3. channel[state.entries[k].channel].kind # "pending"
        BY <1>1, <1>2 DEF Good, Settled
  <1>4. \A c \in Callers : caller[c].phase = "leading" => caller[c].key # k
        BY <1>1, <1>3 DEF Good, LeadersHold
  <1>5. ASSUME Expire, NEW s, s = Accessed(Cleanup)
        PROVE  /\ k \in Held(s.entries) /\ s.entries[k] = state.entries[k] /\ Shaped(s)
               /\ s.entries \in [Keys -> Entry]
        BY <1>2, <1>5, SweptState DEF Good, Typed
  <1>6. CASE \E c \in Callers, j \in Keys, p \in Prints : BeginKnown(c, j, p) \/ BeginFull(c, j, p)
        <2> DEFINE s == Accessed(Cleanup)
        <2>1. PICK j \in Keys : Expire /\ (state' = s \/ state' = [s EXCEPT !.entries[j].access = s.clock])
              BY <1>6 DEF BeginKnown, BeginFull
        <2>2. /\ k \in Held(s.entries) /\ s.entries[k] = state.entries[k] /\ Shaped(s)
              /\ s.entries \in [Keys -> Entry]
              BY <1>5, <2>1
        <2> HIDE DEF s
        <2>3. QED
              BY <1>1, <2>1, <2>2 DEF Shaped, Entry
  <1>7. CASE \E c \in Callers, j \in Keys, p \in Prints : BeginLead(c, j, p)
        <2> DEFINE s == Accessed(Cleanup)
        <2>1. PICK c \in Callers, j \in Keys, p \in Prints : BeginLead(c, j, p)
              BY <1>7
        <2>2. PICK r : /\ Expire /\ j \notin Held(s.entries) /\ (HasRoom(s) \/ Evictable(s) # {})
                       /\ state' = [MakeCapacity(s) EXCEPT !.entries[j] = r]
              BY <2>1 DEF BeginLead
        <2>3. /\ k \in Held(s.entries) /\ s.entries[k] = state.entries[k] /\ Shaped(s)
              /\ s.entries \in [Keys -> Entry]
              BY <1>5, <2>2
        <2> HIDE DEF s
        <2>4. Evictable(s) \in SUBSET Keys /\ k \notin Evictable(s)
              BY <2>3 DEF Evictable, Held
        <2>5. MakeCapacity(s).entries[k] = state.entries[k] /\ Shaped(MakeCapacity(s))
              <3>1. CASE HasRoom(s)
                    BY <2>3, <3>1 DEF MakeCapacity
              <3>2. CASE ~HasRoom(s)
                    <4>1. Oldest(s, Evictable(s)) # k
                          BY <2>2, <2>3, <2>4, <3>2, OldestIsOne
                    <4>2. Shaped(Remove(s, {Oldest(s, Evictable(s))})) /\
                          Remove(s, {Oldest(s, Evictable(s))}).entries =
                            [i \in Keys |-> IF i \in {Oldest(s, Evictable(s))} THEN NoEntry ELSE s.entries[i]]
                          BY <2>3, RemoveIs
                    <4>3. QED
                          BY <1>1, <2>3, <3>2, <4>1, <4>2 DEF MakeCapacity
              <3>3. QED
                    BY <3>1, <3>2
        <2>6. j # k
              BY <2>2, <2>3
        <2>7. state'.entries[k] = MakeCapacity(s).entries[k]
              BY <2>2, <2>5, <2>6 DEF Shaped
        <2>8. QED
              BY <2>5, <2>7
  <1>8. ASSUME NEW K, k \notin K
        PROVE  Shaped(Remove(state, K)) /\ Remove(state, K).entries[k] = state.entries[k]
        <2>1. /\ Shaped(Remove(state, K))
              /\ Remove(state, K).entries = [i \in Keys |-> IF i \in K THEN NoEntry ELSE state.entries[i]]
              BY <1>1, RemoveIs
        <2>2. QED
              BY <1>1, <1>8, <2>1
  <1>9. CASE \E c \in Callers, weight \in Weights : Complete(c, weight)
        <2>1. PICK c \in Callers, weight \in Weights : Complete(c, weight)
              BY <1>9
        <2> DEFINE j == caller[c].key
                   s == Remove(state, Victims(j, weight))
        <2>2. k \notin Victims(j, weight)
              BY DEF Replayable, Victims
        <2>3. Shaped(s) /\ s.entries[k] = state.entries[k]
              BY <1>8, <2>2
        <2>4. \E r, n, b : state' = [s EXCEPT !.clock = n, !.bytes = b, !.entries[j] = r]
              BY <2>1 DEF Complete
        <2>5. j # k
              BY <1>4, <2>1 DEF Complete, In
        <2> HIDE DEF s, j
        <2>6. QED
              BY <2>3, <2>4, <2>5 DEF Shaped
  <1>10. CASE \E c \in Callers, weight \in Weights : CompleteOversized(c, weight)
        <2>1. PICK c \in Callers, weight \in Weights : CompleteOversized(c, weight)
              BY <1>10
        <2> DEFINE j == caller[c].key
                   s == IF weight > MaxBytes THEN state ELSE Remove(state, Replayable(j))
        <2>2. k \notin Replayable(j)
              BY DEF Replayable
        <2>3. Shaped(s) /\ s.entries[k] = state.entries[k]
              BY <1>1, <1>8, <2>2
        <2>4. \E r : state' = [s EXCEPT !.entries[j] = r]
              BY <2>1 DEF CompleteOversized
        <2>5. j # k
              BY <1>4, <2>1 DEF CompleteOversized, In
        <2> HIDE DEF s, j
        <2>6. QED
              BY <2>3, <2>4, <2>5 DEF Shaped
  <1>11. CASE \E c \in Callers : FailKnown(c) \/ FailUnknown(c)
        <2>1. PICK c \in Callers : FailKnown(c) \/ FailUnknown(c)
              BY <1>11
        <2> DEFINE j == caller[c].key
        <2>2. j # k
              BY <1>4, <2>1 DEF FailKnown, FailUnknown, In
        <2>3. state' = Remove(state, {j}) \/ \E r : state' = [state EXCEPT !.entries[j] = r]
              BY <2>1 DEF FailKnown, FailUnknown
        <2> HIDE DEF j
        <2>4. CASE state' = Remove(state, {j})
              BY <1>8, <2>2, <2>4
        <2>5. CASE \E r : state' = [state EXCEPT !.entries[j] = r]
              BY <1>1, <2>2, <2>5 DEF Shaped
        <2>6. QED
              BY <2>3, <2>4, <2>5
  <1>12. CASE UNCHANGED state
        BY <1>12
  <1>13. QED
        BY <1>6, <1>7, <1>9, <1>10, <1>11, <1>12
           DEF Next, vars, EndAlone, WaitAnswered, WaitTimeout, Dropped, Tick

(* What begin() replays at once has not passed its lifetime.                 *)
LEMMA ReplayIsFresh ==
  ASSUME IInv, [Next]_vars, NEW c \in In("new"), NEW k \in Held(state.entries),
         caller'[c].phase = "done", caller'[c].key = k, caller'[c].reply.by # NoCaller
  PROVE  now < state.entries[k].expires
  <1>1. /\ caller[c].phase = "new" /\ c \in Callers /\ k \in Keys /\ now \in Nat
        /\ state.entries \in [Keys -> Entry] /\ caller \in [Callers -> Caller]
        BY DEF In, IInv, Good, Typed, Held
  <1>2. \E j \in Keys, p \in Prints : BeginKnown(c, j, p)
        <2>1. ASSUME NEW d \in Callers, NEW next, caller' = [caller EXCEPT ![d] = next]
              PROVE  d = c
              BY <1>1, <2>1
        <2>2. ASSUME NEW d \in Callers, caller[d].phase # "new",
                     \E next : caller' = [caller EXCEPT ![d] = next]
              PROVE  FALSE
              BY <1>1, <2>1, <2>2
        <2>3. ASSUME NEW d \in Callers, NEW j \in Keys, NEW p \in Prints, BeginKnown(d, j, p)
              PROVE  d = c
              BY <2>1, <2>3 DEF BeginKnown, Refuse, Answer
        <2>4. ASSUME NEW d \in Callers, NEW j \in Keys, NEW p \in Prints,
                     BeginLead(d, j, p) \/ BeginFull(d, j, p)
              PROVE  FALSE
              <3>1. d = c
                    BY <2>1, <2>4 DEF BeginLead, BeginFull, Refuse
              <3>2. CASE BeginLead(d, j, p)
                    BY <1>1, <3>1, <3>2 DEF BeginLead, Caller
              <3>3. CASE BeginFull(d, j, p)
                    BY <1>1, <3>1, <3>3 DEF BeginFull, Refuse, Sent, NewCaller
              <3>4. QED
                    BY <2>4, <3>2, <3>3
        <2>5. ASSUME NEW d \in Callers,
                     \/ \E weight \in Weights : Complete(d, weight) \/ CompleteOversized(d, weight)
                     \/ FailKnown(d) \/ FailUnknown(d) \/ EndAlone(d)
                     \/ WaitAnswered(d) \/ WaitTimeout(d) \/ Dropped(d)
              PROVE  FALSE
              <3>1. caller[d].phase # "new"
                    BY <2>5 DEF Complete, CompleteOversized, FailKnown, FailUnknown, EndAlone,
                       WaitAnswered, WaitTimeout, Dropped, In
              <3>2. End(d) \/ (\E m : Leave(d, m)) \/ (\E m : Refuse(d, m)) \/ Dropped(d)
                    BY <2>5 DEF Complete, CompleteOversized, FailKnown, FailUnknown, EndAlone,
                       WaitAnswered, WaitTimeout
              <3>3. \E next : caller' = [caller EXCEPT ![d] = next]
                    BY <3>2 DEF End, Leave, Refuse, Dropped
              <3>4. QED
                    BY <2>2, <3>1, <3>3
        <2>6. ~(UNCHANGED caller)
              BY <1>1
        <2>7. QED
              BY <2>3, <2>4, <2>5, <2>6 DEF Next, vars, Tick
  <1>3. PICK j \in Keys, p \in Prints : BeginKnown(c, j, p)
        BY <1>2
  <1> DEFINE s == Accessed(Cleanup)
             e == s.entries[j]
  <1>4. Expire /\ j \in Held(s.entries)
        BY <1>3 DEF BeginKnown
  <1>5. e = state.entries[j] /\ ~Overdue(state, j) /\ j \in Held(state.entries)
        BY <1>4, SweptState
  <1>6. e.print = p /\ channel[e.channel].kind # "pending" /\ Answer(c, j, p, channel[e.channel])
        <2>1. CASE e.print # p
              <3>1. Refuse(c, "conflict")
                    BY <1>3, <2>1 DEF BeginKnown
              <3>2. QED
                    BY <1>1, <3>1 DEF Refuse, Sent, NewCaller
        <2>2. CASE e.print = p /\ channel[e.channel].kind = "pending"
              <3>1. caller' = [caller EXCEPT ![c] = [caller[c] EXCEPT !.phase = "waiting", !.key = j,
                                 !.print = p, !.on = e.channel, !.since = now]]
                    BY <1>3, <2>2 DEF BeginKnown
              <3>2. QED
                    BY <1>1, <3>1 DEF Caller
        <2>3. QED
              BY <1>3, <2>1, <2>2 DEF BeginKnown
  <1>7. j = k
        BY <1>1, <1>6 DEF Answer, NewCaller
  <1>8. state.entries[k].expires # 0 /\ state.entries[k].expires \in Nat
        BY <1>1, <1>5, <1>6, <1>7 DEF IInv, Good, Settled, Entry
  <1>9. QED
        BY <1>1, <1>5, <1>7, <1>8 DEF Overdue

(* cleanup(), make_capacity(), reserve_completed_bytes(): no pressure on the *)
(* bounds forgets an unknown outcome before its time, and nothing is         *)
(* replayed after it.                                                        *)
THEOREM RecordsAreKept == Spec => RecordsKeep
  <1>1. ASSUME IInv, [Next]_vars
        PROVE  [\A k \in Held(state.entries) :
                  /\ state.entries[k].uncertain /\ now < state.entries[k].expires /\ ~outlived
                  => state'.entries[k].uncertain]_vars
        BY <1>1, UnknownStays
  <1>2. ASSUME IInv, [Next]_vars
        PROVE  [\A c \in In("new"), k \in Held(state.entries) :
                  /\ caller'[c].phase = "done" /\ caller'[c].key = k
                  /\ caller'[c].reply.by # NoCaller
                  => now < state.entries[k].expires]_vars
        BY <1>2, ReplayIsFresh
  <1>3. QED
        BY <1>1, <1>2, Invariance, PTL DEF Spec, RecordsKeep, UnknownIsKept, RepliesAreFresh

-----------------------------------------------------------------------------
(***************************************************************************)
(* What the records weigh: BytesOf() is a sum over a finite set.           *)
(***************************************************************************)
Pick(s) == CHOOSE x \in s : TRUE

LEMMA PickIsIn ==
  ASSUME NEW s, s # {}
  PROVE  Pick(s) \in s
  BY DEF Pick

(* Of some subsets of a finite set one has no other one below it.            *)
LEMMA SmallestExists ==
  ASSUME NEW S, IsFiniteSet(S), NEW B \in SUBSET SUBSET S, B # {}
  PROVE  \E s \in B : \A t \in SUBSET s : t # s => t \notin B
  <1> DEFINE sizes == {Cardinality(s) : s \in B}
  <1>1. \A s \in B : IsFiniteSet(s) /\ Cardinality(s) \in Nat
        BY FS_Subset, FS_CardinalityType
  <1>2. sizes \subseteq Nat /\ sizes # {}
        BY <1>1
  <1> HIDE DEF sizes
  <1>3. PICK n \in sizes : \A m \in sizes : n <= m
        BY <1>2, LeastExists
  <1>4. PICK s \in B : n = Cardinality(s)
        BY <1>3 DEF sizes
  <1>5. ASSUME NEW t \in SUBSET s, t # s, t \in B PROVE FALSE
        <2>1. Cardinality(t) \in sizes
              BY <1>5 DEF sizes
        <2>2. n <= Cardinality(t)
              BY <1>3, <2>1
        <2>3. Cardinality(t) <= n /\ Cardinality(t) # n
              BY <1>1, <1>4, <1>5, FS_Subset
        <2>4. n \in Nat /\ Cardinality(t) \in Nat
              BY <1>1, <1>4, <1>5
        <2>5. QED
              BY <2>2, <2>3, <2>4
  <1>6. QED
        BY <1>5

(* A sum over every part of a set, whichever member is added last.           *)
Sums(g, e, S) ==
  /\ g \in [SUBSET S -> Nat] /\ g[{}] = 0
  /\ \A s \in SUBSET S : \A x \in s : g[s] = e[x].bytes + g[s \ {x}]

LEMMA SumsExist ==
  ASSUME NEW S, IsFiniteSet(S), NEW e, \A x \in S : e[x].bytes \in Nat
  PROVE  \E g : Sums(g, e, S)
  <1> DEFINE Bad == {s \in SUBSET S : ~\E g : Sums(g, e, s)}
  <1>1. SUFFICES ASSUME Bad # {} PROVE FALSE
        OBVIOUS
  <1>2. PICK T \in Bad : \A t \in SUBSET T : t # T => t \notin Bad
        <2>1. Bad \in SUBSET SUBSET S
              OBVIOUS
        <2> HIDE DEF Bad
        <2>2. QED
              BY <1>1, <2>1, SmallestExists
  <1>3. T # {}
        <2>1. Sums([s \in SUBSET {} |-> 0], e, {})
              BY DEF Sums
        <2>2. QED
              BY <1>2, <2>1
  <1>4. PICK a \in T : TRUE
        BY <1>3
  <1> DEFINE rest == T \ {a}
  <1>5. rest \in SUBSET T /\ rest # T /\ rest \in SUBSET S
        BY <1>4
  <1>6. PICK f : Sums(f, e, rest)
        BY <1>2, <1>5
  <1> DEFINE g == [s \in SUBSET T |-> IF a \in s THEN e[a].bytes + f[s \ {a}] ELSE f[s]]
  <1>7. e[a].bytes \in Nat
        BY <1>4
  <1>8. \A s \in SUBSET T : (a \notin s => s \in SUBSET rest) /\ s \ {a} \in SUBSET rest
        OBVIOUS
  <1>9. g \in [SUBSET T -> Nat] /\ g[{}] = 0
        BY <1>6, <1>7, <1>8 DEF Sums
  <1>10. ASSUME NEW s \in SUBSET T, NEW x \in s PROVE g[s] = e[x].bytes + g[s \ {x}]
         <2>1. s \ {x} \in SUBSET T
               OBVIOUS
         <2>2. CASE x = a
               BY <2>1, <2>2
         <2>3. CASE x # a /\ a \notin s
               BY <1>6, <1>8, <2>1, <2>3 DEF Sums
         <2>4. CASE x # a /\ a \in s
               <3>1. x \in s \ {a} /\ s \ {a} \in SUBSET rest /\ (s \ {a}) \ {x} = (s \ {x}) \ {a}
                     BY <2>4
               <3>2. f[s \ {a}] = e[x].bytes + f[(s \ {x}) \ {a}]
                     BY <1>6, <3>1 DEF Sums
               <3>3. g[s] = e[a].bytes + f[s \ {a}] /\ g[s \ {x}] = e[a].bytes + f[(s \ {x}) \ {a}]
                     BY <2>1, <2>4
               <3>4. f[(s \ {x}) \ {a}] \in Nat /\ e[x].bytes \in Nat
                     BY <1>6, <1>8, <2>1 DEF Sums
               <3> HIDE DEF g
               <3>5. QED
                     BY <1>7, <3>2, <3>3, <3>4
         <2>5. QED
               BY <2>2, <2>3, <2>4
  <1> HIDE DEF g
  <1>11. Sums(g, e, T)
         BY <1>9, <1>10 DEF Sums
  <1>12. QED
         BY <1>2, <1>11

LEMMA BytesAreSums ==
  ASSUME NEW S, IsFiniteSet(S), NEW e, \A x \in S : e[x].bytes \in Nat, NEW g, Sums(g, e, S)
  PROVE  BytesOf(e, S) = g[S]
  <1> DEFINE F(h) == h = [s \in SUBSET S |-> IF s = {} THEN 0 ELSE e[Pick(s)].bytes + h[s \ {Pick(s)}]]
             H == CHOOSE h : F(h)
  <1>1. F(g)
        <2>1. ASSUME NEW s \in SUBSET S
              PROVE  g[s] = IF s = {} THEN 0 ELSE e[Pick(s)].bytes + g[s \ {Pick(s)}]
              BY PickIsIn DEF Sums
        <2>2. g = [s \in SUBSET S |-> g[s]]
              BY DEF Sums
        <2>3. QED
              BY <2>1, <2>2
  <1>2. F(H)
        BY <1>1
  <1>3. BytesOf(e, S) = H[S]
        BY DEF BytesOf, MapThenSumSet, MapThenFoldSet, Pick
  <1> HIDE DEF H
  <1> DEFINE Bad == {s \in SUBSET S : H[s] # g[s]}
  <1>4. ASSUME Bad # {} PROVE FALSE
        <2>1. PICK s \in Bad : \A t \in SUBSET s : t # s => t \notin Bad
              <3>1. Bad \in SUBSET SUBSET S
                    OBVIOUS
              <3> HIDE DEF Bad
              <3>2. QED
                    BY <1>4, <3>1, SmallestExists
        <2>2. CASE s = {}
              BY <1>1, <1>2, <2>1, <2>2
        <2>3. CASE s # {}
              <3> DEFINE less == s \ {Pick(s)}
              <3>1. less \in SUBSET s /\ less # s
                    BY <2>3, PickIsIn
              <3>2. H[less] = g[less]
                    BY <2>1, <3>1
              <3>3. H[s] = e[Pick(s)].bytes + H[less]
                    BY <1>2, <2>1, <2>3
              <3>4. g[s] = e[Pick(s)].bytes + g[less]
                    BY <1>1, <2>1, <2>3
              <3>5. QED
                    BY <2>1, <3>2, <3>3, <3>4
        <2>4. QED
              BY <2>2, <2>3
  <1>5. QED
        BY <1>3, <1>4

(* The sum of a part, and of what is left.                                   *)
LEMMA BytesOfParts ==
  ASSUME NEW S, IsFiniteSet(S), NEW e, \A x \in S : e[x].bytes \in Nat, NEW K \in SUBSET S
  PROVE  /\ BytesOf(e, S) = BytesOf(e, K) + BytesOf(e, S \ K)
         /\ BytesOf(e, S) \in Nat /\ BytesOf(e, K) \in Nat /\ BytesOf(e, S \ K) \in Nat
  <1>1. PICK g : Sums(g, e, S)
        BY SumsExist
  <1>2. ASSUME NEW P \in SUBSET S PROVE BytesOf(e, P) = g[P] /\ g[P] \in Nat
        <2> DEFINE f == [s \in SUBSET P |-> g[s]]
        <2>1. Sums(f, e, P)
              BY <1>1 DEF Sums
        <2>2. IsFiniteSet(P) /\ \A x \in P : e[x].bytes \in Nat
              BY FS_Subset
        <2>3. f[P] = g[P]
              OBVIOUS
        <2> HIDE DEF f
        <2>4. BytesOf(e, P) = f[P]
              BY <2>1, <2>2, BytesAreSums
        <2>5. QED
              BY <1>1, <2>3, <2>4 DEF Sums
  <1> DEFINE Bad == {s \in SUBSET S : s \cap K = {} /\ g[K \cup s] # g[K] + g[s]}
  <1>3. ASSUME Bad # {} PROVE FALSE
        <2>1. PICK s \in Bad : \A t \in SUBSET s : t # s => t \notin Bad
              <3>1. Bad \in SUBSET SUBSET S
                    OBVIOUS
              <3> HIDE DEF Bad
              <3>2. QED
                    BY <1>3, <3>1, SmallestExists
        <2>2. g[K] \in Nat /\ g[s] \in Nat /\ g[{}] = 0
              BY <1>1, <1>2, <2>1 DEF Sums
        <2>3. s # {}
              <3>1. K \cup {} = K /\ g[K] + 0 = g[K]
                    BY <2>2
              <3>2. g[K \cup s] # g[K] + g[s]
                    BY <2>1
              <3> HIDE DEF Bad
              <3>3. QED
                    BY <2>2, <3>1, <3>2
        <2>4. PICK x \in s : TRUE
              BY <2>3
        <2> DEFINE less == s \ {x}
        <2>5. less \in SUBSET s /\ less # s /\ less \in SUBSET S /\ less \cap K = {}
              BY <2>1, <2>4
        <2>6. g[K \cup less] = g[K] + g[less]
              BY <2>1, <2>5
        <2>7. K \cup s \in SUBSET S /\ x \in K \cup s /\ (K \cup s) \ {x} = K \cup less /\ s \in SUBSET S
              BY <2>1, <2>4
        <2>8. g[K \cup s] = e[x].bytes + g[K \cup less] /\ g[s] = e[x].bytes + g[less]
              <3>1. \A t \in SUBSET S : \A y \in t : g[t] = e[y].bytes + g[t \ {y}]
                    BY <1>1 DEF Sums
              <3>2. /\ g[K \cup s] = e[x].bytes + g[(K \cup s) \ {x}]
                    /\ g[s] = e[x].bytes + g[s \ {x}]
                    BY <2>4, <2>7, <3>1
              <3>3. QED
                    BY <2>7, <3>2
        <2>9. g[less] \in Nat /\ e[x].bytes \in Nat
              BY <1>2, <2>5, <2>7
        <2>10. g[K \cup s] = g[K] + g[s]
               BY <2>2, <2>6, <2>8, <2>9
        <2>11. QED
               BY <2>1, <2>10
  <1>4. S \ K \in SUBSET S /\ (S \ K) \cap K = {} /\ K \cup (S \ K) = S
        OBVIOUS
  <1>5. g[S] = g[K] + g[S \ K]
        BY <1>3, <1>4
  <1>6. QED
        BY <1>2, <1>4, <1>5

LEMMA BytesAgree ==
  ASSUME NEW S, IsFiniteSet(S), NEW e, NEW f, \A x \in S : e[x].bytes \in Nat /\ f[x].bytes = e[x].bytes
  PROVE  BytesOf(f, S) = BytesOf(e, S)
  <1>1. PICK g : Sums(g, e, S)
        BY SumsExist
  <1>2. Sums(g, f, S)
        BY <1>1 DEF Sums
  <1>3. QED
        BY <1>1, <1>2, BytesAreSums

LEMMA BytesOfOne ==
  ASSUME NEW e, NEW k, e[k].bytes \in Nat
  PROVE  BytesOf(e, {k}) = e[k].bytes /\ BytesOf(e, {}) = 0
  <1>1. IsFiniteSet({k}) /\ IsFiniteSet({})
        BY FS_Singleton, FS_EmptySet
  <1>2. PICK g : Sums(g, e, {k})
        BY <1>1, SumsExist
  <1>3. g[{k}] = e[k].bytes + g[{}] /\ g[{}] = 0
        <2>1. {k} \ {k} = {} /\ k \in {k} /\ {k} \in SUBSET {k}
              OBVIOUS
        <2>2. g[{k}] = e[k].bytes + g[{k} \ {k}]
              BY <1>2, <2>1 DEF Sums
        <2>3. QED
              BY <1>2, <2>1, <2>2 DEF Sums
  <1>4. BytesOf(e, {k}) = g[{k}]
        BY <1>1, <1>2, BytesAreSums
  <1>5. PICK h : Sums(h, e, {})
        BY <1>1, SumsExist
  <1>6. BytesOf(e, {}) = h[{}]
        BY <1>1, <1>5, BytesAreSums
  <1>7. QED
        BY <1>3, <1>4, <1>5, <1>6 DEF Sums

-----------------------------------------------------------------------------
(***************************************************************************)
(* The counter and the bounds.                                             *)
(***************************************************************************)
Records == [entries : [Keys -> Entry], bytes : Nat, clock : Nat]

Retained(e) == BytesOf(e, Held(e))

Counted(s, out) ==
  /\ s \in Records
  /\ IsFiniteSet(Held(s.entries)) /\ Cardinality(Held(s.entries)) <= MaxEntries
  /\ Retained(s.entries) <= s.bytes /\ s.bytes <= MaxBytes
  /\ ~out => s.bytes = Retained(s.entries)

CountInv == Counted(state, outlived) /\ now \in 0..MaxTime

(* remove() takes off what it drops.                                         *)
LEMMA RemoveCounts ==
  ASSUME NEW s, NEW out, Counted(s, out), NEW K \in SUBSET Held(s.entries)
  PROVE  /\ Counted(Remove(s, K), out)
         /\ Remove(s, K).bytes = s.bytes - BytesOf(s.entries, K)
         /\ Held(Remove(s, K).entries) = Held(s.entries) \ K
         /\ Remove(s, K).clock = s.clock
  <1> DEFINE e == s.entries  rest == [k \in Keys |-> IF k \in K THEN NoEntry ELSE e[k]]
             off == BytesOf(e, K)  H == Held(e)
  <1>1. e \in [Keys -> Entry] /\ s.bytes \in Nat /\ s.clock \in Nat
        BY DEF Counted, Records
  <1>2. Held(rest) = H \ K /\ \A k \in H \ K : rest[k].bytes = e[k].bytes
        BY DEF Held, NoEntry
  <1>3. IsFiniteSet(H) /\ \A k \in H : e[k].bytes \in Nat
        BY <1>1 DEF Counted, Held, Entry
  <1>4. Retained(e) = off + BytesOf(e, H \ K) /\ off \in Nat /\ BytesOf(e, H \ K) \in Nat
        BY <1>3, BytesOfParts DEF Retained
  <1>5. Retained(rest) = BytesOf(e, H \ K)
        <2>1. IsFiniteSet(H \ K)
              BY <1>3, FS_Subset
        <2>2. \A k \in H \ K : e[k].bytes \in Nat /\ rest[k].bytes = e[k].bytes
              BY <1>2, <1>3
        <2> HIDE DEF rest, H, e
        <2>3. BytesOf(rest, H \ K) = BytesOf(e, H \ K)
              BY <2>1, <2>2, BytesAgree
        <2>4. QED
              BY <1>2, <2>3 DEF Retained
  <1>6. rest \in [Keys -> Entry]
        BY <1>1 DEF NoEntry, Entry
  <1>7. Remove(s, K) = [s EXCEPT !.entries = rest, !.bytes = Monus(s.bytes, off)]
        BY DEF Remove
  <1>8. Retained(e) <= s.bytes /\ s.bytes <= MaxBytes /\ (~out => s.bytes = Retained(e))
        BY DEF Counted
  <1> DEFINE left == s.bytes - off
  <1> HIDE DEF off, rest
  <1>9. Monus(s.bytes, off) = left /\ left \in Nat /\ left <= s.bytes
        BY <1>1, <1>4, <1>8 DEF Monus
  <1>10. Remove(s, K) \in Records /\ Remove(s, K).entries = rest /\ Remove(s, K).bytes = left
         /\ Remove(s, K).clock = s.clock
         BY <1>1, <1>6, <1>7, <1>9 DEF Counted, Records
  <1>11. Retained(rest) <= left /\ left <= MaxBytes /\ (~out => left = Retained(rest))
         BY <1>1, <1>4, <1>5, <1>8, <1>9
  <1>12. IsFiniteSet(H \ K) /\ Cardinality(H \ K) <= MaxEntries
         <2>1. /\ IsFiniteSet(H \ K) /\ Cardinality(H \ K) <= Cardinality(H)
               /\ Cardinality(H) \in Nat /\ Cardinality(H \ K) \in Nat
               BY <1>3, FS_Subset, FS_CardinalityType
         <2>2. Cardinality(H) <= MaxEntries
               BY DEF Counted
         <2>3. QED
               BY <2>1, <2>2
  <1> HIDE DEF left
  <1>13. Counted(Remove(s, K), out)
         BY <1>2, <1>10, <1>11, <1>12 DEF Counted
  <1>14. QED
         BY <1>2, <1>10, <1>13 DEF left, off

(* A record that is written to: what it kept goes, what it keeps comes.      *)
LEMMA SetCounts ==
  ASSUME NEW e, e \in [Keys -> Entry], IsFiniteSet(Held(e)),
         NEW f, f \in [Keys -> Entry], NEW k, k \in Held(e),
         f[k].channel = e[k].channel, \A j \in Keys \ {k} : f[j] = e[j]
  PROVE  /\ Held(f) = Held(e)
         /\ Retained(f) = Retained(e) - e[k].bytes + f[k].bytes
         /\ Retained(f) \in Nat /\ Retained(e) \in Nat
         /\ e[k].bytes \in Nat /\ f[k].bytes \in Nat
         /\ e[k].bytes <= Retained(e)
  <1> DEFINE H == Held(e)  rest == H \ {k}
  <1>1. k \in Keys /\ IsFiniteSet(H) /\ IsFiniteSet(rest)
        BY FS_Subset DEF Held
  <1>2. Held(f) = H
        BY <1>1 DEF Held
  <1>3. \A j \in H : e[j].bytes \in Nat /\ f[j].bytes \in Nat
        BY DEF Held, Entry
  <1>4. k \in H /\ H \ {k} = rest /\ {k} \in SUBSET H
        OBVIOUS
  <1>5. \A j \in rest : e[j].bytes \in Nat /\ f[j].bytes = e[j].bytes
        BY <1>3 DEF Held
  <1> HIDE DEF H, rest
  <1>6. /\ BytesOf(e, H) = BytesOf(e, {k}) + BytesOf(e, rest)
        /\ BytesOf(e, H) \in Nat /\ BytesOf(e, rest) \in Nat
        BY <1>1, <1>3, <1>4, BytesOfParts
  <1>7. /\ BytesOf(f, H) = BytesOf(f, {k}) + BytesOf(f, rest)
        /\ BytesOf(f, H) \in Nat
        BY <1>1, <1>3, <1>4, BytesOfParts
  <1>8. /\ BytesOf(e, {k}) = e[k].bytes /\ BytesOf(f, {k}) = f[k].bytes
        /\ e[k].bytes \in Nat /\ f[k].bytes \in Nat
        BY <1>3, <1>4, BytesOfOne
  <1>9. BytesOf(f, rest) = BytesOf(e, rest)
        BY <1>1, <1>5, BytesAgree
  <1>10. Retained(e) = BytesOf(e, H) /\ Retained(f) = BytesOf(f, H)
         BY <1>2 DEF Retained, H
  <1>11. /\ Retained(f) = Retained(e) - e[k].bytes + f[k].bytes
         /\ e[k].bytes <= Retained(e)
         BY <1>6, <1>7, <1>8, <1>9, <1>10
  <1>12. QED
         BY <1>2, <1>6, <1>7, <1>8, <1>10, <1>11 DEF H

(* The counter follows what is written.                                      *)
LEMMA WrittenCounts ==
  ASSUME NEW s, NEW out, Counted(s, out), NEW n, n \in Records, NEW k, k \in Held(s.entries),
         n.entries[k].channel = s.entries[k].channel,
         \A j \in Keys \ {k} : n.entries[j] = s.entries[j],
         n.bytes <= MaxBytes,
         s.bytes - s.entries[k].bytes + n.entries[k].bytes <= n.bytes,
         ~out => n.bytes = s.bytes - s.entries[k].bytes + n.entries[k].bytes
  PROVE  Counted(n, out)
  <1>1. PICK e, f : e = s.entries /\ f = n.entries
        OBVIOUS
  <1>2. /\ e \in [Keys -> Entry] /\ f \in [Keys -> Entry] /\ IsFiniteSet(Held(e)) /\ k \in Held(e)
        /\ f[k].channel = e[k].channel /\ \A j \in Keys \ {k} : f[j] = e[j]
        BY <1>1 DEF Counted, Records
  <1>3. /\ Held(f) = Held(e)
        /\ Retained(f) = Retained(e) - e[k].bytes + f[k].bytes
        /\ Retained(f) \in Nat /\ Retained(e) \in Nat /\ e[k].bytes \in Nat /\ f[k].bytes \in Nat
        BY <1>2, SetCounts
  <1>4. s.bytes \in Nat /\ n.bytes \in Nat /\ Retained(e) <= s.bytes /\ (~out => s.bytes = Retained(e))
        BY <1>1 DEF Counted, Records
  <1>5. Retained(f) <= n.bytes /\ (~out => n.bytes = Retained(f))
        BY <1>1, <1>3, <1>4
  <1>6. IsFiniteSet(Held(f)) /\ Cardinality(Held(f)) <= MaxEntries
        BY <1>1, <1>3 DEF Counted
  <1>7. QED
        BY <1>1, <1>5, <1>6 DEF Counted

LEMMA CountsLater ==
  ASSUME NEW s, NEW out, Counted(s, out), NEW later, out => later
  PROVE  Counted(s, later)
  BY DEF Counted

LEMMA AccessedCounts ==
  ASSUME NEW s, NEW out, Counted(s, out)
  PROVE  Counted(Accessed(s), out)
  <1>1. /\ Accessed(s) \in Records /\ Accessed(s).entries = s.entries /\ Accessed(s).bytes = s.bytes
        BY DEF Counted, Records, Accessed
  <1>2. QED
        BY <1>1 DEF Counted

LEMMA SweptCounts ==
  ASSUME IInv, CountInv, Expire
  PROVE  Counted(Accessed(Cleanup), outlived')
  <1>1. Stale(state) \in SUBSET Held(state.entries)
        BY DEF Stale
  <1>2. Counted(Cleanup, outlived)
        BY <1>1, RemoveCounts DEF CountInv, Cleanup
  <1>3. outlived => outlived'
        BY DEF Expire
  <1> HIDE DEF Cleanup
  <1>4. QED
        BY <1>2, <1>3, CountsLater, AccessedCounts

LEMMA BeginKnownCounts ==
  ASSUME IInv, CountInv, NEW c \in Callers, NEW k \in Keys, NEW p \in Prints, BeginKnown(c, k, p)
  PROVE  CountInv'
  <1> DEFINE s == Accessed(Cleanup)
             r == [s.entries[k] EXCEPT !.access = s.clock]
  <1>1. Expire /\ now' = now /\ k \in Held(s.entries)
        /\ (state' = s \/ state' = [s EXCEPT !.entries[k].access = s.clock])
        BY DEF BeginKnown
  <1>2. Counted(s, outlived')
        BY <1>1, SweptCounts
  <1> HIDE DEF s
  <1>3. s \in Records /\ s.entries[k] \in Entry
        BY <1>2 DEF Counted, Records
  <1>4. r \in Entry /\ r.channel = s.entries[k].channel /\ r.bytes = s.entries[k].bytes
        BY <1>3 DEF Records, Entry
  <1> DEFINE n == [s EXCEPT !.entries = [s.entries EXCEPT ![k] = r]]
  <1>5. k \in Keys /\ k \in Held(s.entries)
        BY <1>1
  <1>6. /\ n \in Records /\ n.entries[k] = r /\ n.bytes = s.bytes
        /\ \A j \in Keys \ {k} : n.entries[j] = s.entries[j]
        <2> HIDE DEF r
        <2>1. QED
              BY <1>3, <1>4 DEF Records
  <1>7. state' = s \/ state' = n
        BY <1>1
  <1> HIDE DEF n, r
  <1>8. /\ s.bytes <= MaxBytes
        /\ s.bytes = s.bytes - s.entries[k].bytes + r.bytes
        BY <1>2, <1>3, <1>4 DEF Counted, Records, Entry
  <1>9. Counted(n, outlived')
        <2>1. PICK S, O : S = s /\ O = outlived'
              OBVIOUS
        <2>2. /\ Counted(S, O) /\ k \in Held(S.entries) /\ n.entries[k].channel = S.entries[k].channel
              /\ \A j \in Keys \ {k} : n.entries[j] = S.entries[j]
              /\ n.bytes <= MaxBytes
              /\ n.bytes = S.bytes - S.entries[k].bytes + n.entries[k].bytes
              BY <1>2, <1>4, <1>5, <1>6, <1>8, <2>1
        <2>3. S.bytes - S.entries[k].bytes + n.entries[k].bytes <= n.bytes
              BY <1>6, <2>2 DEF Records
        <2>4. Counted(n, O)
              BY <1>6, <2>2, <2>3, WrittenCounts
        <2>5. QED
              BY <2>1, <2>4
  <1>10. Counted(state', outlived')
         BY <1>2, <1>7, <1>9
  <1>11. QED
         BY <1>1, <1>10 DEF CountInv

(* make_capacity() leaves room for one more.                                 *)
LEMMA MadeRoomCounts ==
  ASSUME NEW s, NEW out, Counted(s, out), HasRoom(s) \/ Evictable(s) # {}
  PROVE  /\ Counted(MakeCapacity(s), out)
         /\ Cardinality(Held(MakeCapacity(s).entries)) < MaxEntries
         /\ Held(MakeCapacity(s).entries) \subseteq Held(s.entries)
  <1>1. CASE HasRoom(s)
        BY <1>1 DEF MakeCapacity, HasRoom
  <1>2. CASE ~HasRoom(s)
        <2> DEFINE o == Oldest(s, Evictable(s))
        <2>1. s.entries \in [Keys -> Entry] /\ Evictable(s) \in SUBSET Keys
              BY DEF Counted, Records, Evictable, Held
        <2>2. o \in Evictable(s)
              BY <1>2, <2>1, OldestIsOne
        <2>3. o \in Held(s.entries) /\ {o} \in SUBSET Held(s.entries)
              BY <2>2 DEF Evictable
        <2>4. MakeCapacity(s) = Remove(s, {o})
              BY <1>2 DEF MakeCapacity
        <2> HIDE DEF o
        <2>5. Counted(Remove(s, {o}), out) /\ Held(Remove(s, {o}).entries) = Held(s.entries) \ {o}
              BY <2>3, RemoveCounts
        <2>6. IsFiniteSet(Held(s.entries)) /\ Cardinality(Held(s.entries)) <= MaxEntries
              BY DEF Counted
        <2>7. /\ Cardinality(Held(s.entries) \ {o}) = Cardinality(Held(s.entries)) - 1
              /\ Cardinality(Held(s.entries)) \in Nat
              BY <2>3, <2>6, FS_RemoveElement, FS_CardinalityType
        <2>8. MaxEntries \in Nat
              OBVIOUS
        <2>9. Cardinality(Held(s.entries) \ {o}) < MaxEntries
              BY <2>6, <2>7, <2>8
        <2>10. QED
               BY <2>4, <2>5, <2>9
  <1>3. QED
        BY <1>1, <1>2

LEMMA BeginLeadCounts ==
  ASSUME IInv, CountInv, NEW c \in Callers, NEW k \in Keys, NEW p \in Prints, BeginLead(c, k, p)
  PROVE  CountInv'
  <1> DEFINE s == Accessed(Cleanup)
             room == MakeCapacity(s)
             r == [NoEntry EXCEPT !.channel = c, !.print = p, !.created = now, !.access = s.clock]
             e2 == [room.entries EXCEPT ![k] = r]
             H == Held(room.entries)
  <1>1. /\ Expire /\ now' = now /\ k \notin Held(s.entries)
        /\ HasRoom(s) \/ Evictable(s) # {}
        /\ state' = [room EXCEPT !.entries = e2]
        BY DEF BeginLead
  <1>2. Counted(s, outlived')
        BY <1>1, SweptCounts
  <1> HIDE DEF s
  <1>3. /\ Counted(room, outlived') /\ Cardinality(H) < MaxEntries /\ k \notin H
        BY <1>1, <1>2, MadeRoomCounts
  <1> HIDE DEF room
  <1>4. room \in Records /\ room.entries \in [Keys -> Entry] /\ IsFiniteSet(H)
        BY <1>3 DEF Counted, Records
  <1>5. r \in Entry /\ r.channel = c /\ r.bytes = 0
        <2>1. now \in Nat /\ s.clock \in Nat
              BY <1>2 DEF IInv, Counted, Records
        <2>2. QED
              BY <2>1 DEF NoEntry, Entry
  <1> HIDE DEF r
  <1>6. /\ e2 \in [Keys -> Entry] /\ e2[k] = r /\ \A j \in Keys \ {k} : e2[j] = room.entries[j]
        BY <1>4, <1>5
  <1> HIDE DEF e2
  <1>7. Held(e2) = H \cup {k}
        <2>1. c # NoCaller
              OBVIOUS
        <2>2. QED
              BY <1>5, <1>6, <2>1 DEF Held
  <1>8. IsFiniteSet(Held(e2)) /\ Cardinality(Held(e2)) <= MaxEntries
        <2>1. /\ IsFiniteSet(H \cup {k}) /\ Cardinality(H \cup {k}) = Cardinality(H) + 1
              /\ Cardinality(H) \in Nat
              BY <1>3, <1>4, FS_AddElement, FS_CardinalityType
        <2>2. MaxEntries \in Nat
              OBVIOUS
        <2>3. QED
              BY <1>3, <1>7, <2>1, <2>2
  <1>9. Retained(e2) = Retained(room.entries)
        <2>1. \A j \in Held(e2) : e2[j].bytes \in Nat
              BY <1>6 DEF Held, Entry
        <2>2. \A j \in H : room.entries[j].bytes \in Nat /\ e2[j].bytes = room.entries[j].bytes
              BY <1>3, <1>4, <1>6 DEF Held, Entry
        <2>3. {k} \in SUBSET Held(e2) /\ Held(e2) \ {k} = H
              BY <1>3, <1>7
        <2> HIDE DEF H
        <2>4. /\ BytesOf(e2, Held(e2)) = BytesOf(e2, {k}) + BytesOf(e2, H)
              /\ BytesOf(e2, H) \in Nat
              BY <1>8, <2>1, <2>3, BytesOfParts
        <2>5. BytesOf(e2, {k}) = 0
              BY <1>5, <1>6, BytesOfOne
        <2>6. BytesOf(e2, H) = BytesOf(room.entries, H)
              BY <1>4, <2>2, BytesAgree
        <2>7. BytesOf(e2, Held(e2)) = BytesOf(room.entries, H)
              BY <2>4, <2>5, <2>6
        <2>8. QED
              BY <2>7 DEF Retained, H
  <1>10. state' \in Records /\ state'.entries = e2 /\ state'.bytes = room.bytes
         BY <1>1, <1>4, <1>6 DEF Records
  <1>11. Counted(state', outlived')
         BY <1>3, <1>8, <1>9, <1>10 DEF Counted
  <1>12. QED
         BY <1>1, <1>11 DEF CountInv

LEMMA BeginFullCounts ==
  ASSUME IInv, CountInv, NEW c \in Callers, NEW k \in Keys, NEW p \in Prints, BeginFull(c, k, p)
  PROVE  CountInv'
  <1>1. Expire /\ now' = now /\ state' = Accessed(Cleanup)
        BY DEF BeginFull
  <1>2. Counted(state', outlived')
        BY <1>1, SweptCounts
  <1>3. QED
        BY <1>1, <1>2 DEF CountInv

(* A leader that has its record still finds it without a response.           *)
LEMMA LeaderKeepsNothing ==
  ASSUME IInv, NEW c \in Callers, caller[c].phase = "leading", Mine(c)
  PROVE  ~outlived => state.entries[caller[c].key].bytes = 0
  <1> DEFINE k == caller[c].key
  <1>1. k \in Held(state.entries)
        BY MyRecord
  <1>2. ~outlived => state.entries[k].channel = c /\ channel[c].kind = "pending"
        BY DEF IInv, Good, LeadersHold
  <1>3. channel[state.entries[k].channel].kind = "pending" => state.entries[k].bytes = 0
        BY <1>1 DEF IInv, Good, Settled
  <1>4. QED
        BY <1>2, <1>3

(* reserve_completed_bytes(): when there is room with all that may go gone,  *)
(* there is room when the least recently used ones are.                      *)
LEMMA VictimsFit ==
  ASSUME CountInv, NEW k, NEW weight \in Nat, Fits(k, weight, Replayable(k))
  PROVE  Fits(k, weight, Victims(k, weight))
  <1> DEFINE e == state.entries  R == Replayable(k)  V == Victims(k, weight)  rest == R \ V
             H == Held(e)
  <1>1. V \in SUBSET R /\ R \in SUBSET H
        BY DEF Victims, Replayable
  <1>2. e \in [Keys -> Entry] /\ IsFiniteSet(H) /\ state.bytes \in Nat
        BY DEF CountInv, Counted, Records
  <1>3. CASE rest = {}
        <2>1. R = V
              BY <1>1, <1>3
        <2>2. QED
              BY <2>1
  <1>4. CASE rest # {}
        <2>1. \A o \in R : e[o].access \in Nat /\ e[o].bytes \in Nat
              BY <1>1, <1>2 DEF Held, Entry
        <2> DEFINE T == {e[o].access : o \in rest}
        <2>2. T \in SUBSET Nat /\ T # {}
              BY <1>4, <2>1
        <2> HIDE DEF T
        <2>3. PICK x \in T : \A y \in T : x <= y
              BY <2>2, LeastExists
        <2>4. PICK j \in rest : e[j].access = x
              BY <2>3 DEF T
        <2>5. \A o \in rest : e[j].access <= e[o].access
              BY <2>3, <2>4 DEF T
        <2> DEFINE older == OlderThan(k, j)
        <2>6. older \in SUBSET V
              <3>1. SUFFICES ASSUME NEW o \in R, e[o].access < e[j].access, o \notin V PROVE FALSE
                    BY DEF OlderThan
              <3> HIDE DEF rest, R, V
              <3>2. o \in rest /\ j \in R
                    BY <3>1, <2>4 DEF rest
              <3>3. e[j].access <= e[o].access /\ e[j].access \in Nat /\ e[o].access \in Nat
                    BY <2>1, <2>5, <3>2
              <3>4. QED
                    BY <3>1, <3>3
        <2>7. Fits(k, weight, older)
              BY <2>4 DEF Victims
        <2>8. IsFiniteSet(V) /\ \A o \in V : e[o].bytes \in Nat
              BY <1>1, <1>2, <2>1, FS_Subset
        <2> HIDE DEF older, V, R, e
        <2>9. /\ BytesOf(e, V) = BytesOf(e, older) + BytesOf(e, V \ older)
              /\ BytesOf(e, V) \in Nat /\ BytesOf(e, older) \in Nat /\ BytesOf(e, V \ older) \in Nat
              BY <2>6, <2>8, BytesOfParts
        <2>10. MaxBytes \in Nat
               OBVIOUS
        <2>11. state.bytes - BytesOf(e, older) + weight <= MaxBytes
               BY <2>7 DEF Fits, e
        <2>12. state.bytes - BytesOf(e, V) + weight <= MaxBytes
               BY <1>2, <2>9, <2>10, <2>11
        <2>13. QED
               BY <2>12 DEF Fits, V, e
  <1>5. QED
        BY <1>3, <1>4

LEMMA CompleteCounts ==
  ASSUME IInv, CountInv, NEW c \in Callers, NEW weight \in Weights, Complete(c, weight)
  PROVE  CountInv'
  <1> DEFINE k == caller[c].key
             V == Victims(k, weight)
             s == Remove(state, V)
             r == [s.entries[k] EXCEPT !.expires = now + CompletedTtl, !.uncertain = FALSE,
                                       !.bytes = weight, !.access = s.clock + 1]
             n == [s EXCEPT !.clock = @ + 1, !.bytes = @ + weight, !.entries[k] = r]
  <1>1. /\ caller[c].phase = "leading" /\ Mine(c) /\ Fits(k, weight, Replayable(k))
        /\ outlived' = outlived /\ now' = now /\ state' = n
        BY DEF Complete, In, Reserved
  <1>2. k \in Keys /\ k \in Held(state.entries) /\ weight \in Nat /\ now + CompletedTtl \in Nat
        BY <1>1, MyRecord, LifetimesEnd
  <1>3. V \in SUBSET Held(state.entries) /\ k \notin V
        BY ReplayableIsSettled DEF Victims
  <1>4. state.bytes - BytesOf(state.entries, V) + weight <= MaxBytes
        BY <1>1, <1>2, VictimsFit DEF Fits
  <1> HIDE DEF V
  <1>5. /\ Counted(s, outlived) /\ s.bytes + weight <= MaxBytes
        /\ Held(s.entries) = Held(state.entries) \ V
        BY <1>3, <1>4, RemoveCounts DEF CountInv
  <1>6. s.entries[k] = state.entries[k]
        BY <1>2, <1>3 DEF Remove, CountInv, Counted, Records
  <1>7. ~outlived => s.entries[k].bytes = 0
        BY <1>1, <1>6, LeaderKeepsNothing
  <1> HIDE DEF s
  <1>8. s \in Records /\ s.entries[k] \in Entry /\ s.entries[k].bytes \in Nat
        BY <1>2, <1>5 DEF Counted, Records, Entry
  <1>9. r \in Entry /\ r.channel = s.entries[k].channel /\ r.bytes = weight
        <2>1. s.clock + 1 \in Nat
              BY <1>8 DEF Records
        <2>2. QED
              BY <1>2, <1>8, <2>1 DEF Entry
  <1> HIDE DEF r
  <1>10. /\ n \in Records /\ n.entries[k] = r /\ n.bytes = s.bytes + weight
         /\ \A j \in Keys \ {k} : n.entries[j] = s.entries[j]
         <2>1. s.clock + 1 \in Nat /\ s.bytes + weight \in Nat /\ s.entries \in [Keys -> Entry]
               BY <1>2, <1>8 DEF Records
         <2> DEFINE f == [s.entries EXCEPT ![k] = r]
         <2>2. f \in [Keys -> Entry] /\ f[k] = r /\ \A j \in Keys \ {k} : f[j] = s.entries[j]
               BY <1>2, <1>9, <2>1
         <2>3. n = [s EXCEPT !.clock = s.clock + 1, !.bytes = s.bytes + weight, !.entries = f]
               BY <1>8 DEF Records
         <2> HIDE DEF f, k, n
         <2>4. n \in Records /\ n.entries = f /\ n.bytes = s.bytes + weight
               BY <1>8, <2>1, <2>2, <2>3 DEF Records
         <2>5. QED
               BY <2>2, <2>4
  <1> HIDE DEF n, k
  <1>11. s.bytes - s.entries[k].bytes + n.entries[k].bytes <= n.bytes
         BY <1>2, <1>8, <1>9, <1>10 DEF Records
  <1>12. ~outlived => n.bytes = s.bytes - s.entries[k].bytes + n.entries[k].bytes
         BY <1>2, <1>7, <1>8, <1>9, <1>10 DEF Records
  <1>13. k \in Held(s.entries) /\ n.entries[k].channel = s.entries[k].channel /\ n.bytes <= MaxBytes
         BY <1>2, <1>3, <1>5, <1>9, <1>10
  <1>14. Counted(n, outlived)
         BY <1>5, <1>10, <1>11, <1>12, <1>13, WrittenCounts
  <1>15. QED
         BY <1>1, <1>14 DEF CountInv

LEMMA OversizedCounts ==
  ASSUME IInv, CountInv, NEW c \in Callers, NEW weight \in Weights, CompleteOversized(c, weight)
  PROVE  CountInv'
  <1> DEFINE k == caller[c].key
             R == Replayable(k)
             s == IF weight > MaxBytes THEN state ELSE Remove(state, R)
             r == [s.entries[k] EXCEPT !.expires = now + CompletedTtl, !.uncertain = TRUE, !.bytes = 0]
             n == [s EXCEPT !.entries[k] = r]
  <1>1. /\ caller[c].phase = "leading" /\ Mine(c)
        /\ outlived' = outlived /\ now' = now /\ state' = n
        BY DEF CompleteOversized, In
  <1>2. k \in Keys /\ k \in Held(state.entries) /\ now + CompletedTtl \in Nat
        BY <1>1, MyRecord, LifetimesEnd
  <1>3. R \in SUBSET Held(state.entries) /\ k \notin R
        BY ReplayableIsSettled
  <1>4. /\ Counted(Remove(state, R), outlived) /\ Counted(state, outlived)
        /\ Held(Remove(state, R).entries) = Held(state.entries) \ R
        BY <1>3, RemoveCounts DEF CountInv
  <1>5. Remove(state, R).entries[k] = state.entries[k]
        BY <1>2, <1>3 DEF Remove, CountInv, Counted, Records
  <1> HIDE DEF R
  <1>6. Counted(s, outlived) /\ s.entries[k] = state.entries[k] /\ k \in Held(s.entries)
        BY <1>2, <1>3, <1>4, <1>5
  <1>7. ~outlived => s.entries[k].bytes = 0
        BY <1>1, <1>6, LeaderKeepsNothing
  <1> HIDE DEF s
  <1>8. s \in Records /\ s.entries[k] \in Entry /\ s.entries[k].bytes \in Nat
        BY <1>2, <1>6 DEF Counted, Records, Entry
  <1>9. r \in Entry /\ r.channel = s.entries[k].channel /\ r.bytes = 0
        BY <1>2, <1>8 DEF Entry
  <1> HIDE DEF r
  <1>10. /\ n \in Records /\ n.entries[k] = r /\ n.bytes = s.bytes
         /\ \A j \in Keys \ {k} : n.entries[j] = s.entries[j]
         BY <1>2, <1>8, <1>9 DEF Records
  <1> HIDE DEF n, k
  <1>11. s.bytes - s.entries[k].bytes + n.entries[k].bytes <= n.bytes
         BY <1>8, <1>9, <1>10 DEF Records
  <1>12. ~outlived => n.bytes = s.bytes - s.entries[k].bytes + n.entries[k].bytes
         BY <1>7, <1>8, <1>9, <1>10 DEF Records
  <1>13. n.entries[k].channel = s.entries[k].channel /\ n.bytes <= MaxBytes
         BY <1>6, <1>9, <1>10 DEF Counted
  <1>14. Counted(n, outlived)
         BY <1>6, <1>10, <1>11, <1>12, <1>13, WrittenCounts
  <1>15. QED
         BY <1>1, <1>14 DEF CountInv

LEMMA FailKnownCounts ==
  ASSUME IInv, CountInv, NEW c \in Callers, FailKnown(c)
  PROVE  CountInv'
  <1> DEFINE gone == {caller[c].key}
  <1>1. /\ caller[c].phase = "leading" /\ Mine(c)
        /\ outlived' = outlived /\ now' = now /\ state' = Remove(state, gone)
        BY DEF FailKnown, In
  <1>2. gone \in SUBSET Held(state.entries)
        BY <1>1, MyRecord
  <1> HIDE DEF gone
  <1>3. Counted(Remove(state, gone), outlived)
        BY <1>2, RemoveCounts DEF CountInv
  <1>4. QED
        BY <1>1, <1>3 DEF CountInv

LEMMA FailUnknownCounts ==
  ASSUME IInv, CountInv, NEW c \in Callers, FailUnknown(c)
  PROVE  CountInv'
  <1> DEFINE k == caller[c].key
             r == [state.entries[k] EXCEPT !.expires = now + UnknownTtl, !.uncertain = TRUE]
             n == [state EXCEPT !.entries[k] = r]
  <1>1. /\ caller[c].phase = "leading" /\ Mine(c)
        /\ outlived' = outlived /\ now' = now /\ state' = n
        BY DEF FailUnknown, In
  <1>2. k \in Keys /\ k \in Held(state.entries) /\ now + UnknownTtl \in Nat
        BY <1>1, MyRecord, LifetimesEnd
  <1>3. Counted(state, outlived)
        BY DEF CountInv
  <1>4. state \in Records /\ state.entries[k] \in Entry /\ state.entries[k].bytes \in Nat
        BY <1>2, <1>3 DEF Counted, Records, Entry
  <1>5. r \in Entry /\ r.channel = state.entries[k].channel /\ r.bytes = state.entries[k].bytes
        BY <1>2, <1>4 DEF Entry
  <1> HIDE DEF r
  <1>6. /\ n \in Records /\ n.entries[k] = r /\ n.bytes = state.bytes
        /\ \A j \in Keys \ {k} : n.entries[j] = state.entries[j]
        BY <1>2, <1>4, <1>5 DEF Records
  <1> HIDE DEF n, k
  <1>7. n.bytes = state.bytes - state.entries[k].bytes + n.entries[k].bytes
        BY <1>4, <1>5, <1>6 DEF Records
  <1>8. state.bytes - state.entries[k].bytes + n.entries[k].bytes <= n.bytes
        BY <1>6, <1>7 DEF Records
  <1>9. n.entries[k].channel = state.entries[k].channel /\ n.bytes <= MaxBytes
        BY <1>3, <1>5, <1>6 DEF Counted
  <1>10. Counted(n, outlived)
         BY <1>2, <1>3, <1>6, <1>7, <1>8, <1>9, WrittenCounts
  <1>11. QED
         BY <1>1, <1>10 DEF CountInv

LEMMA InitCounts == Init => CountInv
  <1>1. SUFFICES ASSUME Init PROVE CountInv
        OBVIOUS
  <1>2. /\ state = [entries |-> [k \in Keys |-> NoEntry], bytes |-> 0, clock |-> 0]
        /\ outlived = FALSE /\ now = 0
        BY <1>1 DEF Init
  <1>3. NoEntry \in Entry /\ NoEntry.channel = NoCaller
        BY DEF NoEntry, Entry
  <1>4. state \in Records /\ Held(state.entries) = {} /\ state.bytes = 0
        BY <1>2, <1>3 DEF Records, Held
  <1>5. IsFiniteSet({}) /\ Cardinality({}) = 0
        BY FS_EmptySet
  <1>6. Retained(state.entries) = 0
        <2>1. PICK g : Sums(g, state.entries, {})
              BY <1>5, SumsExist
        <2>2. BytesOf(state.entries, {}) = 0
              BY <1>5, <2>1, BytesAreSums DEF Sums
        <2>3. QED
              BY <1>4, <2>2 DEF Retained
  <1>7. {0, now} \subseteq 0..MaxTime /\ 0 <= MaxBytes /\ 0 <= MaxEntries
        BY <1>2
  <1>8. QED
        BY <1>4, <1>5, <1>6, <1>7 DEF CountInv, Counted

LEMMA StepCounts ==
  ASSUME IInv, CountInv, [Next]_vars
  PROVE  CountInv'
  <1>1. CASE UNCHANGED <<state, outlived, now>>
        BY <1>1 DEF CountInv
  <1>2. CASE \E c \in Callers, k \in Keys, p \in Prints :
               BeginKnown(c, k, p) \/ BeginLead(c, k, p) \/ BeginFull(c, k, p)
        BY <1>2, BeginKnownCounts, BeginLeadCounts, BeginFullCounts
  <1>3. CASE \E c \in Callers, weight \in Weights : Complete(c, weight) \/ CompleteOversized(c, weight)
        BY <1>3, CompleteCounts, OversizedCounts
  <1>4. CASE \E c \in Callers : FailKnown(c) \/ FailUnknown(c)
        BY <1>4, FailKnownCounts, FailUnknownCounts
  <1>5. CASE \E c \in Callers : EndAlone(c) \/ WaitAnswered(c) \/ WaitTimeout(c) \/ Dropped(c)
        BY <1>1, <1>5 DEF EndAlone, WaitAnswered, WaitTimeout, Dropped
  <1>6. CASE Tick
        <2>1. /\ now \in 0..MaxTime /\ now < MaxTime /\ now' = now + 1
              /\ state' = state /\ outlived' = outlived
              BY <1>6 DEF Tick, CountInv
        <2>2. now' \in 0..MaxTime
              BY <2>1
        <2>3. QED
              BY <2>1, <2>2 DEF CountInv
  <1>7. CASE UNCHANGED vars
        BY <1>1, <1>7 DEF vars
  <1>8. QED
        BY <1>2, <1>3, <1>4, <1>5, <1>6, <1>7 DEF Next

LEMMA CountInvariance == Spec => []CountInv
  BY InitCounts, StepCounts, Invariance, PTL DEF Spec

(* remove(), reserve_completed_bytes(), make_capacity(), complete(), fail(): *)
(* completed_bytes is what the records retain, within both bounds, whatever  *)
(* is replaced, evicted or expired; and a waiter has its sender.             *)
THEOREM RecordsAddUp == Spec => []Coherent
  <1>1. IInv /\ CountInv => TypeOK
        BY DEF IInv, Good, Typed, Settled, CountInv, Counted, Records, TypeOK
  <1>2. CountInv => BytesCovered
        BY DEF CountInv, Counted, Retained, BytesCovered
  <1>3. IInv /\ CountInv /\ NoOrphanWaiter => Coherent
        BY <1>1, <1>2 DEF Coherent
  <1>4. QED
        BY <1>3, Invariance, CountInvariance, NobodyWaitsInVain, PTL
=============================================================================
