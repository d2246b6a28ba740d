---------------------------- MODULE ProviderProofs ---------------------------
(***************************************************************************)
(* Proofs about the two places where one request becomes several calls:    *)
(* Fanout, for any batches, requests, provider limits and provider         *)
(* answers; and the Responses provider under the event stream, for any     *)
(* outputs, attempts, previews, remote policies and sizes of the channels. *)
(***************************************************************************)
EXTENDS Fanout, EventStream, FiniteSetTheorems, SequenceTheorems, WellFoundedInduction, TLAPS

Types ==
  /\ batch \in [Batches -> Batch]
  /\ chunk = [b \in Batches |-> chunk[b]]
  /\ \A b \in Batches : chunk[b] \in [Offsets(N(b)) -> Chunk]

(***************************************************************************)
(* The inductive invariant.  What a known failure says of the chunks is    *)
(* true when it is reported because no other chunk is active, and stays    *)
(* true because none can become so; a chunk is lost only by a batch that   *)
(* has ended, so a batch that stops has none among its idle chunks.        *)
(***************************************************************************)
NoneLost(b) ==
  batch[b].phase \in {"new", "open", "draining"} =>
    \A o \in Chunks(b) : chunk[b][o].state # "lost"

Honest(b) ==
  StoppedAsKnown(b) =>
    /\ Active(b) = {}
    /\ \A o \in Chunks(b) : Untried(chunk[b][o]) \/ Refused(chunk[b][o])
    /\ \A o, p \in Chunks(b) : Refused(chunk[b][o]) /\ Refused(chunk[b][p]) => o = p

(***************************************************************************)
(* Where outputs end.  Chunks of one conversation start in their order:    *)
(* while one is under way every earlier one has ended.  An error came with *)
(* no image, and a chunk that was denied has one, so that a response made  *)
(* of what succeeded has every output; when it is made nothing is under    *)
(* way, so that nothing changes after it.                                  *)
(***************************************************************************)
Ended    == {"collected", "denied"}
UnderWay == {"waiting", "running", "answered", "lost"}

InOrder(b) ==
  ~batch[b].request.isolated =>
    \A o \in In(b, UnderWay) :
      \A p \in Chunks(b) : p < o => chunk[b][p].state \in Ended

Empty(a) == a.error # NoError => a.images = {}

Accounted(b) ==
  /\ \A o \in Chunks(b) : Empty(chunk[b][o].answer)
  /\ batch[b].phase \in {"new", "open", "draining"} =>
       \A o \in In(b, {"denied"}) : chunk[b][o].answer.error # NoError
  /\ batch[b].phase = "draining" => batch[b].result.error # NoError

Answered(b) == batch[b].phase = "done" /\ batch[b].result.error = NoError /\ ~Direct(b)

(* The images that provider calls made for b, under the model of the response. *)
MadeOf(b, chunks, model) ==
  {x \in 0..(N(b) - 1) :
     LET c == chunks[x - (x % NativeMax)]
     IN  /\ c.state = "collected"
         /\ (x % NativeMax) \in c.answer.images
         /\ c.answer.model = model}
MadeFor(b) == MadeOf(b, chunk[b], batch[b].result.model)

Exact(b) ==
  Answered(b) =>
    /\ \A o \in Chunks(b) : chunk[b][o].state \in Ended
    /\ batch[b].result.images = MadeFor(b)
    /\ batch[b].result.failures = (0..(N(b) - 1)) \ MadeFor(b)

Placed(b) == InOrder(b) /\ Accounted(b) /\ Exact(b)

IInv ==
  /\ Types
  /\ IsFiniteSet(Holding) /\ Cardinality(Holding) <= MaxParallel
  /\ \A b \in Batches : NoneLost(b) /\ Honest(b) /\ Placed(b)

(* The least of a set of offsets is one of them.                             *)
LEMMA MinIsOne ==
  ASSUME NEW S \in SUBSET Nat, S # {}
  PROVE  Min(S) \in S /\ \A x \in S : Min(S) <= x
  <1> DEFINE R == {p \in Nat \X Nat : p[1] < p[2]}
  <1>1. R = OpToRel(<, Nat)
        BY DEF OpToRel
  <1>2. IsWellFoundedOn(R, Nat)
        BY <1>1, NatLessThanWellFounded
  <1>3. PICK m \in S : \A x \in S : ~(<<x, m>> \in R)
        BY <1>2, WFMin
  <1>4. \A x, y \in S : <<x, y>> \in R <=> x < y
        OBVIOUS
  <1> HIDE DEF R
  <1>5. \A x \in S : ~(x < m)
        BY <1>3, <1>4
  <1>6. \A x \in S : x \in Int /\ m \in Int
        OBVIOUS
  <1>7. \A x \in S : m <= x
        BY <1>5, <1>6
  <1>8. QED
        BY <1>7 DEF Min

(* An output is known by its chunk and its index there.                      *)
LEMMA IndexOf ==
  ASSUME NEW m \in Nat \ {0}, NEW o \in Nat, o % m = 0, NEW i \in 0..(m - 1)
  PROVE  (o + i) % m = i
  <1> DEFINE p == o \div m
             q == (o + i) \div m
             r == (o + i) % m
  <1>1. p \in Int /\ q \in Int /\ r \in 0..(m - 1) /\ o = m * p /\ o + i = m * q + r
        OBVIOUS
  <1> HIDE DEF p, q, r
  <1>2. m * (q - p) = i - r
        BY <1>1
  <1>3. q - p >= 1 => m * (q - p) >= m
        BY <1>1
  <1>4. q - p <= -1 => m * (q - p) <= -m
        BY <1>1
  <1>5. q - p = 0
        BY <1>1, <1>2, <1>3, <1>4
  <1>6. r = i
        BY <1>1, <1>2, <1>5
  <1>7. QED
        BY <1>6 DEF r

LEMMA ChunkOf ==
  ASSUME NEW m \in Nat \ {0}, NEW x \in Nat
  PROVE  /\ x % m \in 0..(m - 1)
         /\ x - (x % m) \in 0..x
         /\ (x - (x % m)) % m = 0
  <1> DEFINE q == x \div m
             r == x % m
  <1>1. q \in Int /\ r \in 0..(m - 1) /\ x = m * q + r
        OBVIOUS
  <1> HIDE DEF q, r
  <1>2. x - r = m * q
        BY <1>1
  <1>3. q <= -1 => m * q <= -m
        BY <1>1
  <1>4. q >= 0
        BY <1>1, <1>3
  <1>5. m * q >= 0
        BY <1>1, <1>4
  <1>6. (m * q) % m = 0
        BY <1>1, <1>4
  <1>7. QED
        BY <1>1, <1>2, <1>5, <1>6 DEF r

USE FanoutAssumption DEF Phase, ChunkState

-----------------------------------------------------------------------------
(* An error-only answer is an answer.                                        *)
LEMMA FailedType ==
  ASSUME NEW e \in Error \cup {NoError}
  PROVE  Failed(e) \in Answer
  BY DEF Failed, Answer, NoModel

LEMMA NoErrorIsNone == NoError \notin Error
  BY DEF NoError, Error, ErrorCode

(* What a chunk is ready with: an answer, of a chunk that is still active.    *)
LEMMA ReadyType ==
  ASSUME Types, NEW b \in Batches, NEW o \in Chunks(b), NEW a \in Ready(b, o)
  PROVE  /\ a \in Answer
         /\ chunk[b][o].state \in {"answered", "waiting"}
  <1>1. CASE chunk[b][o].state = "answered" /\ a = chunk[b][o].answer
        BY <1>1 DEF Types, Chunk, Chunks
  <1>2. CASE /\ chunk[b][o].state = "waiting"
             /\ \E code \in {"cancelled", "timeout"} : a = Failed(Known(code))
        <2>1. \A code \in {"cancelled", "timeout"} : Known(code) \in Error
              BY DEF Known, Error, ErrorCode
        <2>2. QED
              BY <1>2, <2>1, FailedType
  <1>3. QED
        BY <1>1, <1>2 DEF Ready

(* The chunks of a batch keep their type when one settles, when the next is  *)
(* pushed, and when all are dropped.                                         *)
LEMMA SettledType ==
  ASSUME Types, NEW b \in Batches, NEW o \in Chunks(b), NEW a \in Answer
  PROVE  Settled(b, o, a) \in [Offsets(N(b)) -> Chunk]
  BY DEF Types, Settled, Chunk, Chunks

LEMMA PushNextType ==
  ASSUME NEW S, NEW chunks \in [S -> Chunk]
  PROVE  PushNext(chunks) \in [S -> Chunk]
  BY DEF PushNext, Chunk

LEMMA AbandonedType ==
  ASSUME Types, NEW b \in Batches
  PROVE  Abandoned(b) \in [Offsets(N(b)) -> Chunk]
  BY DEF Types, Abandoned, Chunk, Chunks

LEMMA FirstChunksType ==
  ASSUME NEW r \in Request
  PROVE  FirstChunks(r) \in [Offsets(r.n) -> Chunk]
  <1>1. Pending \in Chunk
        BY FailedType DEF Pending, Chunk
  <1>2. QED
        BY <1>1 DEF FirstChunks, Chunk

-----------------------------------------------------------------------------
(* The response aggregate() makes is one.                                    *)
LEMMA MergedType ==
  ASSUME Types, NEW b \in Batches, NEW chunks \in [Offsets(N(b)) -> Chunk],
         NEW good \in SUBSET Offsets(N(b)), good # {}
  PROVE  Merged(b, chunks, good) \in Answer
  <1> DEFINE m == Merged(b, chunks, good)
  <1>1. N(b) \in Nat /\ \A o \in Offsets(N(b)) : o \in Nat /\ CountOf(b, o) \in Int
        BY DEF Types, N, Batch, Request, Offsets, CountOf
  <1>2. \A o \in Offsets(N(b)) : chunks[o].answer \in Answer
        BY DEF Chunk
  <1>3. \A o \in Offsets(N(b)) : Shift(chunks[o].answer.images, o) \subseteq Nat
                              /\ Shift(chunks[o].answer.failures, o) \subseteq Nat
        BY <1>1, <1>2 DEF Shift, Answer
  <1>4. \A o \in Offsets(N(b)) : o..(o + CountOf(b, o) - 1) \subseteq Nat
        BY <1>1
  <1>5. m.images \subseteq Nat
        BY <1>3 DEF Merged
  <1>6. m.failures \subseteq Nat
        BY <1>3, <1>4 DEF Merged
  <1>7. m.model \in Models \cup {NoModel}
        <2>1. (CHOOSE o \in good : TRUE) \in Offsets(N(b))
              OBVIOUS
        <2>2. QED
              BY <1>2, <2>1 DEF Merged, Answer
  <1>8. m = [error |-> NoError, images |-> m.images, failures |-> m.failures,
             model |-> m.model]
        BY DEF Merged
  <1>9. QED
        BY <1>5, <1>6, <1>7, <1>8 DEF Answer

LEMMA AggregateType ==
  ASSUME Types, NEW b \in Batches, NEW chunks \in [Offsets(N(b)) -> Chunk]
  PROVE  Aggregate(b, chunks) \in Answer
  <1> DEFINE good == {o \in DOMAIN chunks : chunks[o].answer.error = NoError}
  <1>1. CASE good = {}
        <2>1. 0 \in Offsets(N(b))
              BY DEF Types, Offsets, N, Batch, Request
        <2>2. chunks[0].answer.error \in Error \cup {NoError}
              BY <2>1 DEF Chunk, Answer
        <2>3. QED
              BY <1>1, <2>2, FailedType DEF Aggregate
  <1>2. CASE good # {}
        <2>1. Merged(b, chunks, good) \in Answer
              BY <1>2, MergedType
        <2>2. Failed(Known("protocol")) \in Answer
              BY FailedType DEF Known, Error, ErrorCode
        <2>3. QED
              BY <1>2, <2>1, <2>2 DEF Aggregate
  <1>3. QED
        BY <1>1, <1>2

-----------------------------------------------------------------------------
(* The state of every batch and chunk keeps its type.                        *)
LEMMA TypeInit == Init => Types
  <1> SUFFICES ASSUME Init PROVE Types
      OBVIOUS
  <1>1. Failed(NoError) \in Answer
        BY FailedType
  <1>2. \A b \in Batches : batch[b].request \in Request
        BY DEF Init
  <1>3. batch \in [Batches -> Batch]
    <2>1. \A r \in Request : NewBatch(r) \in Batch
          BY <1>1 DEF NewBatch, Batch
    <2>2. UNION {RequestsOf[b] : b \in Batches} \subseteq Request
          OBVIOUS
    <2>3. QED
          BY <2>1, <2>2 DEF Init
  <1>4. \A b \in Batches : chunk[b] \in [Offsets(N(b)) -> Chunk]
        BY <1>1 DEF Init, Pending, Chunk
  <1>5. QED
        BY <1>3, <1>4 DEF Types, Init

(* What every step does: it concerns one batch, whose request it leaves alone. *)
Moves(b) ==
  /\ batch' = [batch EXCEPT ![b] = batch'[b]]
  /\ batch'[b] \in Batch /\ batch'[b].request = batch[b].request
  /\ chunk' = [chunk EXCEPT ![b] = chunk'[b]]
  /\ chunk'[b] \in [Offsets(N(b)) -> Chunk]

LEMMA MovesTyped ==
  ASSUME Types, NEW b \in Batches, Moves(b)
  PROVE  Types' /\ \A c \in Batches : batch'[c].request = batch[c].request
  BY DEF Types, Moves, N, Batch

LEMMA BatchSteps ==
  ASSUME Types, NEW b \in Batches,
         Start(b) \/ Refuse(b) \/ Cancel(b) \/ Expire(b) \/ GraceOver(b) \/ Drop(b)
  PROVE  Moves(b)
  <1> USE DEF Moves, Types, Chunks
  <1>1. CASE Start(b)
        BY <1>1, FirstChunksType DEF Start, N, Batch
  <1>2. CASE Refuse(b)
    <2>1. Failed(Known("unsupported_capability")) \in Answer
          BY FailedType DEF Known, Error, ErrorCode
    <2>2. QED
          BY <1>2, <2>1 DEF Refuse, Batch
  <1>3. CASE Cancel(b)
        BY <1>3 DEF Cancel, Batch
  <1>4. CASE Expire(b)
        BY <1>4 DEF Expire, Batch
  <1>5. CASE GraceOver(b)
        BY <1>5, AbandonedType DEF GraceOver, Batch
  <1>6. CASE Drop(b)
        BY <1>6, AbandonedType DEF Drop, Batch
  <1>7. QED
        BY <1>1, <1>2, <1>3, <1>4, <1>5, <1>6

LEMMA ChunkSteps ==
  ASSUME Types, NEW b \in Batches, NEW o \in Chunks(b),
         Acquire(b, o) \/ ProviderAnswers(b, o) \/ Poll(b, o)
  PROVE  Moves(b)
  <1> USE DEF Moves, Types, Chunks
  <1>1. CASE Acquire(b, o)
        BY <1>1 DEF Acquire, Chunk
  <1>2. CASE ProviderAnswers(b, o)
    <2>1. \A e \in ProviderErrors : Failed(e) \in Answer
          BY FailedType
    <2>2. PICK a \in Answer :
            chunk' = [chunk EXCEPT ![b][o] = [state |-> "answered", answer |-> a]]
          BY <1>2, <2>1 DEF ProviderAnswers
    <2>3. chunk'[b] = [chunk[b] EXCEPT ![o] = [state |-> "answered", answer |-> a]]
          BY <2>2 DEF Chunk
    <2>4. QED
          BY <1>2, <2>2, <2>3 DEF ProviderAnswers, Chunk
  <1>3. CASE ReturnDirect(b, o)
    <2>1. PICK a \in Ready(b, o) :
            /\ batch' = [batch EXCEPT ![b].phase = "done", ![b].result = a]
            /\ chunk' = [chunk EXCEPT ![b] = Settled(b, o, a)]
          BY <1>3 DEF ReturnDirect
    <2>2. a \in Answer
          BY ReadyType
    <2>3. Settled(b, o, a) \in [Offsets(N(b)) -> Chunk]
          BY <2>2, SettledType
    <2>4. [batch[b] EXCEPT !.phase = "done", !.result = a] \in Batch
      <3>1. PICK now \in Batch : now = batch[b]
            OBVIOUS
      <3>2. [now EXCEPT !.phase = "done", !.result = a] \in Batch
            BY ONLY <2>2, now \in Batch DEF Batch, Phase
      <3>3. QED
            BY <3>1, <3>2
    <2>5. batch' = [batch EXCEPT ![b] = [batch[b] EXCEPT !.phase = "done", !.result = a]]
          BY <2>1 DEF Batch
    <2>6. QED
          BY <2>1, <2>2, <2>3, <2>4, <2>5 DEF Batch
  <1>4. CASE Stop(b, o)
    <2>1. PICK a \in Ready(b, o) :
            /\ a.error # NoError
            /\ batch' = [batch EXCEPT
                 ![b].phase = "draining",
                 ![b].result = Failed([a.error EXCEPT !.unknown = @ \/ SiblingsMayHaveRun(b, o)])]
            /\ chunk' = [chunk EXCEPT ![b] = Settled(b, o, a)]
          BY <1>4 DEF Stop
    <2>2. a.error \in Error
          BY <2>1, ReadyType DEF Answer
    <2>3. SiblingsMayHaveRun(b, o) \in BOOLEAN
          BY DEF SiblingsMayHaveRun
    <2>4. Failed([a.error EXCEPT !.unknown = @ \/ SiblingsMayHaveRun(b, o)]) \in Answer
          BY <2>2, <2>3, FailedType DEF Error
    <2>5. Settled(b, o, a) \in [Offsets(N(b)) -> Chunk]
          BY ReadyType, SettledType
    <2> DEFINE failed == Failed([a.error EXCEPT !.unknown = @ \/ SiblingsMayHaveRun(b, o)])
               next == [batch[b] EXCEPT !.phase = "draining", !.result = failed]
    <2>6. batch' = [batch EXCEPT ![b] = next]
          BY <2>1
    <2>7. next \in Batch /\ next.request = batch[b].request
          <3>1. failed \in Answer /\ batch[b] \in Batch
                BY <2>4
          <3> HIDE DEF failed
          <3>2. QED
                BY <3>1 DEF Batch
    <2> HIDE DEF next
    <2>8. QED
          BY <2>1, <2>5, <2>6, <2>7
  <1>5. CASE Drain(b, o)
        BY <1>5, ReadyType, SettledType DEF Drain
  <1>6. CASE Collect(b, o)
    <2>1. PICK a \in Ready(b, o) :
            LET chunks == PushNext(Settled(b, o, a)) IN
            /\ chunk' = [chunk EXCEPT ![b] = chunks]
            /\ \/ UNCHANGED batch
               \/ batch' = [batch EXCEPT ![b].phase = "done", ![b].result = Aggregate(b, chunks)]
          BY <1>6 DEF Collect
    <2>2. PushNext(Settled(b, o, a)) \in [Offsets(N(b)) -> Chunk]
          BY ReadyType, SettledType, PushNextType
    <2>3. Aggregate(b, PushNext(Settled(b, o, a))) \in Answer
          BY <2>2, AggregateType
    <2>4. QED
          BY <2>1, <2>2, <2>3 DEF Batch
  <1>7. QED
        BY <1>1, <1>2, <1>3, <1>4, <1>5, <1>6 DEF Poll

LEMMA TypeNext ==
  ASSUME Types, [Next]_vars
  PROVE  Types'
  <1>1. ASSUME NEW b \in Batches, Moves(b)
        PROVE  Types'
        BY <1>1, MovesTyped
  <1>2. CASE Next
        BY <1>1, <1>2, BatchSteps, ChunkSteps DEF Next
  <1>3. CASE UNCHANGED vars
        BY <1>3 DEF vars, Types, N
  <1>4. QED
        BY <1>2, <1>3

-----------------------------------------------------------------------------
(* The chunks a step touches.                                                *)
LEMMA SettledStates ==
  ASSUME Types, NEW b \in Batches, NEW o \in Chunks(b), NEW a \in Ready(b, o)
  PROVE  /\ DOMAIN Settled(b, o, a) = Chunks(b)
         /\ Settled(b, o, a)[o].state \in {"collected", "denied"}
         /\ Settled(b, o, a)[o].answer = a
         /\ \A p \in Chunks(b) \ {o} : Settled(b, o, a)[p] = chunk[b][p]
  BY DEF Types, Settled, Chunks

LEMMA PushNextStates ==
  ASSUME NEW S, NEW chunks \in [S -> Chunk], NEW p \in S
  PROVE  PushNext(chunks)[p] = chunks[p] \/ PushNext(chunks)[p].state = "waiting"
  BY DEF PushNext, Chunk

LEMMA AbandonedStates ==
  ASSUME Types, NEW b \in Batches, NEW o \in Chunks(b)
  PROVE  /\ Abandoned(b)[o].state \notin {"waiting", "running", "answered"}
         /\ Abandoned(b)[o].answer = chunk[b][o].answer
         /\ chunk[b][o].state \notin {"waiting", "running", "answered"} =>
              Abandoned(b)[o] = chunk[b][o]
  BY DEF Types, Abandoned, Chunk, Chunks

LEMMA FirstChunksStates ==
  ASSUME NEW r \in Request, NEW o \in Offsets(r.n)
  PROVE  FirstChunks(r)[o].state \in {"pending", "waiting"}
  BY DEF FirstChunks, Pending

-----------------------------------------------------------------------------
(* No step but a grant takes a permit.                                       *)
LEMMA FewerPermits ==
  ASSUME Types, NEW b \in Batches, Moves(b),
         \A o \in Chunks(b) : chunk'[b][o].state \in AtProvider => chunk[b][o].state \in AtProvider
  PROVE  Holding' \subseteq Holding
  <1>1. ASSUME NEW c \in Batches
        PROVE  In(c, AtProvider)' \subseteq In(c, AtProvider)
        BY <1>1 DEF Types, Moves, In, Chunks
  <1>2. AtProvider' = AtProvider
        BY DEF AtProvider
  <1>3. QED
        BY <1>1, <1>2 DEF Holding

LEMMA PermitsReturned ==
  ASSUME Types, NEW b \in Batches,
         \/ Start(b) \/ Refuse(b) \/ Cancel(b) \/ Expire(b) \/ GraceOver(b) \/ Drop(b)
         \/ \E o \in Chunks(b) : ProviderAnswers(b, o) \/ Poll(b, o)
  PROVE  Holding' \subseteq Holding
  <1>1. Moves(b)
        BY BatchSteps, ChunkSteps
  <1>2. ASSUME NEW o \in Chunks(b), chunk'[b][o].state \in AtProvider
        PROVE  chunk[b][o].state \in AtProvider
    <2> USE DEF AtProvider
    <2>1. CASE Start(b)
          BY <1>2, <2>1, FirstChunksStates DEF Start, Types, Batch, N, Chunks
    <2>2. CASE Refuse(b) \/ Cancel(b) \/ Expire(b)
          BY <1>2, <2>2 DEF Refuse, Cancel, Expire
    <2>3. CASE GraceOver(b) \/ Drop(b)
          BY <1>2, <2>3, AbandonedStates DEF GraceOver, Drop, Types
    <2>4. ASSUME NEW p \in Chunks(b), ProviderAnswers(b, p)
          PROVE  chunk[b][o].state \in AtProvider
          BY <1>2, <2>4 DEF ProviderAnswers, Types
    <2>5. ASSUME NEW p \in Chunks(b), Poll(b, p)
          PROVE  chunk[b][o].state \in AtProvider
      <3>1. PICK a \in Ready(b, p) :
              \/ chunk' = [chunk EXCEPT ![b] = Settled(b, p, a)]
              \/ chunk' = [chunk EXCEPT ![b] = PushNext(Settled(b, p, a))]
            BY <2>5 DEF Poll, ReturnDirect, Stop, Drain, Collect
      <3>2. Settled(b, p, a) \in [Offsets(N(b)) -> Chunk] /\ o \in Offsets(N(b))
            BY ReadyType, SettledType DEF Types, Chunks
      <3>3. chunk'[b][o] = Settled(b, p, a)[o] \/ chunk'[b][o].state = "waiting"
            BY <3>1, <3>2, PushNextStates DEF Types
      <3>4. QED
            BY <1>2, <3>3, SettledStates
    <2>6. QED
          BY <2>1, <2>2, <2>3, <2>4, <2>5
  <1>3. QED
        BY <1>1, <1>2, FewerPermits

(* A grant takes one, when one is left.                                      *)
LEMMA PermitGranted ==
  ASSUME Types, IsFiniteSet(Holding), Cardinality(Holding) <= MaxParallel,
         NEW b \in Batches, NEW o \in Chunks(b), Acquire(b, o)
  PROVE  IsFiniteSet(Holding') /\ Cardinality(Holding') <= MaxParallel
  <1>1. Holding' = Holding \cup {<<b, o>>}
        BY DEF Acquire, Holding, In, Chunks, AtProvider, Types, Chunk
  <1>2. /\ IsFiniteSet(Holding \cup {<<b, o>>})
        /\ Cardinality(Holding \cup {<<b, o>>}) <= Cardinality(Holding) + 1
    <2> DEFINE x == <<b, o>>
    <2>1. /\ IsFiniteSet(Holding \cup {x})
          /\ Cardinality(Holding \cup {x}) =
               IF x \in Holding THEN Cardinality(Holding) ELSE Cardinality(Holding) + 1
          BY FS_AddElement
    <2>2. Cardinality(Holding) \in Nat
          BY FS_CardinalityType
    <2>3. QED
          BY <2>1, <2>2
  <1>3. Cardinality(Holding) \in Nat
        BY FS_CardinalityType
  <1>4. Cardinality(Holding \cup {<<b, o>>}) \in Nat
        BY <1>2, FS_CardinalityType
  <1>5. QED
        BY <1>1, <1>2, <1>3, <1>4 DEF Acquire

-----------------------------------------------------------------------------
(* A chunk is lost only with its batch.                                      *)
LEMMA NoneLostStep ==
  ASSUME Types, NEW b \in Batches, NoneLost(b),
         \/ Start(b) \/ Refuse(b) \/ Cancel(b) \/ Expire(b) \/ GraceOver(b) \/ Drop(b)
         \/ \E o \in Chunks(b) : Acquire(b, o) \/ ProviderAnswers(b, o) \/ Poll(b, o)
  PROVE  NoneLost(b)'
  <1>1. CASE Start(b)
    <2>1. chunk'[b] = FirstChunks(batch[b].request) /\ batch[b].request \in Request
          BY <1>1 DEF Start, Types, Batch
    <2>2. Chunks(b)' = Offsets(batch[b].request.n)
          BY <2>1, FirstChunksType DEF Chunks
    <2>3. QED
          BY <2>1, <2>2, FirstChunksStates DEF NoneLost
  <1>2. CASE Refuse(b) \/ GraceOver(b) \/ Drop(b)
        BY <1>2 DEF Refuse, GraceOver, Drop, Types, Batch, NoneLost
  <1>3. CASE Cancel(b) \/ Expire(b)
        BY <1>3 DEF Cancel, Expire, Types, Batch, NoneLost, Chunks
  <1>4. ASSUME NEW o \in Chunks(b), Acquire(b, o) \/ ProviderAnswers(b, o)
        PROVE  NoneLost(b)'
        BY <1>4 DEF Acquire, ProviderAnswers, Types, Chunk, NoneLost, Chunks
  <1>5. ASSUME NEW o \in Chunks(b), Poll(b, o)
        PROVE  NoneLost(b)'
    <2>1. PICK a \in Ready(b, o) :
            \/ chunk' = [chunk EXCEPT ![b] = Settled(b, o, a)]
            \/ chunk' = [chunk EXCEPT ![b] = PushNext(Settled(b, o, a))]
          BY <1>5 DEF Poll, ReturnDirect, Stop, Drain, Collect
    <2>2. batch[b].phase \in {"open", "draining"}
          BY <1>5 DEF Poll, ReturnDirect, Stop, Drain, Collect
    <2>3. Settled(b, o, a) \in [Offsets(N(b)) -> Chunk]
          BY ReadyType, SettledType
    <2>4. \A p \in Chunks(b) : Settled(b, o, a)[p].state # "lost"
          BY <2>2, SettledStates DEF NoneLost
    <2>5. \A p \in Offsets(N(b)) : PushNext(Settled(b, o, a))[p].state # "lost"
          BY <2>3, <2>4, PushNextStates DEF Types, Chunks
    <2>6. PushNext(Settled(b, o, a)) \in [Offsets(N(b)) -> Chunk]
          BY <2>3, PushNextType
    <2>7. QED
          BY <2>1, <2>3, <2>4, <2>5, <2>6 DEF Types, NoneLost, Chunks
  <1>6. QED
        BY <1>1, <1>2, <1>3, <1>4, <1>5

(* The failure that stops a batch is reported as known only when no other    *)
(* chunk is under way or has ended, hence when none was tried.               *)
LEMMA HonestStop ==
  ASSUME Types, NEW b \in Batches, NEW o \in Chunks(b), NoneLost(b), Stop(b, o)
  PROVE  Honest(b)'
  <1>1. PICK a \in Ready(b, o) :
          /\ a.error # NoError
          /\ batch' = [batch EXCEPT
               ![b].phase = "draining",
               ![b].result = Failed([a.error EXCEPT !.unknown = @ \/ SiblingsMayHaveRun(b, o)])]
          /\ chunk' = [chunk EXCEPT ![b] = Settled(b, o, a)]
        BY DEF Stop
  <1>2. a.error \in Error
        BY <1>1, ReadyType DEF Answer
  <1>3. SUFFICES ASSUME StoppedAsKnown(b)'
                 PROVE  /\ Active(b)' = {}
                        /\ \A p \in Chunks(b) : p # o => chunk'[b][p].state = "pending"
                        /\ chunk'[b][o].state = "denied" \/ Refused(chunk'[b][o])
        BY <1>1, SettledStates DEF Honest, Untried, Refused, Types, Chunks
  <1>4. ~a.error.unknown /\ ~SiblingsMayHaveRun(b, o)
        BY <1>1, <1>2, <1>3 DEF StoppedAsKnown, Failed, Types, Batch, Error, SiblingsMayHaveRun
  <1>5. ASSUME NEW p \in Chunks(b), p # o
        PROVE  chunk[b][p].state = "pending"
    <2>1. chunk[b][p].state \notin {"waiting", "running", "answered", "collected", "denied"}
          BY <1>4, <1>5 DEF SiblingsMayHaveRun, Active, In
    <2>2. chunk[b][p].state # "lost"
          BY DEF Stop, NoneLost
    <2>3. QED
          BY <2>1, <2>2 DEF Types, Chunk, Chunks
  <1>6. chunk'[b] = Settled(b, o, a)
        BY <1>1 DEF Types
  <1>7. \A p \in Chunks(b) : p # o => chunk'[b][p].state = "pending"
        BY <1>5, <1>6, SettledStates
  <1>8. chunk'[b][o].state = "denied" \/ Refused(chunk'[b][o])
        BY <1>2, <1>4, <1>6, SettledStates DEF Refused
  <1>9. Active(b)' = {}
        BY <1>6, <1>7, <1>8, SettledStates DEF Active, In, Chunks, Refused
  <1>10. QED
         BY <1>7, <1>8, <1>9

(* It stays true while the others have their grace.                          *)
LEMMA HonestStep ==
  ASSUME Types, NEW b \in Batches, NoneLost(b), Honest(b),
         \/ Start(b) \/ Refuse(b) \/ Cancel(b) \/ Expire(b) \/ GraceOver(b) \/ Drop(b)
         \/ \E o \in Chunks(b) : Acquire(b, o) \/ ProviderAnswers(b, o) \/ Poll(b, o)
  PROVE  Honest(b)'
  <1>1. CASE Start(b) \/ Refuse(b) \/ GraceOver(b) \/ Drop(b)
        BY <1>1 DEF Start, Refuse, GraceOver, Drop, Types, Batch, Honest, StoppedAsKnown
  <1>2. CASE Cancel(b) \/ Expire(b)
    <2>1. batch[b] \in Batch /\ batch \in [Batches -> Batch]
          BY DEF Types
    <2>2. chunk' = chunk /\ batch'[b].phase = batch[b].phase /\ batch'[b].result = batch[b].result
          BY <1>2, <2>1 DEF Cancel, Expire, Batch
    <2>3. StoppedAsKnown(b)' => StoppedAsKnown(b)
          BY <2>2 DEF StoppedAsKnown
    <2>4. QED
          BY <2>2, <2>3 DEF Honest, Active, In, Chunks
  <1>3. ASSUME NEW o \in Chunks(b), Acquire(b, o) \/ ProviderAnswers(b, o) \/ Drain(b, o)
        PROVE  Honest(b)'
    <2>1. o \in Active(b)
          BY <1>3, ReadyType DEF Acquire, ProviderAnswers, Drain, Active, In
    <2>2. ~StoppedAsKnown(b)
          BY <2>1 DEF Honest
    <2>3. batch' = batch
          BY <1>3 DEF Acquire, ProviderAnswers, Drain
    <2>4. QED
          BY <2>2, <2>3 DEF Honest, StoppedAsKnown
  <1>4. ASSUME NEW o \in Chunks(b), ReturnDirect(b, o) \/ Collect(b, o)
        PROVE  Honest(b)'
        BY <1>4 DEF ReturnDirect, Collect, Types, Batch, Honest, StoppedAsKnown
  <1>5. ASSUME NEW o \in Chunks(b), Stop(b, o)
        PROVE  Honest(b)'
        BY <1>5, HonestStop
  <1>6. QED
        BY <1>1, <1>2, <1>3, <1>4, <1>5 DEF Poll

-----------------------------------------------------------------------------
(* Chunks that only end, or go on with what they did, keep their order.      *)
LEMMA InOrderBy ==
  ASSUME Types, NEW b \in Batches, Moves(b), InOrder(b),
         \A p \in Chunks(b) : chunk[b][p].state \in Ended => chunk'[b][p].state \in Ended,
         \A p \in Chunks(b) : chunk'[b][p].state \in UnderWay => chunk[b][p].state \in UnderWay
  PROVE  InOrder(b)'
  <1>1. batch'[b].request = batch[b].request /\ Chunks(b)' = Chunks(b)
        BY DEF Moves, Types, Chunks
  <1>2. QED
        BY <1>1 DEF InOrder, In, UnderWay, Ended

(* The first chunk of a conversation is pushed alone, and the next one when  *)
(* it has ended.                                                             *)
LEMMA InOrderStart ==
  ASSUME Types, NEW b \in Batches, Start(b)
  PROVE  InOrder(b)'
  <1> DEFINE r == batch[b].request
  <1>1. r \in Request /\ batch'[b].request = r /\ chunk'[b] = FirstChunks(r)
        BY DEF Start, Types, Batch
  <1>2. SUFFICES ASSUME ~r.isolated, NEW o \in Offsets(r.n),
                        FirstChunks(r)[o].state \in UnderWay
                 PROVE  o = 0
        <2>1. DOMAIN FirstChunks(r) = Offsets(r.n) /\ Offsets(r.n) \subseteq Nat
              BY <1>1 DEF FirstChunks, Offsets, Request
        <2> HIDE DEF r
        <2>2. \A p \in Offsets(r.n) : ~(p < 0)
              BY <2>1
        <2>3. QED
              BY <1>1, <1>2, <2>1, <2>2 DEF InOrder, In, Chunks
  <1>3. Width(r) = 1
        BY <1>1, <1>2 DEF Width, Request
  <1>4. o < NativeMax
        BY <1>2, <1>3 DEF FirstChunks, Pending, UnderWay
  <1>5. o \in Nat /\ o % NativeMax = 0
        BY <1>1 DEF Offsets, Request
  <1>6. QED
        BY <1>4, <1>5

LEMMA InOrderPush ==
  ASSUME Types, NEW b \in Batches, NoneLost(b), InOrder(b), Open(b), Moves(b),
         NEW o \in Chunks(b), NEW a \in Ready(b, o),
         chunk'[b] = PushNext(Settled(b, o, a))
  PROVE  InOrder(b)'
  <1> DEFINE s == Settled(b, o, a)
             K == Chunks(b)
             pending == {p \in DOMAIN s : s[p].state = "pending"}
  <1>1. SUFFICES ASSUME ~batch[b].request.isolated
                 PROVE  \A p \in K : chunk'[b][p].state \in UnderWay =>
                          \A q \in K : q < p => chunk'[b][q].state \in Ended
        BY DEF InOrder, In, Moves, Types, Chunks
  <1>2. K = Offsets(N(b)) /\ K \subseteq Nat /\ s \in [K -> Chunk]
        <2>1. N(b) \in Nat
              BY DEF Types, N, Batch, Request
        <2>2. K = Offsets(N(b))
              BY DEF Types, Chunks
        <2>3. K \subseteq Nat
              BY <2>1, <2>2 DEF Offsets
        <2>4. s \in [K -> Chunk]
              BY <2>2, ReadyType, SettledType
        <2>5. QED
              BY <2>2, <2>3, <2>4
  <1>3. DOMAIN s = K /\ s[o].state \in Ended /\ \A p \in K \ {o} : s[p] = chunk[b][p]
        BY SettledStates DEF Ended
  <1>4. chunk[b][o].state \in UnderWay
        BY ReadyType DEF UnderWay
  <1>5. ASSUME NEW p \in K, NEW q \in K, p < q, chunk[b][q].state \in UnderWay
        PROVE  chunk[b][p].state \in Ended
        BY <1>1, <1>5 DEF InOrder, In
  <1>6. \A p \in K : chunk[b][p].state \in UnderWay => p = o
        <2>1. ASSUME NEW p \in K, chunk[b][p].state \in UnderWay, p # o PROVE FALSE
              <3>1. p < o \/ o < p
                    BY <1>2, <2>1
              <3>2. chunk[b][p].state \in Ended \/ chunk[b][o].state \in Ended
                    BY <1>4, <1>5, <2>1, <3>1
              <3>3. QED
                    BY <1>4, <2>1, <3>2 DEF UnderWay, Ended
        <2>2. QED
              BY <2>1
  <1>7. \A p \in K : s[p].state \in Ended \cup {"pending"}
        <2>1. \A p \in K \ {o} : chunk[b][p].state \in ChunkState /\ chunk[b][p].state \notin UnderWay
              BY <1>6 DEF Types, Chunks, Chunk
        <2>2. QED
              BY <1>3, <2>1 DEF Ended, UnderWay
  <1>8. CASE pending = {}
        BY <1>3, <1>7, <1>8 DEF PushNext, UnderWay, Ended
  <1>9. CASE pending # {}
        <2>1. Min(pending) \in pending /\ \A p \in pending : Min(pending) <= p
              BY <1>2, <1>3, <1>9, MinIsOne
        <2>2. chunk'[b] = [s EXCEPT ![Min(pending)].state = "waiting"]
              BY <1>9 DEF PushNext
        <2> DEFINE m == Min(pending)
        <2> HIDE DEF m, s, K
        <2>3. /\ m \in K /\ \A p \in K : p < m => s[p].state \in Ended
              /\ \A p \in K \ {m} : chunk'[b][p] = s[p]
              <3>1. m \in K /\ \A p \in K : p < m => p \notin pending
                    <4>1. m \in pending /\ pending \subseteq K
                          BY <1>3, <2>1 DEF m
                    <4>2. \A p \in pending : m <= p
                          BY <2>1 DEF m
                    <4> HIDE DEF pending
                    <4>3. \A p \in K : p \in Nat /\ m \in Nat
                          BY <1>2, <4>1
                    <4>4. QED
                          BY <4>1, <4>2, <4>3
              <3>2. \A p \in K \ {m} : chunk'[b][p] = s[p]
                    BY <1>2, <2>2 DEF m
              <3>3. QED
                    BY <1>3, <1>7, <3>1, <3>2
        <2>4. \A p \in K : chunk'[b][p].state \in UnderWay => p = m
              BY <1>7, <2>3 DEF Ended, UnderWay
        <2>5. \A q \in K : q < m => chunk'[b][q].state \in Ended
              BY <1>2, <2>3
        <2>6. QED
              BY <2>4, <2>5 DEF K
  <1>10. QED
         BY <1>8, <1>9

LEMMA InOrderStep ==
  ASSUME Types, NEW b \in Batches, NoneLost(b), InOrder(b),
         \/ Start(b) \/ Refuse(b) \/ Cancel(b) \/ Expire(b) \/ GraceOver(b) \/ Drop(b)
         \/ \E o \in Chunks(b) : Acquire(b, o) \/ ProviderAnswers(b, o) \/ Poll(b, o)
  PROVE  InOrder(b)'
  <1>0. Moves(b)
        BY BatchSteps, ChunkSteps
  <1>1. CASE Start(b)
        BY <1>1, InOrderStart
  <1>2. CASE Refuse(b) \/ Cancel(b) \/ Expire(b)
        <2>1. chunk'[b] = chunk[b]
              BY <1>2 DEF Refuse, Cancel, Expire
        <2>2. QED
              BY <1>0, <2>1, InOrderBy
  <1>3. CASE GraceOver(b) \/ Drop(b)
        <2>1. chunk'[b] = Abandoned(b)
              BY <1>3 DEF GraceOver, Drop, Types
        <2>2. \A p \in Chunks(b) :
                /\ chunk[b][p].state \in Ended => Abandoned(b)[p].state \in Ended
                /\ Abandoned(b)[p].state \in UnderWay => chunk[b][p].state \in UnderWay
              BY DEF Abandoned, Types, Chunk, Chunks, Ended, UnderWay
        <2>3. QED
              BY <1>0, <2>1, <2>2, InOrderBy
  <1>4. ASSUME NEW o \in Chunks(b), Acquire(b, o) \/ ProviderAnswers(b, o)
        PROVE  InOrder(b)'
        <2>1. /\ chunk[b][o].state \in UnderWay /\ chunk'[b][o].state \in UnderWay
              /\ \A p \in Chunks(b) \ {o} : chunk'[b][p] = chunk[b][p]
              BY <1>4 DEF Acquire, ProviderAnswers, Types, Chunk, Chunks, UnderWay
        <2>2. chunk[b][o].state \notin Ended
              BY <2>1 DEF UnderWay, Ended
        <2>3. QED
              BY <1>0, <2>1, <2>2, InOrderBy
  <1>5. ASSUME NEW o \in Chunks(b), Poll(b, o)
        PROVE  InOrder(b)'
        <2>1. PICK a \in Ready(b, o) :
                \/ chunk'[b] = Settled(b, o, a)
                \/ chunk'[b] = PushNext(Settled(b, o, a))
              BY <1>5 DEF Poll, ReturnDirect, Stop, Drain, Collect, Types
        <2>2. Open(b)
              BY <1>5 DEF Poll, ReturnDirect, Stop, Drain, Collect, Open
        <2>3. CASE chunk'[b] = Settled(b, o, a)
              BY <1>0, <2>3, SettledStates, InOrderBy DEF Ended, UnderWay
        <2>4. CASE chunk'[b] = PushNext(Settled(b, o, a))
              BY <1>0, <2>2, <2>4, InOrderPush
        <2>5. QED
              BY <2>1, <2>3, <2>4
  <1>6. QED
        BY <1>1, <1>2, <1>3, <1>4, <1>5

-----------------------------------------------------------------------------
(* What a future is ready with: an image comes without an error, and who is  *)
(* denied a permit has one.                                                  *)
LEMMA ReadyIsEmpty ==
  ASSUME Types, NEW b \in Batches, NEW o \in Chunks(b), NEW a \in Ready(b, o), Accounted(b)
  PROVE  /\ Empty(a)
         /\ Settled(b, o, a)[o].state = "denied" => a.error # NoError
  <1>1. CASE chunk[b][o].state = "answered" /\ a = chunk[b][o].answer
        BY <1>1 DEF Accounted, Settled, Types, Chunks, Chunk
  <1>2. CASE \E code \in {"cancelled", "timeout"} : a = Failed(Known(code))
        <2>1. \A code \in {"cancelled", "timeout"} : Known(code) \in Error
              BY DEF Known, Error, ErrorCode
        <2>2. QED
              BY <1>2, <2>1, NoErrorIsNone DEF Failed, Empty
  <1>3. QED
        BY <1>1, <1>2 DEF Ready

LEMMA PushNextAnswers ==
  ASSUME NEW S, NEW chunks \in [S -> Chunk], NEW p \in S
  PROVE  /\ PushNext(chunks)[p].answer = chunks[p].answer
         /\ PushNext(chunks)[p].state = "denied" => chunks[p].state = "denied"
  BY DEF PushNext, Chunk

LEMMA AccountedStep ==
  ASSUME Types, NEW b \in Batches, Accounted(b),
         \/ Start(b) \/ Refuse(b) \/ Cancel(b) \/ Expire(b) \/ GraceOver(b) \/ Drop(b)
         \/ \E o \in Chunks(b) : Acquire(b, o) \/ ProviderAnswers(b, o) \/ Poll(b, o)
  PROVE  Accounted(b)'
  <1>0. Moves(b) /\ Chunks(b)' = Chunks(b) /\ batch[b] \in Batch
        BY BatchSteps, ChunkSteps DEF Moves, Types, Chunks
  <1>1. CASE Start(b)
        <2>1. /\ chunk'[b] = FirstChunks(batch[b].request) /\ batch'[b].phase = "open"
              /\ batch[b].request \in Request
              BY <1>0, <1>1 DEF Start, Types, Batch
        <2>2. \A o \in Offsets(batch[b].request.n) :
                /\ FirstChunks(batch[b].request)[o].answer = Failed(NoError)
                /\ FirstChunks(batch[b].request)[o].state # "denied"
              BY DEF FirstChunks, Pending
        <2>3. Chunks(b)' = Offsets(batch[b].request.n)
              BY <2>1, FirstChunksType DEF Chunks
        <2>4. QED
              BY <2>1, <2>2, <2>3 DEF Accounted, In, Empty, Failed
  <1>2. CASE Refuse(b) \/ Cancel(b) \/ Expire(b)
        <2>1. chunk'[b] = chunk[b] /\ batch'[b].result \in {batch[b].result, batch'[b].result}
              BY <1>2 DEF Refuse, Cancel, Expire
        <2>2. \/ batch'[b].phase = "done"
              \/ batch'[b].phase = batch[b].phase /\ batch'[b].result = batch[b].result
              BY <1>0, <1>2 DEF Refuse, Cancel, Expire, Types, Batch
        <2>3. QED
              BY <1>0, <2>1, <2>2 DEF Accounted, In
  <1>3. CASE GraceOver(b) \/ Drop(b)
        <2>1. chunk'[b] = Abandoned(b) /\ batch'[b].phase \in {"done", "dropped"}
              BY <1>3 DEF GraceOver, Drop, Types, Batch
        <2>2. QED
              BY <1>0, <2>1, AbandonedStates DEF Accounted
  <1>4. ASSUME NEW o \in Chunks(b), Acquire(b, o)
        PROVE  Accounted(b)'
        <2>1. /\ chunk'[b][o].answer = chunk[b][o].answer /\ chunk'[b][o].state = "running"
              /\ \A p \in Chunks(b) \ {o} : chunk'[b][p] = chunk[b][p]
              /\ batch' = batch
              BY <1>4 DEF Acquire, Types, Chunks, Chunk
        <2>2. QED
              BY <1>0, <2>1 DEF Accounted, In
  <1>5. ASSUME NEW o \in Chunks(b), ProviderAnswers(b, o)
        PROVE  Accounted(b)'
        <2>1. PICK a \in Responses \cup {Failed(e) : e \in ProviderErrors} :
                chunk' = [chunk EXCEPT ![b][o] = [state |-> "answered", answer |-> a]]
              BY <1>5 DEF ProviderAnswers
        <2>2. Empty(a)
              BY DEF Empty, Failed
        <2>3. /\ chunk'[b][o] = [state |-> "answered", answer |-> a] /\ batch' = batch
              /\ \A p \in Chunks(b) \ {o} : chunk'[b][p] = chunk[b][p]
              BY <1>5, <2>1 DEF ProviderAnswers, Types, Chunks
        <2>4. QED
              BY <1>0, <2>2, <2>3 DEF Accounted, In
  <1>6. ASSUME NEW o \in Chunks(b), Poll(b, o)
        PROVE  Accounted(b)'
        <2>1. PICK a \in Ready(b, o) :
                /\ \/ chunk'[b] = Settled(b, o, a)
                   \/ chunk'[b] = PushNext(Settled(b, o, a))
                /\ batch'[b].phase = "draining" =>
                     \/ batch'[b] = batch[b]
                     \/ /\ a.error # NoError
                        /\ batch'[b].result =
                             Failed([a.error EXCEPT !.unknown = @ \/ SiblingsMayHaveRun(b, o)])
              <3>1. CASE ReturnDirect(b, o)
                    BY <1>0, <3>1 DEF ReturnDirect, Types, Batch
              <3>2. CASE Stop(b, o)
                    <4>1. PICK a \in Ready(b, o) :
                            /\ a.error # NoError
                            /\ batch' = [batch EXCEPT ![b].phase = "draining",
                                 ![b].result = Failed([a.error EXCEPT
                                                 !.unknown = @ \/ SiblingsMayHaveRun(b, o)])]
                            /\ chunk' = [chunk EXCEPT ![b] = Settled(b, o, a)]
                          BY <3>2 DEF Stop
                    <4> DEFINE e == [a.error EXCEPT !.unknown = @ \/ SiblingsMayHaveRun(b, o)]
                    <4>2. batch'[b] = [batch[b] EXCEPT !.phase = "draining", !.result = Failed(e)]
                          BY <4>1 DEF Types
                    <4>3. chunk'[b] = Settled(b, o, a)
                          BY <4>1 DEF Types
                    <4> HIDE DEF e
                    <4>4. batch'[b].result = Failed(e)
                          BY <1>0, <4>2 DEF Batch
                    <4>5. QED
                          BY <4>1, <4>3, <4>4 DEF e
              <3>3. CASE Drain(b, o)
                    BY <1>0, <3>3 DEF Drain, Types, Batch
              <3>4. CASE Collect(b, o)
                    BY <1>0, <3>4 DEF Collect, Types, Batch
              <3>5. QED
                    BY <1>6, <3>1, <3>2, <3>3, <3>4 DEF Poll
        <2> DEFINE s == Settled(b, o, a)
        <2>2. s \in [Chunks(b) -> Chunk]
              BY ReadyType, SettledType DEF Types, Chunks
        <2>3. batch[b].phase \in {"open", "draining"}
              BY <1>6 DEF Poll, ReturnDirect, Stop, Drain, Collect
        <2>4. \A p \in Chunks(b) : /\ Empty(s[p].answer)
                                   /\ s[p].state = "denied" => s[p].answer.error # NoError
              BY <2>3, SettledStates, ReadyIsEmpty DEF Accounted, In
        <2>5. \A p \in Chunks(b) : /\ chunk'[b][p].answer = s[p].answer
                                   /\ chunk'[b][p].state = "denied" => s[p].state = "denied"
              BY <2>1, <2>2, PushNextAnswers
        <2>6. batch'[b].phase = "draining" => batch'[b].result.error # NoError
              <3>1. CASE batch'[b] = batch[b]
                    BY <3>1 DEF Accounted
              <3>2. ASSUME a.error # NoError
                    PROVE  [a.error EXCEPT !.unknown = @ \/ SiblingsMayHaveRun(b, o)] # NoError
                    <4>1. a.error \in Error
                          BY <3>2, ReadyType DEF Answer
                    <4>2. [a.error EXCEPT !.unknown = @ \/ SiblingsMayHaveRun(b, o)].code
                            = a.error.code
                          BY <4>1 DEF Error
                    <4>3. a.error.code # "none"
                          BY <4>1 DEF Error, ErrorCode
                    <4>4. QED
                          BY <4>2, <4>3 DEF NoError
              <3>3. QED
                    BY <2>1, <3>1, <3>2 DEF Failed
        <2> HIDE DEF s
        <2>7. QED
              BY <1>0, <2>4, <2>5, <2>6 DEF Accounted, In
  <1>7. QED
        BY <1>1, <1>2, <1>3, <1>4, <1>5, <1>6

-----------------------------------------------------------------------------
(* aggregate() answers without an error only with every chunk that succeeded *)
(* complete and under one model.                                             *)
LEMMA AggregateIs ==
  ASSUME Types, NEW b \in Batches, NEW chunks \in [Offsets(N(b)) -> Chunk],
         NEW good, good = {o \in Offsets(N(b)) : chunks[o].answer.error = NoError},
         Aggregate(b, chunks).error = NoError
  PROVE  /\ good # {}
         /\ Aggregate(b, chunks) = Merged(b, chunks, good)
         /\ \A o \in good : /\ ValidIndices(b, o, chunks[o].answer)
                            /\ chunks[o].answer.model = Merged(b, chunks, good).model
  <1>1. good = {o \in DOMAIN chunks : chunks[o].answer.error = NoError}
        OBVIOUS
  <1>2. 0 \in Offsets(N(b))
        BY DEF Types, Offsets, N, Batch, Request
  <1>3. good = {} => Aggregate(b, chunks).error = chunks[0].answer.error
        BY <1>1 DEF Aggregate, Failed
  <1>4. good # {}
        BY <1>2, <1>3
  <1>5. Known("protocol") # NoError
        BY DEF Known, NoError
  <1>6. Failed(Known("protocol")).error # NoError
        BY <1>5 DEF Failed
  <1>7. /\ ~\E o \in good : ~ValidIndices(b, o, chunks[o].answer)
        /\ ~\E o \in good : chunks[o].answer.model # Merged(b, chunks, good).model
        /\ Aggregate(b, chunks) = Merged(b, chunks, good)
        BY <1>1, <1>4, <1>6, Zenon DEF Aggregate
  <1>8. QED
        BY <1>4, <1>7

(* Its images are those the calls made, each in its place, and the rest of   *)
(* what was asked for has failed.                                            *)
LEMMA MergedIsExact ==
  ASSUME Types, NEW b \in Batches, NEW chunks \in [Offsets(N(b)) -> Chunk],
         NEW good, good = {o \in Offsets(N(b)) : chunks[o].answer.error = NoError},
         \A o \in good : /\ ValidIndices(b, o, chunks[o].answer)
                         /\ chunks[o].answer.model = Merged(b, chunks, good).model,
         \A o \in Offsets(N(b)) : /\ Empty(chunks[o].answer)
                                  /\ chunks[o].state \in Ended
                                  /\ o \in good => chunks[o].state = "collected",
         NEW made, made = MadeOf(b, chunks, Merged(b, chunks, good).model)
  PROVE  /\ Merged(b, chunks, good).images = made
         /\ Merged(b, chunks, good).failures = (0..(N(b) - 1)) \ made
  <1> DEFINE n     == N(b)
             At(x) == x - (x % NativeMax)
             Ix(x) == x % NativeMax
             C(o)  == CountOf(b, o)
             m     == Merged(b, chunks, good)
  <1>1. n \in Nat \ {0} /\ NativeMax \in Nat \ {0}
        BY DEF Types, N, Batch, Request
  <1>2. ASSUME NEW x \in 0..(n - 1)
        PROVE  At(x) \in Offsets(n) /\ Ix(x) \in 0..(C(At(x)) - 1) /\ x = At(x) + Ix(x)
        <2>0. x \in Nat
              BY <1>1
        <2>1. Ix(x) \in 0..(NativeMax - 1) /\ At(x) \in 0..x /\ At(x) % NativeMax = 0
              BY ONLY <1>1, <2>0, ChunkOf
        <2> HIDE DEF At, Ix, n
        <2>2. At(x) \in Offsets(n)
              BY <1>1, <2>1 DEF Offsets
        <2>3. x = At(x) + Ix(x)
              BY <1>1, <2>1 DEF At, Ix
        <2>4. C(At(x)) = IF n - At(x) < NativeMax THEN n - At(x) ELSE NativeMax
              BY DEF CountOf, n
        <2>5. Ix(x) \in 0..(C(At(x)) - 1)
              BY ONLY <1>1, <2>1, <2>3, <2>4
        <2>6. QED
              BY <2>2, <2>3, <2>5
  <1>3. ASSUME NEW o \in Offsets(n), NEW i \in 0..(C(o) - 1)
        PROVE  o + i \in 0..(n - 1) /\ At(o + i) = o /\ Ix(o + i) = i
        <2>1. o \in 0..(n - 1) /\ o % NativeMax = 0
              BY DEF Offsets
        <2>2. C(o) = IF n - o < NativeMax THEN n - o ELSE NativeMax
              BY DEF CountOf
        <2> HIDE DEF n, C
        <2>3. i \in 0..(NativeMax - 1) /\ o + i \in 0..(n - 1) /\ o \in Nat
              BY ONLY <1>1, <1>3, <2>1, <2>2
        <2>4. Ix(o + i) = i
              BY <1>1, <2>1, <2>3, IndexOf
        <2>5. QED
              BY <2>3, <2>4
  <1>4. good \subseteq Offsets(n) /\ \A o \in good :
          /\ chunks[o].answer.images \cap chunks[o].answer.failures = {}
          /\ chunks[o].answer.images \cup chunks[o].answer.failures = 0..(C(o) - 1)
          /\ chunks[o].answer.model = m.model /\ chunks[o].state = "collected"
        BY DEF ValidIndices
  <1>5. \A o \in Offsets(n) : o \notin good => chunks[o].answer.images = {}
        BY DEF Empty
  <1>6. made = {x \in 0..(n - 1) : At(x) \in good /\ Ix(x) \in chunks[At(x)].answer.images}
        <2>1. made = {x \in 0..(n - 1) : /\ chunks[At(x)].state = "collected"
                                         /\ Ix(x) \in chunks[At(x)].answer.images
                                         /\ chunks[At(x)].answer.model = m.model}
              BY DEF MadeOf
        <2> HIDE DEF m, n, At, Ix, C
        <2>2. QED
              BY <1>2, <1>4, <1>5, <2>1
  <1>7. \A x : x \in m.images <=> \E o \in good : \E i \in chunks[o].answer.images : x = o + i
    <2>1. m.images = UNION {Shift(chunks[o].answer.images, o) : o \in good}
          BY DEF Merged
    <2> HIDE DEF m
    <2>2. QED
          BY ONLY <2>1 DEF Shift
  <1>8. \A x : x \in m.failures <=>
                 \E o \in Offsets(n) :
                   IF o \in good THEN \E i \in chunks[o].answer.failures : x = o + i
                                 ELSE x \in o..(o + C(o) - 1)
    <2> DEFINE part(o) == IF o \in good THEN Shift(chunks[o].answer.failures, o)
                                        ELSE o..(o + C(o) - 1)
    <2>1. m.failures = UNION {part(o) : o \in Offsets(n)}
          BY DEF Merged
    <2>2. ASSUME NEW x, NEW o
          PROVE  x \in part(o) <=> IF o \in good THEN \E i \in chunks[o].answer.failures : x = o + i
                                                  ELSE x \in o..(o + C(o) - 1)
          BY ONLY DEF Shift
    <2> HIDE DEF part, m, n, C
    <2>3. \A x : x \in m.failures <=> \E o \in Offsets(n) : x \in part(o)
          BY ONLY <2>1
    <2>4. QED
          BY <2>2, <2>3
  <1>9. \A o \in Offsets(n) : o \in Nat /\ C(o) \in Int
        BY <1>1 DEF Offsets, CountOf
  <1> HIDE DEF m, n, At, Ix, C
  <1>10. ASSUME NEW x \in m.images PROVE x \in made
        <2>1. PICK o \in good : \E i \in chunks[o].answer.images : x = o + i
              BY <1>7
        <2>2. PICK i \in chunks[o].answer.images : x = o + i
              BY <2>1
        <2>3. o \in Offsets(n) /\ i \in 0..(C(o) - 1)
              BY <1>4
        <2>4. QED
              BY <1>3, <1>6, <2>2, <2>3
  <1>11. ASSUME NEW x \in made PROVE x \in m.images
        <2>1. x \in 0..(n - 1) /\ At(x) \in good /\ Ix(x) \in chunks[At(x)].answer.images
              BY <1>6
        <2>2. x = At(x) + Ix(x)
              BY <1>2, <2>1
        <2>3. QED
              BY <1>7, <2>1, <2>2
  <1>12. ASSUME NEW x \in m.failures PROVE x \in (0..(n - 1)) \ made
        <2>1. PICK o \in Offsets(n) :
                IF o \in good THEN \E i \in chunks[o].answer.failures : x = o + i
                              ELSE x \in o..(o + C(o) - 1)
              BY <1>8
        <2>2. PICK i \in 0..(C(o) - 1) :
                x = o + i /\ (o \in good => i \in chunks[o].answer.failures)
              <3>1. CASE o \in good
                    <4>1. PICK i \in chunks[o].answer.failures : x = o + i
                          BY <2>1, <3>1
                    <4>2. i \in 0..(C(o) - 1)
                          BY <1>4, <3>1
                    <4>3. QED
                          BY <4>1, <4>2
              <3>2. CASE o \notin good
                    <4>1. x \in o..(o + C(o) - 1) /\ o \in Nat /\ C(o) \in Int
                          BY <1>9, <2>1, <3>2
                    <4>2. x - o \in 0..(C(o) - 1) /\ x = o + (x - o)
                          BY ONLY <4>1
                    <4>3. QED
                          BY <3>2, <4>2
              <3>3. QED
                    BY <3>1, <3>2
        <2>3. x \in 0..(n - 1) /\ At(x) = o /\ Ix(x) = i
              BY <1>3, <2>2
        <2>4. o \in good => i \notin chunks[o].answer.images
              BY <1>4, <2>2
        <2>5. QED
              BY <1>6, <2>3, <2>4
  <1>13. ASSUME NEW x \in (0..(n - 1)) \ made PROVE x \in m.failures
        <2> DEFINE o == At(x)
                   i == Ix(x)
        <2>1. o \in Offsets(n) /\ i \in 0..(C(o) - 1) /\ x = o + i
              BY <1>2
        <2>2. o \in good => i \notin chunks[o].answer.images
              BY <1>6
        <2> HIDE DEF o, i
        <2>3. CASE o \in good
              <3>1. i \in chunks[o].answer.failures
                    BY <1>4, <2>1, <2>2, <2>3
              <3>2. QED
                    BY <1>8, <2>1, <2>3, <3>1
        <2>4. CASE o \notin good
              <3>1. o \in Nat /\ C(o) \in Int
                    BY <1>9, <2>1
              <3>2. x \in o..(o + C(o) - 1)
                    BY ONLY <2>1, <3>1
              <3>3. QED
                    BY <1>8, <2>1, <2>4, <3>2
        <2>5. QED
              BY <2>3, <2>4
  <1>14. m.images = made
        BY <1>10, <1>11
  <1>15. m.failures = (0..(n - 1)) \ made
        BY <1>12, <1>13
  <1>16. QED
        BY <1>14, <1>15 DEF m, n

(* The last chunk of a batch has come in: the others have ended before.      *)
LEMMA LastCollected ==
  ASSUME Types, NEW b \in Batches, NoneLost(b), Open(b),
         NEW o \in Chunks(b), NEW a \in Ready(b, o), NEW chunks,
         chunks = PushNext(Settled(b, o, a)),
         ~\E p \in DOMAIN chunks : chunks[p].state \in {"waiting", "running", "answered"}
  PROVE  chunks = Settled(b, o, a) /\ \A p \in Chunks(b) : chunks[p].state \in Ended
  <1> DEFINE s == Settled(b, o, a)
             pending == {p \in DOMAIN s : s[p].state = "pending"}
  <1>1. s \in [Chunks(b) -> Chunk] /\ DOMAIN s \subseteq Nat
        <2>1. N(b) \in Nat /\ Chunks(b) = Offsets(N(b))
              BY DEF Types, N, Batch, Request, Chunks
        <2>2. Chunks(b) \subseteq Nat
              BY <2>1 DEF Offsets
        <2>3. s \in [Chunks(b) -> Chunk]
              BY <2>1, ReadyType, SettledType
        <2>4. QED
              BY <2>2, <2>3
  <1>2. pending = {}
        <2>1. SUFFICES ASSUME pending # {} PROVE FALSE
              OBVIOUS
        <2>2. Min(pending) \in pending
              BY <1>1, <2>1, MinIsOne
        <2> DEFINE m == Min(pending)
        <2>3. chunks = [s EXCEPT ![m].state = "waiting"] /\ m \in DOMAIN s
              BY <2>1, <2>2 DEF PushNext
        <2> HIDE DEF m, s
        <2>4. m \in DOMAIN chunks /\ chunks[m].state = "waiting"
              BY <1>1, <2>3 DEF Chunk
        <2>5. QED
              BY <2>4
  <1>3. chunks = s
        BY <1>2 DEF PushNext
  <1>4. \A p \in Chunks(b) : s[p].state # "lost"
        BY SettledStates DEF NoneLost, Open
  <1> HIDE DEF s
  <1>5. \A p \in Chunks(b) : /\ chunks[p].state \in ChunkState
                             /\ chunks[p].state \notin {"pending", "lost", "waiting", "running",
                                                        "answered"}
        BY <1>1, <1>2, <1>3, <1>4 DEF Chunk
  <1>6. QED
        BY <1>3, <1>5 DEF s, Ended

LEMMA ExactCollect ==
  ASSUME Types, NEW b \in Batches, NoneLost(b), Accounted(b),
         NEW o \in Chunks(b), Collect(b, o), Answered(b)'
  PROVE  Exact(b)'
  <1>0. batch[b] \in Batch /\ Open(b) /\ batch[b].phase = "open"
        BY DEF Types, Collect, Open
  <1>1. PICK a \in Ready(b, o) :
          LET chunks == PushNext(Settled(b, o, a)) IN
          /\ chunk' = [chunk EXCEPT ![b] = chunks]
          /\ IF \E p \in DOMAIN chunks : chunks[p].state \in {"waiting", "running", "answered"}
             THEN UNCHANGED batch
             ELSE batch' = [batch EXCEPT ![b].phase = "done",
                                         ![b].result = Aggregate(b, chunks)]
        BY DEF Collect
  <1> DEFINE chunks == PushNext(Settled(b, o, a))
             result == Aggregate(b, chunks)
             good   == {p \in Offsets(N(b)) : chunks[p].answer.error = NoError}
  <1>2. chunk'[b] = chunks /\ batch'[b].phase = "done"
        BY <1>1 DEF Answered, Types
  <1>3. ~\E p \in DOMAIN chunks : chunks[p].state \in {"waiting", "running", "answered"}
        BY <1>0, <1>1, <1>2 DEF Types
  <1>4. batch'[b] = [batch[b] EXCEPT !.phase = "done", !.result = result]
        BY <1>1, <1>3 DEF Types
  <1> HIDE DEF result
  <1>5. batch'[b].result = result /\ batch'[b].request = batch[b].request /\ result.error = NoError
        BY <1>0, <1>4 DEF Batch, Answered
  <1>6. chunks = Settled(b, o, a) /\ \A p \in Chunks(b) : chunks[p].state \in Ended
        BY <1>0, <1>3, LastCollected
  <1>7. chunks \in [Offsets(N(b)) -> Chunk] /\ Chunks(b) = Offsets(N(b))
        BY <1>6, ReadyType, SettledType DEF Types, Chunks
  <1>8. \A p \in Chunks(b) : /\ Empty(chunks[p].answer)
                             /\ chunks[p].state = "denied" => chunks[p].answer.error # NoError
        BY <1>0, <1>6, SettledStates, ReadyIsEmpty DEF Accounted, In
  <1> HIDE DEF chunks
  <1>9. good = {p \in Offsets(N(b)) : chunks[p].answer.error = NoError}
        OBVIOUS
  <1> HIDE DEF good
  <1>10. /\ result = Merged(b, chunks, good)
         /\ \A p \in good : /\ ValidIndices(b, p, chunks[p].answer)
                            /\ chunks[p].answer.model = Merged(b, chunks, good).model
         BY <1>5, <1>7, <1>9, AggregateIs DEF result
  <1>11. \A p \in Offsets(N(b)) : /\ Empty(chunks[p].answer)
                                  /\ chunks[p].state \in Ended
                                  /\ p \in good => chunks[p].state = "collected"
         BY <1>6, <1>7, <1>8, <1>9 DEF Ended
  <1> DEFINE made == MadeOf(b, chunks, Merged(b, chunks, good).model)
  <1>12. /\ Merged(b, chunks, good).images = made
         /\ Merged(b, chunks, good).failures = (0..(N(b) - 1)) \ made
         BY <1>7, <1>9, <1>10, <1>11, MergedIsExact
  <1>13. N(b)' = N(b) /\ Chunks(b)' = Chunks(b)
         BY <1>2, <1>5, <1>7 DEF N, Chunks
  <1>14. MadeFor(b)' = made
         BY <1>2, <1>5, <1>10, <1>13 DEF MadeFor, MadeOf
  <1> HIDE DEF made
  <1>15. QED
         BY <1>2, <1>5, <1>6, <1>10, <1>12, <1>13, <1>14 DEF Exact

LEMMA ExactStep ==
  ASSUME Types, NEW b \in Batches, NoneLost(b), Accounted(b), Exact(b),
         \/ Start(b) \/ Refuse(b) \/ Cancel(b) \/ Expire(b) \/ GraceOver(b) \/ Drop(b)
         \/ \E o \in Chunks(b) : Acquire(b, o) \/ ProviderAnswers(b, o) \/ Poll(b, o)
  PROVE  Exact(b)'
  <1>0. batch[b] \in Batch
        BY DEF Types
  <1> SUFFICES ASSUME Answered(b)' PROVE Exact(b)'
      BY DEF Exact
  <1>1. CASE Start(b) \/ Drop(b) \/ Cancel(b) \/ Expire(b)
        <2>1. Start(b) \/ Drop(b) => batch'[b].phase \in {"open", "dropped"}
              BY <1>0 DEF Start, Drop, Types, Batch
        <2>2. Cancel(b) \/ Expire(b) => batch'[b].phase = batch[b].phase
              BY <1>0 DEF Cancel, Expire, Types, Batch
        <2>3. QED
              BY <1>1, <2>1, <2>2 DEF Cancel, Expire, Open, Answered
  <1>2. CASE Refuse(b)
        <2>1. batch'[b].result = Failed(Known("unsupported_capability"))
              BY <1>0, <1>2 DEF Refuse, Types, Batch
        <2>2. QED
              BY <2>1 DEF Answered, Failed, Known, NoError
  <1>3. CASE GraceOver(b)
        BY <1>0, <1>3 DEF GraceOver, Types, Batch, Answered, Accounted
  <1>4. ASSUME NEW o \in Chunks(b), Acquire(b, o)
        PROVE  FALSE
        BY <1>4 DEF Acquire, Open, Answered
  <1>5. ASSUME NEW o \in Chunks(b), ProviderAnswers(b, o)
        PROVE  FALSE
        <2>1. Answered(b)
              BY <1>5 DEF ProviderAnswers, Answered, Direct, N
        <2>2. chunk[b][o].state \in Ended
              BY <2>1 DEF Exact
        <2>3. QED
              BY <1>5, <2>2 DEF ProviderAnswers, Ended
  <1>6. ASSUME NEW o \in Chunks(b), ReturnDirect(b, o)
        PROVE  FALSE
        BY <1>0, <1>6 DEF ReturnDirect, Types, Batch, Answered, Direct, N
  <1>7. ASSUME NEW o \in Chunks(b), Stop(b, o) \/ Drain(b, o)
        PROVE  FALSE
        <2>1. CASE Stop(b, o)
              <3>1. PICK result :
                      batch' = [batch EXCEPT ![b].phase = "draining", ![b].result = result]
                    BY <2>1 DEF Stop
              <3>2. batch'[b].phase = "draining"
                    BY <1>0, <3>1 DEF Types, Batch
              <3>3. QED
                    BY <3>2 DEF Answered
        <2>2. CASE Drain(b, o)
              BY <2>2 DEF Drain, Answered
        <2>3. QED
              BY <1>7, <2>1, <2>2
  <1>8. ASSUME NEW o \in Chunks(b), Collect(b, o)
        PROVE  Exact(b)'
        BY <1>8, ExactCollect
  <1>9. QED
        BY <1>1, <1>2, <1>3, <1>4, <1>5, <1>6, <1>7, <1>8 DEF Poll

LEMMA PlacedStep ==
  ASSUME Types, NEW b \in Batches, NoneLost(b), Placed(b),
         \/ Start(b) \/ Refuse(b) \/ Cancel(b) \/ Expire(b) \/ GraceOver(b) \/ Drop(b)
         \/ \E o \in Chunks(b) : Acquire(b, o) \/ ProviderAnswers(b, o) \/ Poll(b, o)
  PROVE  Placed(b)'
  BY InOrderStep, AccountedStep, ExactStep DEF Placed

LEMMA PlacedStays ==
  ASSUME NEW b \in Batches, Placed(b), batch'[b] = batch[b], chunk'[b] = chunk[b]
  PROVE  Placed(b)'
  <1>1. N(b)' = N(b) /\ Chunks(b)' = Chunks(b) /\ \A S : In(b, S)' = In(b, S)
        BY DEF N, Chunks, In
  <1>2. InOrder(b)' /\ Accounted(b)'
        BY <1>1 DEF Placed, InOrder, Accounted
  <1>3. Exact(b)'
        BY <1>1 DEF Placed, Exact, Answered, Direct, MadeFor, MadeOf
  <1>4. QED
        BY <1>2, <1>3 DEF Placed

-----------------------------------------------------------------------------
LEMMA InvInit == Init => IInv
  <1> SUFFICES ASSUME Init PROVE IInv
      OBVIOUS
  <1>1. Types
        BY TypeInit
  <1>2. \A b \in Batches : batch[b].phase = "new"
        BY DEF Init, NewBatch
  <1>3. \A b \in Batches : \A o \in Chunks(b) : chunk[b][o].state = "pending"
        BY DEF Init, Chunks, Pending
  <1>4. Holding = {}
        BY <1>3 DEF Holding, In, AtProvider
  <1>5. IsFiniteSet(Holding) /\ Cardinality(Holding) <= MaxParallel
        BY <1>4, FS_EmptySet
  <1>6. \A b \in Batches : NoneLost(b) /\ Honest(b)
        BY <1>2, <1>3 DEF NoneLost, Honest, StoppedAsKnown
  <1>7. ASSUME NEW b \in Batches PROVE Placed(b)
    <2>1. \A o \in Chunks(b) : chunk[b][o].answer.error = NoError
          BY DEF Init, Chunks, Pending, Failed
    <2>2. InOrder(b)
          BY <1>3 DEF InOrder, In, UnderWay
    <2>3. Accounted(b)
          BY <1>2, <1>3, <2>1 DEF Accounted, In, Empty
    <2>4. Exact(b)
          BY <1>2 DEF Exact, Answered
    <2>5. QED
          BY <2>2, <2>3, <2>4 DEF Placed
  <1>8. QED
        BY <1>1, <1>5, <1>6, <1>7 DEF IInv

LEMMA InvNext == IInv /\ [Next]_vars => IInv'
  <1> SUFFICES ASSUME IInv, [Next]_vars PROVE IInv'
      OBVIOUS
  <1> USE DEF IInv
  <1>1. Types'
        BY TypeNext
  <1>2. ASSUME NEW b \in Batches,
               \/ Start(b) \/ Refuse(b) \/ Cancel(b) \/ Expire(b) \/ GraceOver(b) \/ Drop(b)
               \/ \E o \in Chunks(b) : Acquire(b, o) \/ ProviderAnswers(b, o) \/ Poll(b, o)
        PROVE  IInv'
    <2>1. IsFiniteSet(Holding') /\ Cardinality(Holding') <= MaxParallel
      <3>1. CASE \E o \in Chunks(b) : Acquire(b, o)
            BY <3>1, PermitGranted
      <3>2. CASE Holding' \subseteq Holding
        <4>1. /\ IsFiniteSet(Holding') /\ Cardinality(Holding') <= Cardinality(Holding)
              BY <3>2, FS_Subset
        <4>2. Cardinality(Holding) \in Nat /\ Cardinality(Holding') \in Nat
              BY <4>1, FS_CardinalityType
        <4>3. QED
              BY <4>1, <4>2
      <3>3. QED
            BY <1>2, <3>1, <3>2, PermitsReturned
    <2>2. NoneLost(b)' /\ Honest(b)' /\ Placed(b)'
          BY <1>2, NoneLostStep, HonestStep, PlacedStep
    <2>3. ASSUME NEW c \in Batches, c # b
          PROVE  NoneLost(c)' /\ Honest(c)' /\ Placed(c)'
      <3>1. Moves(b)
            BY <1>2, BatchSteps, ChunkSteps
      <3>2. batch'[c] = batch[c] /\ chunk'[c] = chunk[c]
            BY <2>3, <3>1 DEF Moves, Types
      <3>3. NoneLost(c)' /\ Honest(c)'
            BY <3>2 DEF NoneLost, Honest, StoppedAsKnown, Active, In, Chunks
      <3>4. QED
            BY <3>2, <3>3, PlacedStays
    <2>4. QED
          BY <1>1, <2>1, <2>2, <2>3
  <1>3. CASE UNCHANGED vars
    <2>1. ASSUME NEW b \in Batches PROVE Placed(b)'
          BY <1>3, PlacedStays DEF vars
    <2>2. QED
          BY <1>1, <1>3, <2>1
          DEF vars, Holding, NoneLost, Honest, StoppedAsKnown, Active, In, Chunks
  <1>4. QED
        BY <1>2, <1>3 DEF Next

LEMMA Invariance == Spec => []IInv
  BY InvInit, InvNext, PTL DEF Spec

(* Every batch and chunk keeps its type, and no more provider calls run than *)
(* there are permits, however batches are cancelled, stopped and dropped.    *)
THEOREM TypeCorrect == Spec => []TypeOK
  <1>1. IInv => TypeOK
        BY DEF IInv, Types, TypeOK
  <1>2. QED
        BY <1>1, Invariance, PTL

(* A batch stopped at its first failure and reported as known has tried the  *)
(* provider with that one chunk at most, and was refused.                    *)
THEOREM StopIsTruthful == Spec => []TruthfulStop
  <1>1. IInv => TruthfulStop
        BY DEF IInv, Honest, TruthfulStop
  <1>2. QED
        BY <1>1, Invariance, PTL

(* A batch's response has every output asked for once, an image exactly      *)
(* where a provider call made one under the model it names (aggregate()),    *)
(* and the chunks of one conversation reach the provider in their order.     *)
THEOREM OutputsEndInPlace == Spec => []OutputsInPlace
  <1>1. ASSUME IInv PROVE OutputsExact
        BY <1>1 DEF IInv, Placed, Exact, Answered, MadeFor, MadeOf, OutputsExact
  <1>2. ASSUME IInv PROVE ConversationsInOrder
    <2>1. AtProvider \cup {"lost"} \subseteq UnderWay
          BY DEF AtProvider, UnderWay
    <2>2. QED
          BY <1>2, <2>1 DEF IInv, Placed, InOrder, In, Ended, ConversationsInOrder
  <1>3. IInv => OutputsInPlace
        BY <1>1, <1>2 DEF OutputsInPlace
  <1>4. QED
        BY <1>3, Invariance, PTL

-----------------------------------------------------------------------------
(***************************************************************************)
(* The images of a request.  What a hop was checked for is kept with it    *)
(* until its connection: a host and a port of the policy while it is       *)
(* resolved and connected, addresses that are allowed while it is          *)
(* resolved, the one address while it is connected.                        *)
(***************************************************************************)
LoadSteps == {"next", "resolved", "connected", "redirected", "body"}

WithinPolicy ==
  loading # Loaded =>
    /\ loading.step \in LoadSteps
    /\ loading.remote \in RemotePolicies
    /\ loading.total \in 0..MaxReferenceBytes
    /\ loading.step \in {"next", "resolved", "connected", "redirected"} =>
         loading.hop \in 0..loading.remote.redirects
    /\ loading.step # "next" => loading.remote.enabled
    /\ loading.step \in {"resolved", "connected"} => Allows(loading.remote, loading.url)
    /\ loading.step = "resolved" => Resolves(loading.remote, loading.found)
    /\ loading.step = "connected" => loading.remote.private \/ IsPublic(loading.to)
    /\ loading.step = "body" => loading.bytes \in 0..MaxEncodedBytes

(* What the policies and the limits are.                                     *)
LEMMA PolicyTypes ==
  /\ MaxEncodedBytes \in Nat /\ MaxReferenceBytes \in Nat
  /\ \A remote \in RemotePolicies :
       remote.redirects \in Nat /\ remote.enabled \in BOOLEAN /\ remote.private \in BOOLEAN
  BY InputsAssumption

LEMMA InitWithinPolicy ==
  ASSUME InputsInit
  PROVE  WithinPolicy
  <1>1. PICK remote \in RemotePolicies, images \in Images :
          loading = IF images = 0 THEN Loaded ELSE Between(remote, images, 0)
        BY DEF InputsInit
  <1>2. CASE images = 0
        BY <1>1, <1>2 DEF WithinPolicy
  <1>3. CASE images # 0
        BY <1>1, <1>3, PolicyTypes DEF WithinPolicy, Between, LoadSteps
  <1>4. QED
        BY <1>2, <1>3

(* An image that is kept leaves its total within the limit.                  *)
LEMMA KeepWithinPolicy ==
  ASSUME WithinPolicy, loading # Loaded, NEW bytes \in Int, Keep(bytes)
  PROVE  WithinPolicy'
  <1>1. loading' = Loaded \/ loading' = Between(loading.remote, loading.left - 1, loading.total + bytes)
        BY DEF Keep
  <1>2. CASE loading' = Loaded
        BY <1>2 DEF WithinPolicy, Loaded
  <1>3. CASE loading' = Between(loading.remote, loading.left - 1, loading.total + bytes)
    <2>1. loading.total + bytes \in 0..MaxReferenceBytes
          BY PolicyTypes DEF Keep, WithinPolicy
    <2>2. loading.remote \in RemotePolicies
          BY DEF WithinPolicy
    <2>3. QED
          BY <1>3, <2>1, <2>2, PolicyTypes DEF WithinPolicy, Between, LoadSteps
  <1>4. QED
        BY <1>1, <1>2, <1>3

(* When the images are there, or nobody waits for them, nothing is loaded.    *)
LEMMA LoadingStops ==
  ASSUME loading = Loaded
  PROVE  ~LoadStep
  <1>1. loading.step = "loaded"
        BY DEF Loaded
  <1>2. QED
        BY <1>1 DEF LoadStep, ReadFile, Decode, Resolve, Redirect, Body, BodyChunk, EndOfBody

(* Every step of the loading keeps to the policy; a refusal ends it.          *)
LEMMA LoadingWithinPolicy ==
  ASSUME WithinPolicy, LoadStep \/ LoadFails
  PROVE  WithinPolicy'
  <1>1. CASE LoadFails
        BY <1>1 DEF LoadFails, WithinPolicy
  <1>2. LoadStep => loading # Loaded
        BY LoadingStops
  <1>3. ASSUME NEW listed \in Sizes, NEW there \in Sizes, ReadFile(listed, there), loading # Loaded
        PROVE  WithinPolicy'
        BY <1>3, KeepWithinPolicy, PolicyTypes DEF ReadFile, Sizes
  <1>4. ASSUME NEW quads \in Sizes, NEW padding \in 0..2, Decode(quads, padding), loading # Loaded
        PROVE  WithinPolicy'
    <2>1. 3 * quads - padding \in Int
          BY PolicyTypes DEF Sizes
    <2>2. QED
          BY <1>4, <2>1, KeepWithinPolicy DEF Decode
  <1>5. ASSUME NEW url \in Url, NEW found \in SUBSET Addresses, Resolve(url, found), loading # Loaded
        PROVE  WithinPolicy'
    <2>1. /\ Allows(loading.remote, url) /\ Resolves(loading.remote, found)
          /\ loading.step \in {"next", "redirected"} /\ loading.remote.enabled
          BY <1>5 DEF Resolve, WithinPolicy
    <2>2. loading' = [step |-> "resolved", remote |-> loading.remote, left |-> loading.left,
                      total |-> loading.total, hop |-> loading.hop, url |-> url, found |-> found]
          BY <1>5 DEF Resolve
    <2>3. /\ loading'.step = "resolved" /\ loading'.remote = loading.remote
          /\ loading'.total = loading.total /\ loading'.hop = loading.hop
          /\ loading'.url = url /\ loading'.found = found
          BY <2>2
    <2>4. QED
          BY <1>5, <2>1, <2>3 DEF WithinPolicy, LoadSteps
  <1>6. ASSUME loading.step = "resolved", NEW address \in Targets, Connect(address), loading # Loaded
        PROVE  WithinPolicy'
    <2>1. loading.remote.private \/ IsPublic(address)
          BY <1>6 DEF WithinPolicy, Targets, Resolves
    <2>2. /\ loading'.step = "connected" /\ loading'.remote = loading.remote
          /\ loading'.total = loading.total /\ loading'.hop = loading.hop
          /\ loading'.url = loading.url /\ loading'.to = address
          BY <1>6 DEF Connect
    <2>3. QED
          BY <1>6, <2>1, <2>2 DEF WithinPolicy, LoadSteps
  <1>7. ASSUME NEW url \in Url, Redirect(url), loading # Loaded
        PROVE  WithinPolicy'
    <2>1. /\ loading.step = "connected" /\ loading.hop < loading.remote.redirects
          /\ loading'.step = "redirected" /\ loading'.remote = loading.remote
          /\ loading'.total = loading.total /\ loading'.hop = loading.hop + 1
          BY <1>7 DEF Redirect
    <2>2. loading.remote \in RemotePolicies /\ loading.hop \in 0..loading.remote.redirects
          BY <1>7, <2>1 DEF WithinPolicy
    <2>3. loading'.hop \in 0..loading'.remote.redirects
          BY <2>1, <2>2, PolicyTypes
    <2>4. QED
          BY <1>7, <2>1, <2>3 DEF WithinPolicy, LoadSteps
  <1>8. ASSUME Body, loading # Loaded
        PROVE  WithinPolicy'
    <2>1. /\ loading.step = "connected" /\ loading'.step = "body"
          /\ loading'.remote = loading.remote /\ loading'.total = loading.total
          /\ loading'.bytes = 0
          BY <1>8 DEF Body
    <2>2. QED
          BY <1>8, <2>1, PolicyTypes DEF WithinPolicy, LoadSteps
  <1>9. ASSUME EndOfBody, loading # Loaded
        PROVE  WithinPolicy'
        BY <1>9, KeepWithinPolicy DEF EndOfBody, WithinPolicy
  <1>10. ASSUME NEW bytes \in Sizes \ {0}, BodyChunk(bytes), loading # Loaded
         PROVE  WithinPolicy'
    <2>1. /\ loading.step = "body" /\ loading.bytes + bytes <= MaxEncodedBytes
          /\ loading' = [loading EXCEPT !.bytes = @ + bytes]
          BY <1>10 DEF BodyChunk
    <2>2. loading.bytes \in 0..MaxEncodedBytes
          BY <1>10, <2>1 DEF WithinPolicy
    <2>3. loading'.step = "body" /\ loading'.remote = loading.remote /\ loading'.total = loading.total
          BY <2>1
    <2>4. loading'.bytes \in 0..MaxEncodedBytes
          BY <2>1, <2>2, PolicyTypes DEF Sizes
    <2>5. QED
          BY <1>10, <2>1, <2>3, <2>4 DEF WithinPolicy, LoadSteps
  <1>11. QED
         BY <1>1, <1>2, <1>3, <1>4, <1>5, <1>6, <1>7, <1>8, <1>9, <1>10 DEF LoadStep

(* is_public_ip() refuses every range that its test names.                   *)
LEMMA PublicIsNotReserved ==
  ASSUME NEW address, IsPublic(address)
  PROVE  address \notin ReservedRanges
  <1>1. address.class \notin Special
        BY DEF IsPublic
  <1>2. address.version = 4 => address.class \notin SpecialOnV4
        BY DEF IsPublic
  <1>3. SUFFICES ASSUME address \in ReservedRanges PROVE FALSE
        OBVIOUS
  <1>4. \/ address.version = 4 /\ address.class \in Special \cup SpecialOnV4
        \/ address.version = 6 /\ address.class \in Special
        BY <1>3 DEF ReservedRanges, Special, SpecialOnV4
  <1>5. QED
        BY <1>1, <1>2, <1>4

LEMMA PolicyIsKept ==
  ASSUME WithinPolicy
  PROVE  InputsWithinPolicy
  <1>1. CASE loading = Loaded
        BY <1>1 DEF InputsWithinPolicy, Loaded
  <1>2. CASE loading # Loaded
    <2>1. loading.remote \in RemotePolicies
          BY <1>2 DEF WithinPolicy
    <2>2. loading.total <= MaxReferenceBytes
          BY <1>2, PolicyTypes DEF WithinPolicy
    <2>3. loading.step = "connected" => loading.hop <= loading.remote.redirects
          BY <1>2, <2>1, PolicyTypes DEF WithinPolicy
    <2>4. loading.step = "body" => loading.bytes <= MaxEncodedBytes
          BY <1>2, PolicyTypes DEF WithinPolicy
    <2>5. loading.step = "connected" /\ ~loading.remote.private =>
            IsPublic(loading.to) /\ loading.to \notin ReservedRanges
          BY <1>2, PublicIsNotReserved DEF WithinPolicy
    <2>6. QED
          BY <1>2, <2>2, <2>3, <2>4, <2>5 DEF WithinPolicy, InputsWithinPolicy
  <1>3. QED
        BY <1>1, <1>2

(***************************************************************************)
(* The calls.  A call that is asked again was told by the upstream that    *)
(* nothing came of the attempt before; a call has a result exactly when it *)
(* is over; an output whose call is not dispatched was not worked on, and  *)
(* before the images are there that is so of all of them.  While a batch   *)
(* that fails fast goes on none of its calls has failed, so that the       *)
(* result it stops for is the first failure.                               *)
(***************************************************************************)
CallSteps  == {"ready", "sending", "streaming", "forwarding", "pausing", "again", "done"}
Verdicts   == {None, "undispatched", "status", "lost", "broken", "declared"}
CallStates == [step : CallSteps, attempt : 1..MaxAttempts, sent : 0..MaxPreviews, verdict : Verdicts]
CallErrors == [code : ErrorCode, unknown : BOOLEAN, retryable : BOOLEAN]

PreviewEvents == [kind : {"preview"}, output : Outputs, number : 1..MaxPreviews]

CallsTyped ==
  /\ policy \in {"fail_fast", "best_effort"} /\ parallel \in 1..Cardinality(Outputs)
  /\ call \in [Outputs -> CallStates] /\ results \in [Outputs -> Results]
  /\ worked \in SUBSET Outputs
  /\ elapsed \in BOOLEAN /\ cancelled \in BOOLEAN
  /\ run \in {"running", "grace", "returned", "dropped"} /\ answer \in Results
  /\ channel \in Seq(PreviewEvents) /\ Len(channel) <= Room

SoundCall(c) ==
  /\ c.step \in {"pausing", "again"} \/ (c.step # "done" /\ c.attempt > 1) =>
       c.verdict \in {"status", "declared"}
  /\ c.step = "pausing" => c.attempt < MaxAttempts
  /\ c.step = "forwarding" => c.sent < MaxPreviews

SoundOutput(o) ==
  /\ SoundCall(call[o])
  /\ Polled => (call[o].step = "done" <=> results[o] # None)
  /\ call[o].step = "ready" => o \notin worked

LoadingFirst ==
  loading # Loaded => Polled /\ \A o \in Outputs : call[o].step = "ready"

NoFailureYet == policy = "fail_fast" /\ Polled => \A o \in Outputs : results[o] \in {None, Made}

CallsInv ==
  /\ CallsTyped /\ Cardinality(InFlight) <= parallel
  /\ \A o \in Outputs : SoundOutput(o)
  /\ LoadingFirst /\ NoFailureYet /\ FailFastTruthful

LEMMA CallBounds ==
  /\ IsFiniteSet(Outputs) /\ Outputs # {} /\ Outputs \subseteq Nat
  /\ MaxAttempts \in Nat \ {0} /\ MaxPreviews \in Nat \ {0} /\ Room \in Nat \ {0}
  /\ Cardinality(Outputs) \in Nat
  BY ResponsesAssumption, FS_CardinalityType

(* An error is neither nothing nor an image, and what is neither is an error. *)
LEMMA ErrorsAreErrors ==
  /\ None # Made
  /\ \A error \in CallErrors : IsError(error)
  /\ \A result \in Results : IsError(result) <=> result \in CallErrors
  <1> DEFINE records == [code : ErrorCode \cup {"image"}, unknown : BOOLEAN, retryable : BOOLEAN]
  <1>0. Made \in records /\ CallErrors \subseteq records
        BY DEF CallErrors, Made, Permanent
  <1>1. None \notin CallErrors /\ None # Made
        BY <1>0, ResponsesAssumption
  <1>2. "image" \notin ErrorCode
        BY DEF ErrorCode
  <1>3. Made \notin CallErrors
        BY <1>2 DEF Made, Permanent, CallErrors
  <1>4. Results = {None, Made} \cup CallErrors
        BY DEF Results, CallErrors
  <1>5. QED
        BY <1>1, <1>3, <1>4 DEF IsError

LEMMA TheErrors ==
  /\ \A code \in ErrorCode : Permanent(code) \in CallErrors /\ ~SafeTransientRetry(Permanent(code))
  /\ \A code \in ErrorCode : Lost(code) \in CallErrors /\ ~SafeTransientRetry(Lost(code))
                             /\ Lost(code).unknown = TRUE
  /\ Transient("upstream") \in CallErrors
  /\ DeclaredErrors \subseteq CallErrors
  /\ {"timeout", "upstream", "cancelled", "authentication", "protocol", "input", "safety_rejected"}
       \subseteq ErrorCode
  BY DEF Permanent, Lost, Transient, SafeTransientRetry, DeclaredErrors, CallErrors, ErrorCode

(* What a stream may come to.  An error that may be retried was declared.    *)
LEMMA FinishTyped ==
  ASSUME NEW state \in EventState
  PROVE  /\ Finish(state) = Made \/ Finish(state) \in CallErrors
         /\ state.failure = None /\ ~state.completed => ~SafeTransientRetry(Finish(state))
  <1>1. state.failure \in {None} \cup DeclaredErrors
        BY DEF EventState
  <1>2. CASE state.failure # None
        BY <1>1, <1>2, TheErrors DEF Finish
  <1>3. CASE state.failure = None /\ ~state.completed
        BY <1>3, TheErrors DEF Finish
  <1>4. CASE state.failure = None /\ state.completed /\ state.image
        BY <1>4 DEF Finish
  <1>5. CASE state.failure = None /\ state.completed /\ ~state.image /\ state.refused
        BY <1>5, TheErrors DEF Finish
  <1>6. CASE state.failure = None /\ state.completed /\ ~state.image /\ ~state.refused
        BY <1>6, TheErrors DEF Finish
  <1>7. QED
        BY <1>2, <1>3, <1>4, <1>5, <1>6

(* The runtime answers with a result or an error; an unknown outcome stays   *)
(* one, and an error that came before its deadline stays the error it was.   *)
LEMMA ReturnTyped ==
  ASSUME NEW result \in Results, Return(result)
  PROVE  /\ run' = "returned" /\ answer' \in Results
         /\ result = Made => answer' = Made
         /\ result \in CallErrors /\ result.unknown => answer'.unknown
  <1>1. run' = "returned"
        BY DEF Return
  <1>2. CASE ~IsError(result)
    <2>1. answer' = result /\ result \notin CallErrors
          BY <1>2, ErrorsAreErrors DEF Return
    <2>2. QED
          BY <1>1, <2>1
  <1>3. CASE IsError(result) /\ run = "running"
    <2>1. result \in CallErrors /\ result # Made
          BY <1>3, ErrorsAreErrors DEF IsError
    <2>2. answer' = Classified(result)
          BY <1>3 DEF Return
    <2>3. Ambiguous(result) \in BOOLEAN /\ (result.unknown => Ambiguous(result))
          BY <2>1 DEF Ambiguous, CallErrors
    <2>4. Classified(result) \in CallErrors /\ Classified(result).unknown = Ambiguous(result)
          BY <2>1, <2>3 DEF Classified, CallErrors
    <2>5. QED
          BY <1>1, <2>1, <2>2, <2>3, <2>4 DEF Results, CallErrors
  <1>4. CASE IsError(result) /\ run # "running"
    <2>1. result \in CallErrors /\ result # Made
          BY <1>4, ErrorsAreErrors DEF IsError
    <2>2. answer' = IF result.code \in {"timeout", "cancelled"} THEN Lost(result.code) ELSE result
          BY <1>4 DEF Return
    <2>3. result.code \in {"timeout", "cancelled"} =>
            Lost(result.code) \in CallErrors /\ Lost(result.code).unknown = TRUE
          BY <2>1, TheErrors DEF CallErrors
    <2>4. QED
          BY <1>1, <2>1, <2>2, <2>3 DEF Results, CallErrors
  <1>5. QED
        BY <1>2, <1>3, <1>4

(* Sets of calls, and calls that are over.                                   *)
LEMMA AtMostOne ==
  ASSUME NEW S, IsFiniteSet(S), Cardinality(S) <= 1, NEW x \in S, NEW y \in S
  PROVE  x = y
  <1>1. IsFiniteSet(S \ {x}) /\ Cardinality(S \ {x}) = Cardinality(S) - 1
        BY FS_RemoveElement
  <1>2. Cardinality(S) \in Nat /\ Cardinality(S \ {x}) \in Nat
        BY <1>1, FS_CardinalityType
  <1>3. Cardinality(S \ {x}) = 0
        BY <1>1, <1>2
  <1>4. S \ {x} = {}
        BY <1>1, <1>3, FS_EmptySet
  <1>5. QED
        BY <1>4

LEMMA InFlightFinite ==
  /\ IsFiniteSet(InFlight) /\ Cardinality(InFlight) \in Nat
  /\ \A S \in SUBSET InFlight : IsFiniteSet(S) /\ Cardinality(S) <= Cardinality(InFlight)
  <1>1. InFlight \in SUBSET Outputs
        BY DEF InFlight
  <1>2. IsFiniteSet(InFlight)
        BY <1>1, CallBounds, FS_Subset
  <1>3. QED
        BY <1>2, FS_Subset, FS_CardinalityType

(* Calls that are over have sent what they had sent.                         *)
LEMMA OverTyped ==
  ASSUME CallsTyped, NEW os \in SUBSET Outputs
  PROVE  /\ Over(os) \in [Outputs -> CallStates]
         /\ \A p \in Outputs :
              /\ Over(os)[p].sent = call[p].sent
              /\ p \in os => Over(os)[p].step = "done" /\ SoundCall(Over(os)[p])
              /\ p \notin os => Over(os)[p] = call[p]
  <1> DEFINE gone(p) == [Idle EXCEPT !.step = "done", !.sent = call[p].sent]
  <1>1. ASSUME NEW p \in Outputs
        PROVE  /\ gone(p) \in CallStates
               /\ gone(p).step = "done" /\ gone(p).sent = call[p].sent /\ SoundCall(gone(p))
    <2>1. call[p].sent \in 0..MaxPreviews
          BY DEF CallsTyped, CallStates
    <2>2. Idle \in CallStates
          BY CallBounds DEF Idle, CallStates, CallSteps, Verdicts
    <2>3. gone(p) \in CallStates /\ gone(p).step = "done" /\ gone(p).sent = call[p].sent
          BY <2>1, <2>2 DEF CallStates, CallSteps
    <2>4. QED
          BY <2>3 DEF SoundCall
  <1>2. \A p \in Outputs : call[p] \in CallStates
        BY DEF CallsTyped
  <1>3. Over(os) = [p \in Outputs |-> IF p \in os THEN gone(p) ELSE call[p]]
        BY DEF Over
  <1> HIDE DEF gone
  <1>4. QED
        BY <1>1, <1>2, <1>3

(* What the end of an output does: to its call, its result, and the batch.   *)
LEMMA EndEffect ==
  ASSUME CallsTyped, NEW o \in Outputs, NEW result \in Results \ {None}, End(o, result)
  PROVE  /\ results' = [results EXCEPT ![o] = result] /\ results' \in [Outputs -> Results]
         /\ call' \in [Outputs -> CallStates]
         /\ \A p \in Outputs :
              /\ call'[p].sent = call[p].sent
              /\ \/ call'[p].step = "done" /\ SoundCall(call'[p])
                 \/ p # o /\ call'[p] = call[p]
         /\ \/ run' = "returned" /\ answer' \in Results
            \/ /\ UNCHANGED <<run, answer>> /\ ~Stops(result)
               /\ \A p \in Outputs \ {o} : call'[p] = call[p]
  <1> DEFINE all == [results EXCEPT ![o] = result]
             os  == IF Stops(result) THEN Outputs ELSE {o}
             known == IF MayHaveSibling THEN [result EXCEPT !.unknown = TRUE, !.retryable = FALSE]
                      ELSE result
  <1>1. /\ results' = all /\ call' = Over(os)
        /\ IF Stops(result) THEN Return(known)
           ELSE IF None \in {all[p] : p \in Outputs} THEN UNCHANGED <<run, answer>>
           ELSE Assemble(all)
        BY DEF End
  <1>2. all \in [Outputs -> Results]
        BY DEF CallsTyped
  <1>3. os \in SUBSET Outputs /\ o \in os
        OBVIOUS
  <1>4. /\ Over(os) \in [Outputs -> CallStates]
        /\ \A p \in Outputs :
              /\ Over(os)[p].sent = call[p].sent
              /\ p \in os => Over(os)[p].step = "done" /\ SoundCall(Over(os)[p])
              /\ p \notin os => Over(os)[p] = call[p]
        BY <1>3, OverTyped
  <1>5. ASSUME Stops(result)
        PROVE  run' = "returned" /\ answer' \in Results
    <2>1. result \in CallErrors
          BY <1>5, ErrorsAreErrors DEF Stops
    <2>2. known \in Results
          BY <2>1 DEF Results, CallErrors
    <2>3. QED
          BY <1>1, <1>5, <2>2, ReturnTyped
  <1>6. ASSUME ~Stops(result), None \notin {all[p] : p \in Outputs}
        PROVE  run' = "returned" /\ answer' \in Results
    <2>1. Assemble(all)
          BY <1>1, <1>6
    <2>2. CASE \E p \in Outputs : all[p] = Made
      <3>1. PICK missing \in BOOLEAN : Return(IF missing THEN Permanent("upstream") ELSE Made)
            BY <2>1, <2>2 DEF Assemble
      <3>2. Permanent("upstream") \in Results /\ Made \in Results
            BY TheErrors DEF Results, CallErrors
      <3>3. QED
            BY <3>1, <3>2, ReturnTyped
    <2>3. CASE ~\E p \in Outputs : all[p] = Made
      <3> DEFINE first == CHOOSE p \in Outputs : \A q \in Outputs : p <= q
      <3>1. Return(all[first])
            BY <2>1, <2>3 DEF Assemble
      <3>2. first \in Outputs
            BY CallBounds, MinIsOne DEF Min
      <3> HIDE DEF first
      <3>3. all[first] \in Results
            BY <1>2, <3>2
      <3>4. QED
            BY <3>1, <3>3, ReturnTyped
    <2>4. QED
          BY <2>2, <2>3
  <1>7. ~Stops(result) /\ None \in {all[p] : p \in Outputs} => UNCHANGED <<run, answer>>
        BY <1>1
  <1>8. ~Stops(result) => \A p \in Outputs \ {o} : call'[p] = call[p]
        BY <1>1, <1>4
  <1>9. \A p \in Outputs : /\ call'[p].sent = call[p].sent
                           /\ \/ call'[p].step = "done" /\ SoundCall(call'[p])
                              \/ p # o /\ call'[p] = call[p]
        BY <1>1, <1>3, <1>4
  <1> HIDE DEF os, known
  <1>10. QED
         BY <1>1, <1>2, <1>4, <1>5, <1>6, <1>7, <1>8, <1>9

(***************************************************************************)
(* A step of one call: within an attempt, to the pause before the next, or *)
(* to its end.                                                             *)
(***************************************************************************)
GoesOn(o) ==
  \E new \in CallStates :
    /\ SoundCall(new) /\ new.step \notin {"ready", "done"}
    /\ call' = [call EXCEPT ![o] = new]
    /\ \/ channel' = channel /\ new.sent = call[o].sent
       \/ channel' = Append(channel, Preview(o)) /\ Len(channel) < Room /\ new.sent = call[o].sent + 1
    /\ UNCHANGED <<results, run, answer>>

Ends(o) == UNCHANGED channel /\ \E result \in Results \ {None} : End(o, result)

Acts(o) ==
  /\ Polled /\ loading = Loaded /\ Others
  /\ call[o].step # "done"
  /\ call[o].step = "ready" => Cardinality(InFlight) < parallel /\ UNCHANGED worked
  /\ worked' \in {worked, worked \cup {o}}
  /\ GoesOn(o) \/ Ends(o)

(* A failed attempt that is repeated was declared to be over.                *)
LEMMA FailActs ==
  ASSUME CallsInv, NEW o \in Outputs, NEW error \in CallErrors, NEW verdict \in Verdicts,
         SafeTransientRetry(error) => verdict \in {"status", "declared"},
         Fail(o, error, verdict), UNCHANGED channel
  PROVE  GoesOn(o) \/ Ends(o)
  <1>1. CASE End(o, error)
    <2>1. error \in Results \ {None}
          BY ErrorsAreErrors DEF Results, CallErrors, IsError
    <2>2. QED
          BY <1>1, <2>1 DEF Ends
  <1>2. CASE ~End(o, error)
    <2> DEFINE new == [call[o] EXCEPT !.step = "pausing", !.verdict = verdict]
    <2>1. /\ SafeTransientRetry(error) /\ call[o].attempt < MaxAttempts
          /\ call' = [call EXCEPT ![o].step = "pausing", ![o].verdict = verdict]
          /\ UNCHANGED <<results, run, answer>>
          BY <1>2 DEF Fail
    <2>2. call[o] \in CallStates /\ call \in [Outputs -> CallStates]
          BY DEF CallsInv, CallsTyped
    <2>3. /\ new \in CallStates /\ new.step = "pausing" /\ new.sent = call[o].sent
          /\ new.attempt = call[o].attempt /\ new.verdict = verdict
          BY <2>2 DEF CallStates, CallSteps
    <2>4. call' = [call EXCEPT ![o] = new]
          BY <2>1, <2>2
    <2>5. SoundCall(new)
          BY <2>1, <2>3 DEF SoundCall
    <2> HIDE DEF new
    <2>6. QED
          BY <2>1, <2>3, <2>4, <2>5 DEF GoesOn
  <1>3. QED
        BY <1>1, <1>2

(* The next step of an attempt that has not failed.                          *)
LEMMA StepActs ==
  ASSUME CallsInv, NEW o \in Outputs, NEW step \in {"sending", "streaming", "forwarding"},
         call[o].step \in {"ready", "again", "sending", "streaming"},
         step = "forwarding" => call[o].sent < MaxPreviews,
         call' = [call EXCEPT ![o].step = step],
         UNCHANGED <<results, run, answer, channel>>
  PROVE  GoesOn(o)
  <1> DEFINE new == [call[o] EXCEPT !.step = step]
  <1>1. call[o] \in CallStates /\ call \in [Outputs -> CallStates] /\ SoundCall(call[o])
        BY DEF CallsInv, CallsTyped, SoundOutput
  <1>2. /\ new \in CallStates /\ new.step = step /\ new.sent = call[o].sent
        /\ new.attempt = call[o].attempt /\ new.verdict = call[o].verdict
        BY <1>1 DEF CallStates, CallSteps
  <1>3. call' = [call EXCEPT ![o] = new]
        BY <1>1
  <1>4. SoundCall(new)
        BY <1>1, <1>2 DEF SoundCall
  <1> HIDE DEF new
  <1>5. QED
        BY <1>2, <1>3, <1>4 DEF GoesOn

(* A preview goes into the channel.                                          *)
LEMMA PreviewActs ==
  ASSUME CallsInv, NEW o \in Outputs,
         call[o].step \in {"streaming", "forwarding"}, call[o].sent < MaxPreviews,
         Len(channel) < Room, channel' = Append(channel, Preview(o)),
         \/ call' = [call EXCEPT ![o].sent = @ + 1] /\ call[o].step = "streaming"
         \/ call' = [call EXCEPT ![o].step = "streaming", ![o].sent = @ + 1],
         UNCHANGED <<results, run, answer>>
  PROVE  GoesOn(o)
  <1> DEFINE new == [call[o] EXCEPT !.step = "streaming", !.sent = @ + 1]
  <1>1. call[o] \in CallStates /\ call \in [Outputs -> CallStates] /\ SoundCall(call[o])
        BY DEF CallsInv, CallsTyped, SoundOutput
  <1>2. call[o].sent + 1 \in 0..MaxPreviews
    <2>1. PICK n \in 0..MaxPreviews : n = call[o].sent
          BY <1>1 DEF CallStates
    <2>2. n < MaxPreviews /\ MaxPreviews \in Nat
          BY <2>1, CallBounds
    <2>3. n + 1 \in 0..MaxPreviews
          BY ONLY <2>2, n \in 0..MaxPreviews
    <2>4. QED
          BY <2>1, <2>3
  <1>3. /\ new \in CallStates /\ new.step = "streaming" /\ new.sent = call[o].sent + 1
        /\ new.attempt = call[o].attempt /\ new.verdict = call[o].verdict
        BY <1>1, <1>2 DEF CallStates, CallSteps
  <1>4. call' = [call EXCEPT ![o] = new]
    <2>1. CASE call' = [call EXCEPT ![o].step = "streaming", ![o].sent = @ + 1]
          BY <1>1, <2>1
    <2>2. CASE call' = [call EXCEPT ![o].sent = @ + 1] /\ call[o].step = "streaming"
      <3>1. [call[o] EXCEPT !.sent = @ + 1] = new
            BY <1>1, <2>2 DEF CallStates
      <3>2. QED
            BY <1>1, <2>2, <3>1
    <2>3. QED
          BY <2>1, <2>2
  <1>5. SoundCall(new)
        BY <1>1, <1>3 DEF SoundCall
  <1> HIDE DEF new
  <1>6. QED
        BY <1>3, <1>4, <1>5 DEF GoesOn

LEMMA EachCallActs ==
  ASSUME CallsInv, NEW o \in Outputs,
         \/ Dispatch(o) \/ Headers(o) \/ Partial(o) \/ Forward(o) \/ Garbled(o) \/ Eof(o)
         \/ Break(o) \/ Pause(o)
  PROVE  Acts(o)
  <1>1. call[o].step # "ready" => loading = Loaded
        BY DEF CallsInv, LoadingFirst
  <1>2. Permanent("timeout") \in CallErrors /\ Permanent("authentication") \in CallErrors
        /\ Permanent("cancelled") \in CallErrors /\ Permanent("protocol") \in CallErrors
        /\ ~SafeTransientRetry(Permanent("timeout")) /\ ~SafeTransientRetry(Permanent("authentication"))
        /\ ~SafeTransientRetry(Permanent("cancelled")) /\ ~SafeTransientRetry(Permanent("protocol"))
        BY TheErrors
  <1>3. \A code \in {"timeout", "upstream", "cancelled"} :
          Lost(code) \in CallErrors /\ ~SafeTransientRetry(Lost(code))
        BY TheErrors
  <1>4. {"undispatched", "status", "lost", "broken", "declared"} \subseteq Verdicts
        BY DEF Verdicts
  <1>5. CASE Dispatch(o)
    <2>1. Polled /\ loading = Loaded /\ Others /\ call[o].step \in {"again", "ready"}
          /\ UNCHANGED worked /\ UNCHANGED channel
          /\ (call[o].step = "ready" => Cardinality(InFlight) < parallel)
          BY <1>5 DEF Dispatch
    <2>2. \/ Fail(o, Permanent("timeout"), "undispatched")
          \/ Fail(o, Permanent("authentication"), "undispatched")
          \/ call' = [call EXCEPT ![o].step = "sending"] /\ UNCHANGED <<results, run, answer>>
          BY <1>5 DEF Dispatch
    <2>3. GoesOn(o) \/ Ends(o)
          BY <1>2, <1>4, <2>1, <2>2, FailActs, StepActs
    <2>4. QED
          BY <2>1, <2>3 DEF Acts
  <1>6. CASE Headers(o)
    <2>1. Polled /\ Others /\ call[o].step = "sending" /\ UNCHANGED channel
          /\ worked' \in {worked, worked \cup {o}}
          BY <1>6 DEF Headers
    <2>2. \/ call' = [call EXCEPT ![o].step = "streaming"] /\ UNCHANGED <<results, run, answer>>
          \/ \E error \in DeclaredErrors : Fail(o, error, "status")
          \/ \E code \in {"timeout", "upstream"} : Fail(o, Lost(code), "lost")
          \/ Fail(o, Permanent("cancelled"), "lost")
          BY <1>6 DEF Headers
    <2>3. GoesOn(o) \/ Ends(o)
          BY <1>2, <1>3, <1>4, <2>1, <2>2, FailActs, StepActs, TheErrors
    <2>4. QED
          BY <1>1, <2>1, <2>3 DEF Acts
  <1>7. CASE Partial(o)
    <2>1. Polled /\ Others /\ call[o].step = "streaming" /\ UNCHANGED worked
          BY <1>7 DEF Partial, Streams
    <2>2. GoesOn(o)
      <3>1. CASE Len(channel) < Room
            BY <1>7, <2>1, <3>1, PreviewActs DEF Partial
      <3>2. CASE ~(Len(channel) < Room)
            BY <1>7, <2>1, <3>2, StepActs DEF Partial
      <3>3. QED
            BY <3>1, <3>2
    <2>3. QED
          BY <1>1, <2>1, <2>2 DEF Acts
  <1>8. CASE Forward(o)
    <2>1. Polled /\ Others /\ call[o].step = "forwarding" /\ UNCHANGED worked
          BY <1>8 DEF Forward
    <2>2. call[o].sent < MaxPreviews
          BY <2>1 DEF CallsInv, SoundOutput, SoundCall
    <2>3. GoesOn(o)
          BY <1>8, <2>1, <2>2, PreviewActs DEF Forward
    <2>4. QED
          BY <1>1, <2>1, <2>3 DEF Acts
  <1>9. CASE Garbled(o)
    <2>1. Polled /\ Others /\ call[o].step = "streaming" /\ UNCHANGED worked /\ UNCHANGED channel
          BY <1>9 DEF Garbled, Streams
    <2>2. GoesOn(o) \/ Ends(o)
          BY <1>2, <1>4, <1>9, <2>1, FailActs DEF Garbled
    <2>3. QED
          BY <1>1, <2>1, <2>2 DEF Acts
  <1>10. CASE Eof(o)
    <2>1. Polled /\ Others /\ call[o].step = "streaming" /\ UNCHANGED worked /\ UNCHANGED channel
          BY <1>10 DEF Eof, Streams
    <2>2. PICK state \in EventState :
            IF Finish(state) = Made THEN End(o, Made) \/ End(o, Permanent("protocol"))
            ELSE Fail(o, Finish(state), IF state.failure # None \/ state.completed
                                        THEN "declared" ELSE "broken")
          BY <1>10 DEF Eof
    <2>3. CASE Finish(state) = Made
      <3>1. Made \in Results \ {None} /\ Permanent("protocol") \in Results \ {None}
            BY <1>2, ErrorsAreErrors DEF Results, CallErrors, IsError
      <3>2. Ends(o)
            BY <2>1, <2>2, <2>3, <3>1 DEF Ends
      <3>3. QED
            BY <1>1, <2>1, <3>2 DEF Acts
    <2>4. CASE Finish(state) # Made
      <3> DEFINE verdict == IF state.failure # None \/ state.completed THEN "declared" ELSE "broken"
      <3>1. Finish(state) \in CallErrors
            BY <2>4, FinishTyped
      <3>2. SafeTransientRetry(Finish(state)) => verdict \in {"status", "declared"}
            BY FinishTyped
      <3>3. verdict \in Verdicts
            BY <1>4
      <3>4. Fail(o, Finish(state), verdict)
            BY <2>2, <2>4
      <3> HIDE DEF verdict
      <3>5. GoesOn(o) \/ Ends(o)
            BY <2>1, <3>1, <3>2, <3>3, <3>4, FailActs
      <3>6. QED
            BY <1>1, <2>1, <3>5 DEF Acts
    <2>5. QED
          BY <2>3, <2>4
  <1>11. CASE Break(o)
    <2>1. Polled /\ Others /\ call[o].step = "streaming" /\ UNCHANGED worked /\ UNCHANGED channel
          BY <1>11 DEF Break, Streams
    <2>2. \E code \in {"timeout", "upstream", "cancelled"} : Fail(o, Lost(code), "lost")
          BY <1>11 DEF Break
    <2>3. GoesOn(o) \/ Ends(o)
          BY <1>3, <1>4, <2>1, <2>2, FailActs
    <2>4. QED
          BY <1>1, <2>1, <2>3 DEF Acts
  <1>12. CASE Pause(o)
    <2>1. Polled /\ Others /\ call[o].step = "pausing" /\ UNCHANGED worked /\ UNCHANGED channel
          BY <1>12 DEF Pause
    <2>2. CASE End(o, Permanent("cancelled"))
      <3>1. Permanent("cancelled") \in Results \ {None}
            BY <1>2, ErrorsAreErrors DEF Results, CallErrors, IsError
      <3>2. Ends(o)
            BY <2>1, <2>2, <3>1 DEF Ends
      <3>3. QED
            BY <1>1, <2>1, <3>2 DEF Acts
    <2>3. CASE ~End(o, Permanent("cancelled"))
      <3> DEFINE new == [call[o] EXCEPT !.step = "again", !.attempt = @ + 1]
      <3>1. /\ call' = [call EXCEPT ![o].step = "again", ![o].attempt = @ + 1]
            /\ UNCHANGED <<results, run, answer>>
            BY <1>12, <2>3 DEF Pause
      <3>2. call[o] \in CallStates /\ call \in [Outputs -> CallStates] /\ SoundCall(call[o])
            BY DEF CallsInv, CallsTyped, SoundOutput
      <3>3. call[o].attempt + 1 \in 1..MaxAttempts
            BY <2>1, <3>2, CallBounds DEF CallStates, SoundCall
      <3>4. /\ new \in CallStates /\ new.step = "again" /\ new.sent = call[o].sent
            /\ new.verdict = call[o].verdict
            BY <3>2, <3>3 DEF CallStates, CallSteps
      <3>5. call' = [call EXCEPT ![o] = new]
            BY <3>1, <3>2
      <3>6. SoundCall(new)
            BY <2>1, <3>2, <3>4 DEF SoundCall
      <3> HIDE DEF new
      <3>7. GoesOn(o)
            BY <2>1, <3>1, <3>4, <3>5, <3>6 DEF GoesOn
      <3>8. QED
            BY <1>1, <2>1, <3>7 DEF Acts
    <2>4. QED
          BY <2>2, <2>3
  <1>13. QED
         BY <1>5, <1>6, <1>7, <1>8, <1>9, <1>10, <1>11, <1>12

(* An output keeps what is said of it, whether its call goes on or ends.     *)
LEMMA PreviewTyped ==
  ASSUME NEW o \in Outputs, NEW number \in 1..MaxPreviews
  PROVE  Event("preview", o, number) \in PreviewEvents
  BY DEF Event, PreviewEvents

LEMMA GoesOnKeepsCalls ==
  ASSUME CallsInv, NEW o \in Outputs, Acts(o), GoesOn(o)
  PROVE  CallsInv'
  <1>1. PICK new \in CallStates :
          /\ SoundCall(new) /\ new.step \notin {"ready", "done"}
          /\ call' = [call EXCEPT ![o] = new]
          /\ \/ channel' = channel /\ new.sent = call[o].sent
             \/ channel' = Append(channel, Preview(o)) /\ Len(channel) < Room /\ new.sent = call[o].sent + 1
          /\ UNCHANGED <<results, run, answer>>
        BY DEF GoesOn
  <1>2. /\ Polled /\ loading = Loaded /\ loading' = loading /\ call[o].step # "done"
        /\ UNCHANGED <<policy, parallel, elapsed, cancelled>>
        /\ worked' \in {worked, worked \cup {o}}
        /\ (call[o].step = "ready" => Cardinality(InFlight) < parallel)
        BY DEF Acts, Others
  <1>3. call \in [Outputs -> CallStates] /\ call[o] \in CallStates
        BY DEF CallsInv, CallsTyped
  <1>4. /\ call' \in [Outputs -> CallStates] /\ call'[o] = new
        /\ \A p \in Outputs \ {o} : call'[p] = call[p]
        BY <1>1, <1>3
  <1>5. channel' \in Seq(PreviewEvents) /\ Len(channel') <= Room
    <2>1. channel \in Seq(PreviewEvents) /\ Len(channel) <= Room
          BY DEF CallsInv, CallsTyped
    <2>2. CASE channel' = channel
          BY <2>1, <2>2
    <2>3. CASE channel' = Append(channel, Preview(o)) /\ Len(channel) < Room /\ new.sent = call[o].sent + 1
      <3>1. call[o].sent + 1 \in 1..MaxPreviews
            BY <1>3, <2>3, CallBounds DEF CallStates
      <3>2. Preview(o) \in PreviewEvents
            BY <3>1, PreviewTyped DEF Preview
      <3>3. channel' \in Seq(PreviewEvents) /\ Len(channel') = Len(channel) + 1
            BY <2>1, <2>3, <3>2, AppendProperties
      <3>4. Len(channel) \in Nat
            BY <2>1, LenProperties
      <3>5. QED
            BY <2>3, <3>3, <3>4, CallBounds
    <2>4. QED
          BY <1>1, <2>2, <2>3
  <1>6. CallsTyped'
        BY <1>1, <1>2, <1>4, <1>5 DEF CallsInv, CallsTyped
  <1>7. Cardinality(InFlight') <= parallel'
    <2>1. InFlight' = InFlight \cup {o}
          BY <1>1, <1>4 DEF InFlight
    <2>2. parallel \in Nat /\ Cardinality(InFlight) <= parallel
          BY CallBounds DEF CallsInv, CallsTyped
    <2>3. CASE o \in InFlight
      <3>1. InFlight' = InFlight
            BY <2>1, <2>3
      <3>2. QED
            BY <1>2, <2>2, <3>1
    <2>4. CASE o \notin InFlight
      <3>1. call[o].step = "ready"
            BY <1>2, <2>4 DEF InFlight
      <3>2. Cardinality(InFlight \cup {o}) = Cardinality(InFlight) + 1
            BY <2>4, InFlightFinite, FS_AddElement
      <3>3. QED
            BY <1>2, <2>1, <2>2, <3>1, <3>2, InFlightFinite
    <2>5. QED
          BY <2>3, <2>4
  <1>8. \A p \in Outputs : SoundOutput(p)'
    <2>1. ASSUME NEW p \in Outputs \ {o}
          PROVE  SoundOutput(p)'
          BY <1>1, <1>2, <1>4 DEF CallsInv, SoundOutput, SoundCall, Polled
    <2>2. SoundOutput(o)'
      <3>1. results[o] = None
            BY <1>2 DEF CallsInv, SoundOutput
      <3>2. QED
            BY <1>1, <1>4, <3>1 DEF SoundOutput, SoundCall
    <2>3. QED
          BY <2>1, <2>2
  <1>9. LoadingFirst' /\ NoFailureYet' /\ FailFastTruthful'
        BY <1>1, <1>2 DEF CallsInv, LoadingFirst, NoFailureYet, FailFastTruthful, Polled
  <1>10. QED
         BY <1>6, <1>7, <1>8, <1>9 DEF CallsInv

(* A batch that fails fast stops for its first failure.  It does not say     *)
(* that its outcome is unknown only when no other output can have been       *)
(* worked on: it has no other output, or its outputs are made one after the  *)
(* other and none is made yet.                                               *)
LEMMA StopsTruthfully ==
  ASSUME CallsInv, NEW o \in Outputs, Acts(o), NEW result \in Results \ {None}, End(o, result)
  PROVE  FailFastTruthful'
  <1>1. SUFFICES ASSUME policy' = "fail_fast", run' = "returned", IsError(answer'), ~answer'.unknown,
                        NEW q \in Outputs, q \in worked', ~\A p \in Outputs : results'[p] = Made
                 PROVE  IsError(results'[q])
        BY DEF FailFastTruthful, IsError
  <1>2. /\ policy = "fail_fast" /\ Polled /\ parallel' = parallel
        /\ call[o].step # "done" /\ worked' \in {worked, worked \cup {o}}
        /\ (call[o].step = "ready" => Cardinality(InFlight) < parallel /\ UNCHANGED worked)
        BY <1>1 DEF Acts, Others
  <1>3. /\ results \in [Outputs -> Results] /\ call \in [Outputs -> CallStates]
        /\ parallel \in Nat \ {0} /\ Cardinality(InFlight) <= parallel
        BY CallBounds DEF CallsInv, CallsTyped
  <1>4. \A p \in Outputs : results[p] \in {None, Made}
        BY <1>2 DEF CallsInv, NoFailureYet
  <1>5. results' = [results EXCEPT ![o] = result]
        BY DEF End
  <1>6. CASE Stops(result)
    <2>1. result \in CallErrors /\ result # Made
          BY <1>6, ErrorsAreErrors DEF Stops, IsError
    <2>2. ~MayHaveSibling
      <3>1. SUFFICES ASSUME MayHaveSibling PROVE FALSE
            OBVIOUS
      <3> DEFINE known == [result EXCEPT !.unknown = TRUE, !.retryable = FALSE]
      <3>2. known \in CallErrors /\ known.unknown = TRUE
            BY <2>1 DEF CallErrors
      <3>3. Return(known)
            BY <1>6, <3>1 DEF End
      <3> HIDE DEF known
      <3>4. known \in Results
            BY <3>2 DEF Results, CallErrors
      <3>5. QED
            BY <1>1, <3>2, <3>3, <3>4, ReturnTyped
    <2>3. CASE q = o
          BY <1>3, <1>5, <2>1, <2>3, ErrorsAreErrors
    <2>4. CASE q # o
      <3>1. q \in worked
            BY <1>1, <1>2, <2>4
      <3>2. call[q].step # "ready"
            BY <3>1 DEF CallsInv, SoundOutput
      <3>3. Cardinality(Outputs) > 1
        <4>1. ~(Cardinality(Outputs) <= 1)
              BY <2>4, CallBounds, AtMostOne
        <4>2. QED
              BY <4>1, CallBounds
      <3>4. parallel <= 1 /\ \A p \in Outputs : results[p] # Made
            BY <1>3, <2>2, <3>3 DEF MayHaveSibling
      <3>5. results[q] = None
            BY <1>4, <3>4
      <3>6. call[q].step # "done"
            BY <1>2, <3>5 DEF CallsInv, SoundOutput
      <3>7. q \in InFlight
            BY <3>2, <3>6 DEF InFlight
      <3>8. CASE call[o].step = "ready"
        <4>1. Cardinality(InFlight) = 0
              BY <1>2, <1>3, <3>4, <3>8, InFlightFinite
        <4>2. InFlight = {}
              BY <4>1, InFlightFinite, FS_EmptySet
        <4>3. QED
              BY <3>7, <4>2
      <3>9. CASE call[o].step # "ready"
        <4>1. o \in InFlight
              BY <1>2, <3>9 DEF InFlight
        <4>2. Cardinality(InFlight) <= 1
              BY <1>3, <3>4, InFlightFinite
        <4>3. q = o
              BY <3>7, <4>1, <4>2, InFlightFinite, AtMostOne
        <4>4. QED
              BY <2>4, <4>3
      <3>10. QED
             BY <3>8, <3>9
    <2>5. QED
          BY <2>3, <2>4
  <1>7. CASE ~Stops(result)
    <2>1. result = Made
          BY <1>2, <1>7 DEF Stops, IsError
    <2>2. \A p \in Outputs : results'[p] \in {None, Made}
          BY <1>3, <1>4, <1>5, <2>1
    <2>3. CASE None \in {results'[p] : p \in Outputs}
      <3>1. run' = run
            BY <1>5, <1>7, <2>3 DEF End
      <3>2. QED
            BY <1>1, <1>2, <3>1 DEF Polled
    <2>4. CASE None \notin {results'[p] : p \in Outputs}
      <3>1. \A p \in Outputs : results'[p] = Made
            BY <2>2, <2>4
      <3>2. QED
            BY <1>1, <3>1
    <2>5. QED
          BY <2>3, <2>4
  <1>8. QED
        BY <1>6, <1>7

LEMMA EndsKeepCalls ==
  ASSUME CallsInv, NEW o \in Outputs, Acts(o), Ends(o)
  PROVE  CallsInv'
  <1>1. PICK result \in Results \ {None} : End(o, result)
        BY DEF Ends
  <1>2. /\ Polled /\ loading = Loaded /\ loading' = loading /\ call[o].step # "done"
        /\ UNCHANGED <<policy, parallel, elapsed, cancelled, channel>>
        /\ worked' \in {worked, worked \cup {o}}
        BY DEF Acts, Others, Ends
  <1>3. CallsTyped
        BY DEF CallsInv
  <1>4. /\ results' = [results EXCEPT ![o] = result] /\ results' \in [Outputs -> Results]
        /\ call' \in [Outputs -> CallStates]
        /\ \A p \in Outputs : \/ call'[p].step = "done" /\ SoundCall(call'[p])
                              \/ p # o /\ call'[p] = call[p]
        /\ \/ run' = "returned" /\ answer' \in Results
           \/ /\ UNCHANGED <<run, answer>> /\ ~Stops(result)
              /\ \A p \in Outputs \ {o} : call'[p] = call[p]
        BY <1>1, <1>3, EndEffect
  <1>5. CallsTyped'
        BY <1>2, <1>3, <1>4 DEF CallsTyped
  <1>6. Cardinality(InFlight') <= parallel'
    <2>1. InFlight' \in SUBSET InFlight
          BY <1>4 DEF InFlight
    <2>2. Cardinality(InFlight') <= Cardinality(InFlight) /\ Cardinality(InFlight') \in Nat
          BY <2>1, InFlightFinite, FS_CardinalityType
    <2>3. parallel \in Nat /\ Cardinality(InFlight) <= parallel /\ parallel' = parallel
          BY <1>2, CallBounds DEF CallsInv, CallsTyped
    <2>4. QED
          BY <2>2, <2>3, InFlightFinite
  <1>7. ASSUME NEW p \in Outputs
        PROVE  SoundOutput(p)'
    <2>1. SoundCall(call'[p])
          BY <1>4 DEF CallsInv, SoundOutput
    <2>2. Polled' => (call'[p].step = "done" <=> results'[p] # None)
      <3>1. SUFFICES ASSUME Polled' PROVE call'[p].step = "done" <=> results'[p] # None
            OBVIOUS
      <3>2. \A r \in Outputs \ {o} : call'[r] = call[r]
            BY <1>4, <3>1 DEF Polled
      <3>3. call'[o].step = "done"
            BY <1>4
      <3>4. call[p].step = "done" <=> results[p] # None
            BY <1>2 DEF CallsInv, SoundOutput
      <3>5. results'[o] = result /\ (p # o => results'[p] = results[p])
            BY <1>3, <1>4 DEF CallsTyped
      <3>6. QED
            BY <3>2, <3>3, <3>4, <3>5
    <2>3. call'[p].step = "ready" => p \notin worked'
      <3>1. SUFFICES ASSUME call'[p].step = "ready" PROVE p \notin worked'
            OBVIOUS
      <3>2. p # o /\ call'[p] = call[p]
            BY <1>4, <3>1
      <3>3. QED
            BY <1>2, <3>1, <3>2 DEF CallsInv, SoundOutput
    <2>4. QED
          BY <2>1, <2>2, <2>3 DEF SoundOutput, SoundCall
  <1>8. LoadingFirst'
        BY <1>2 DEF LoadingFirst
  <1>9. NoFailureYet'
    <2>1. SUFFICES ASSUME policy' = "fail_fast", Polled', NEW p \in Outputs
                   PROVE  results'[p] \in {None, Made}
          BY DEF NoFailureYet
    <2>2. ~Stops(result)
          BY <1>4, <2>1 DEF Polled
    <2>3. result = Made
          BY <1>2, <2>1, <2>2 DEF Stops, IsError
    <2>4. results[p] \in {None, Made}
          BY <1>2, <2>1 DEF CallsInv, NoFailureYet
    <2>5. QED
          BY <1>3, <1>4, <2>3, <2>4 DEF CallsTyped
  <1>10. FailFastTruthful'
         BY <1>1, StopsTruthfully
  <1>11. QED
         BY <1>5, <1>6, <1>7, <1>8, <1>9, <1>10 DEF CallsInv

(* All calls are over at once: the batch is cut, or dropped.                  *)
LEMMA OverKeepsCalls ==
  ASSUME CallsInv, call' = Over(Outputs), loading' = Loaded,
         UNCHANGED <<policy, parallel, results, worked, channel, elapsed>>, cancelled' \in BOOLEAN,
         run' \in {"returned", "dropped"}, answer' \in Results, FailFastTruthful'
  PROVE  CallsInv'
  <1>1. CallsTyped
        BY DEF CallsInv
  <1>2. /\ Over(Outputs) \in [Outputs -> CallStates]
        /\ \A p \in Outputs : Over(Outputs)[p].step = "done" /\ SoundCall(Over(Outputs)[p])
        BY <1>1, OverTyped
  <1>3. CallsTyped'
        BY <1>1, <1>2 DEF CallsTyped
  <1>4. Cardinality(InFlight') <= parallel'
    <2>1. InFlight' \in SUBSET InFlight
          BY <1>2 DEF InFlight
    <2>2. Cardinality(InFlight') <= Cardinality(InFlight) /\ Cardinality(InFlight') \in Nat
          BY <2>1, InFlightFinite, FS_CardinalityType
    <2>3. parallel \in Nat /\ Cardinality(InFlight) <= parallel /\ parallel' = parallel
          BY CallBounds DEF CallsInv, CallsTyped
    <2>4. QED
          BY <2>2, <2>3, InFlightFinite
  <1>5. \A p \in Outputs : SoundOutput(p)'
        BY <1>2 DEF SoundOutput, SoundCall, Polled
  <1>6. LoadingFirst' /\ NoFailureYet'
        BY DEF LoadingFirst, NoFailureYet, Polled
  <1>7. QED
        BY <1>3, <1>4, <1>5, <1>6 DEF CallsInv

LEMMA LoadInputsKeepsCalls ==
  ASSUME CallsInv, WithinPolicy, LoadInputs
  PROVE  CallsInv' /\ WithinPolicy'
  <1>1. /\ Polled /\ UNCHANGED <<policy, parallel, call, results, worked, channel, elapsed, cancelled>>
        /\ \/ LoadStep /\ UNCHANGED <<run, answer>>
           \/ LoadFails /\ Return(Permanent("input"))
        BY DEF LoadInputs
  <1>2. WithinPolicy'
        BY <1>1, LoadingWithinPolicy
  <1>3. loading # Loaded
        BY <1>1, LoadingStops DEF LoadFails, Loaded
  <1>4. \A o \in Outputs : call[o].step = "ready" /\ o \notin worked
        BY <1>3 DEF CallsInv, LoadingFirst, SoundOutput
  <1>5. InFlight' = InFlight
        BY <1>1 DEF InFlight
  <1>6. CASE LoadStep /\ UNCHANGED <<run, answer>>
        BY <1>1, <1>2, <1>4, <1>5, <1>6
           DEF CallsInv, CallsTyped, SoundOutput, SoundCall, LoadingFirst, NoFailureYet, FailFastTruthful, Polled
  <1>7. CASE LoadFails /\ Return(Permanent("input"))
    <2>1. Permanent("input") \in Results
          BY TheErrors DEF Results, CallErrors
    <2>2. run' = "returned" /\ answer' \in Results
          BY <1>7, <2>1, ReturnTyped
    <2>3. loading' = Loaded
          BY <1>7 DEF LoadFails
    <2>4. CallsTyped' /\ Cardinality(InFlight') <= parallel'
          BY <1>1, <1>5, <2>2 DEF CallsInv, CallsTyped
    <2>5. \A o \in Outputs : SoundOutput(o)'
          BY <1>1, <1>4, <2>2 DEF CallsInv, SoundOutput, SoundCall, Polled
    <2>6. LoadingFirst' /\ NoFailureYet' /\ FailFastTruthful'
          BY <1>1, <1>4, <2>2, <2>3 DEF LoadingFirst, NoFailureYet, FailFastTruthful, Polled
    <2>7. QED
          BY <1>2, <2>4, <2>5, <2>6 DEF CallsInv
  <1>8. QED
        BY <1>1, <1>6, <1>7

(* What the runtime does to the calls: it interrupts them, and cuts them off. *)
LEMMA RuntimeKeepsCalls ==
  ASSUME CallsInv, WithinPolicy, Interrupt \/ GraceEnds \/ Elapse \/ Shutdown
  PROVE  CallsInv' /\ WithinPolicy'
  <1>1. CASE Interrupt \/ Elapse \/ Shutdown
    <2>1. /\ UNCHANGED <<policy, parallel, call, results, worked, channel, answer, loading>>
          /\ elapsed' \in BOOLEAN /\ cancelled' \in BOOLEAN
          /\ run' = run \/ (run = "running" /\ run' = "grace")
      <3>0. elapsed \in BOOLEAN /\ cancelled \in BOOLEAN
            BY DEF CallsInv, CallsTyped
      <3>1. CASE Interrupt
            BY <3>0, <3>1 DEF Interrupt
      <3>2. CASE Elapse
            BY <3>0, <3>2 DEF Elapse
      <3>3. CASE Shutdown
            BY <3>0, <3>3 DEF Shutdown
      <3>4. QED
            BY <1>1, <3>1, <3>2, <3>3
    <2>2. Polled' = Polled /\ InFlight' = InFlight
          BY <2>1 DEF Polled, InFlight
    <2>3. CallsTyped' /\ Cardinality(InFlight') <= parallel'
          BY <2>1, <2>2 DEF CallsInv, CallsTyped
    <2>4. \A o \in Outputs : SoundOutput(o)'
          BY <2>1, <2>2 DEF CallsInv, SoundOutput, SoundCall
    <2>5. LoadingFirst' /\ NoFailureYet' /\ FailFastTruthful'
          BY <2>1, <2>2 DEF CallsInv, LoadingFirst, NoFailureYet, FailFastTruthful
    <2>6. WithinPolicy'
          BY <2>1 DEF WithinPolicy
    <2>7. QED
          BY <2>3, <2>4, <2>5, <2>6 DEF CallsInv
  <1>2. CASE GraceEnds
    <2>1. /\ UNCHANGED <<policy, parallel, results, worked, channel, elapsed, cancelled>>
          /\ run' = "returned" /\ call' = Over(Outputs) /\ loading' = Loaded
          /\ answer' = Lost("timeout") \/ answer' = Lost("cancelled")
          BY <1>2 DEF GraceEnds
    <2>2. answer' \in CallErrors /\ answer'.unknown = TRUE
          BY <2>1, TheErrors
    <2>3. answer' \in Results
          BY <2>2 DEF Results, CallErrors
    <2>4. FailFastTruthful'
          BY <2>2 DEF FailFastTruthful
    <2>5. CallsInv'
          BY <2>1, <2>3, <2>4, OverKeepsCalls DEF CallsInv, CallsTyped
    <2>6. WithinPolicy'
          BY <2>1 DEF WithinPolicy, Loaded
    <2>7. QED
          BY <2>5, <2>6
  <1>3. QED
        BY <1>1, <1>2

LEMMA ProviderKeepsCalls ==
  ASSUME CallsInv, WithinPolicy, Provider
  PROVE  CallsInv' /\ WithinPolicy'
  <1>1. ASSUME NEW o \in Outputs,
               \/ Dispatch(o) \/ Headers(o) \/ Partial(o) \/ Forward(o) \/ Garbled(o) \/ Eof(o)
               \/ Break(o) \/ Pause(o)
        PROVE  CallsInv' /\ WithinPolicy'
    <2>1. Acts(o)
          BY <1>1, EachCallActs
    <2>2. GoesOn(o) \/ Ends(o)
          BY <2>1 DEF Acts
    <2>3. CallsInv'
          BY <2>1, <2>2, GoesOnKeepsCalls, EndsKeepCalls
    <2>4. loading' = loading
          BY <2>1 DEF Acts, Others
    <2>5. QED
          BY <2>3, <2>4 DEF WithinPolicy
  <1>2. QED
        BY <1>1, LoadInputsKeepsCalls, RuntimeKeepsCalls DEF Provider

(* The task takes what the provider sends, and drops the request when its    *)
(* client has gone.                                                          *)
LEMMA TaskKeepsCalls ==
  ASSUME CallsInv, WithinPolicy, TakePreview \/ Abandon
  PROVE  CallsInv' /\ WithinPolicy'
  <1>1. CASE TakePreview
    <2>1. /\ UNCHANGED <<policy, parallel, call, results, worked, elapsed, cancelled, run, answer, loading>>
          /\ channel # <<>> /\ channel' = Tail(channel)
          BY <1>1 DEF TakePreview
    <2>2. channel \in Seq(PreviewEvents) /\ Len(channel) <= Room
          BY DEF CallsInv, CallsTyped
    <2>3. channel' \in Seq(PreviewEvents) /\ Len(channel') = Len(channel) - 1 /\ Len(channel) \in Nat
          BY <2>1, <2>2, HeadTailProperties, LenProperties
    <2>4. Len(channel') <= Room
          BY <2>2, <2>3, CallBounds
    <2>5. InFlight' = InFlight /\ Polled' = Polled
          BY <2>1 DEF InFlight, Polled
    <2>6. CallsTyped' /\ Cardinality(InFlight') <= parallel'
          BY <2>1, <2>3, <2>4, <2>5 DEF CallsInv, CallsTyped
    <2>7. \A o \in Outputs : SoundOutput(o)'
          BY <2>1, <2>5 DEF CallsInv, SoundOutput, SoundCall
    <2>8. LoadingFirst' /\ NoFailureYet' /\ FailFastTruthful' /\ WithinPolicy'
          BY <2>1, <2>5 DEF CallsInv, LoadingFirst, NoFailureYet, FailFastTruthful, WithinPolicy
    <2>9. QED
          BY <2>6, <2>7, <2>8 DEF CallsInv
  <1>2. CASE Abandon
    <2>1. /\ UNCHANGED <<policy, parallel, results, worked, channel, elapsed, answer>>
          /\ cancelled' = TRUE /\ run' = IF run = "returned" THEN run ELSE "dropped"
          /\ call' = Over(Outputs) /\ loading' = Loaded
          BY <1>2 DEF Abandon
    <2>2. FailFastTruthful'
          BY <2>1 DEF CallsInv, FailFastTruthful
    <2>3. CallsInv'
          BY <2>1, <2>2, OverKeepsCalls DEF CallsInv, CallsTyped
    <2>4. WithinPolicy'
          BY <2>1 DEF WithinPolicy, Loaded
    <2>5. QED
          BY <2>3, <2>4
  <1>3. QED
        BY <1>1, <1>2

LEMMA StutterKeepsCalls ==
  ASSUME CallsInv, WithinPolicy, UNCHANGED providerVars
  PROVE  CallsInv' /\ WithinPolicy'
  <1>1. UNCHANGED <<policy, parallel, call, results, worked, channel, elapsed, cancelled, run, answer, loading>>
        BY DEF providerVars
  <1>2. InFlight' = InFlight /\ Polled' = Polled
        BY <1>1 DEF InFlight, Polled
  <1>3. CallsTyped' /\ Cardinality(InFlight') <= parallel'
        BY <1>1, <1>2 DEF CallsInv, CallsTyped
  <1>4. \A o \in Outputs : SoundOutput(o)'
        BY <1>1, <1>2 DEF CallsInv, SoundOutput, SoundCall
  <1>5. LoadingFirst' /\ NoFailureYet' /\ FailFastTruthful' /\ WithinPolicy'
        BY <1>1, <1>2 DEF CallsInv, LoadingFirst, NoFailureYet, FailFastTruthful, WithinPolicy
  <1>6. QED
        BY <1>3, <1>4, <1>5 DEF CallsInv

LEMMA NextKeepsCalls ==
  ASSUME CallsInv, WithinPolicy, [StreamNext]_systemVars
  PROVE  CallsInv' /\ WithinPolicy'
  <1>1. CASE PollRequest
        BY <1>1, ProviderKeepsCalls DEF PollRequest
  <1>2. CASE TakePreview \/ Abandon
        BY <1>2, TaskKeepsCalls
  <1>3. CASE Elapse \/ Shutdown
        BY <1>3, RuntimeKeepsCalls
  <1>4. CASE TakeResult \/ Terminate \/ Resume \/ Close \/ Read \/ Leave
    <2>1. UNCHANGED providerVars
          BY <1>4 DEF TakeResult, Terminate, Resume, Close, Read, Leave
    <2>2. QED
          BY <2>1, StutterKeepsCalls
  <1>5. CASE UNCHANGED systemVars
        BY <1>5, StutterKeepsCalls DEF systemVars, providerVars
  <1>6. QED
        BY <1>1, <1>2, <1>3, <1>4, <1>5 DEF StreamNext

LEMMA InitCalls ==
  ASSUME StreamInit
  PROVE  CallsInv /\ WithinPolicy
  <1>1. ResponsesInit /\ InputsInit
        BY DEF StreamInit, ResponsesInit
  <1>2. WithinPolicy
        BY <1>1, InitWithinPolicy
  <1>3. Idle \in CallStates /\ Idle.step = "ready" /\ SoundCall(Idle)
        BY CallBounds DEF Idle, CallStates, CallSteps, Verdicts, SoundCall
  <1>4. \A o \in Outputs : call[o] = Idle /\ results[o] = None
        BY <1>1 DEF ResponsesInit
  <1>5. CallsTyped
    <2>1. <<>> \in Seq(PreviewEvents) /\ Len(<<>>) = 0
          BY EmptySeq
    <2>2. None \in Results
          BY DEF Results
    <2>3. /\ policy \in {"fail_fast", "best_effort"} /\ parallel \in 1..Cardinality(Outputs)
          /\ worked = {} /\ channel = <<>> /\ elapsed = FALSE /\ cancelled = FALSE
          /\ run = "running" /\ answer = None
          BY <1>1 DEF ResponsesInit
    <2>4. call \in [Outputs -> CallStates] /\ results \in [Outputs -> Results]
          BY <1>1, <1>3, <2>2 DEF ResponsesInit
    <2>5. Len(channel) <= Room
          BY <2>1, <2>3, CallBounds
    <2>6. QED
          BY <2>1, <2>2, <2>3, <2>4, <2>5 DEF CallsTyped
  <1>6. Cardinality(InFlight) <= parallel
    <2>1. InFlight = {}
          BY <1>3, <1>4 DEF InFlight
    <2>2. Cardinality(InFlight) = 0
          BY <2>1, FS_EmptySet
    <2>3. QED
          BY <1>5, <2>2, CallBounds DEF CallsTyped
  <1>7. \A o \in Outputs : SoundOutput(o)
        BY <1>1, <1>3, <1>4 DEF SoundOutput, ResponsesInit
  <1>8. LoadingFirst /\ NoFailureYet /\ FailFastTruthful
        BY <1>1, <1>3, <1>4 DEF LoadingFirst, NoFailureYet, FailFastTruthful, Polled, ResponsesInit
  <1>9. QED
        BY <1>2, <1>5, <1>6, <1>7, <1>8 DEF CallsInv

-----------------------------------------------------------------------------
(***************************************************************************)
(* The stream.  What is on its way to the client is what it has not read   *)
(* of what was sent: `got` previews of each output are read, `sent` are    *)
(* sent, the ones between are on their way, each once and in their order;  *)
(* started is on its way until it is read, ahead of everything, and a      *)
(* terminal event is the last one of a task that sends no more.            *)
(***************************************************************************)
Terminals == {"completed", "error"}
Kinds     == {"started", "preview"} \cup Terminals

StreamEvents == PreviewEvents \cup {Event(kind, 0, 0) : kind \in Kinds \ {"preview"}}

StartsOnce(q, last) ==
  /\ \A i \in 1..Len(q) : q[i].kind = "started" <=> i = 1 /\ last = "nothing"
  /\ last = "nothing" => Len(q) > 0

EndsOnce(q, last, closed) ==
  /\ \A i \in 1..Len(q) : q[i].kind \in Terminals => closed /\ i = Len(q)
  /\ last \in Terminals => closed /\ Len(q) = 0

InTurn(q, got, sent) ==
  /\ \A o \in Outputs : got[o] <= sent[o]
  /\ \A i \in 1..Len(q) : q[i].kind = "preview" =>
       got[q[i].output] < q[i].number /\ q[i].number <= sent[q[i].output]
  /\ \A i, j \in 1..Len(q) :
       i < j /\ q[i].kind = "preview" /\ q[j].kind = "preview" /\ q[i].output = q[j].output =>
         q[i].number < q[j].number

Carries(q, o, n) ==
  \E i \in 1..Len(q) : q[i].kind = "preview" /\ q[i].output = o /\ q[i].number = n

NoneMissing(q, got, sent) ==
  \A o \in Outputs : \A n \in Nat : got[o] < n /\ n <= sent[o] => Carries(q, o, n)

Faithful(q, last, got, sent, closed) ==
  /\ StartsOnce(q, last) /\ EndsOnce(q, last, closed)
  /\ InTurn(q, got, sent) /\ NoneMissing(q, got, sent)

Held     == IF held = None THEN <<>> ELSE <<held>>
OnTheWay == (wire \o Held) \o channel
Closed   == task \in {"last", "done"}
Sent     == [o \in Outputs |-> call[o].sent]

StreamTyped ==
  /\ task \in {"select", "ending", "last", "done"}
  /\ held \in StreamEvents \cup {None} /\ (held # None => held.kind # "started")
  /\ wire \in Seq(StreamEvents) /\ Len(wire) <= Wire
  /\ seen \in [last : Kinds \cup {"nothing"}, previews : [Outputs -> Nat]]

StreamInv ==
  /\ StreamTyped
  /\ client => Faithful(OnTheWay, seen.last, seen.previews, Sent, Closed)

(* Lemmas about what is on its way, for any sequence.                        *)
LEMMA EventFields ==
  ASSUME NEW e \in StreamEvents
  PROVE  /\ e.kind \in Kinds
         /\ e.kind = "preview" => e.output \in Outputs /\ e.number \in Nat \ {0}
  <1>1. CASE e \in PreviewEvents
        BY <1>1 DEF PreviewEvents, Kinds
  <1>2. CASE e \in {Event(kind, 0, 0) : kind \in Kinds \ {"preview"}}
        BY <1>2 DEF Event
  <1>3. QED
        BY <1>1, <1>2 DEF StreamEvents

LEMMA PreviewFields ==
  ASSUME NEW o \in Outputs, NEW n \in 1..MaxPreviews
  PROVE  /\ Event("preview", o, n) \in StreamEvents
         /\ Event("preview", o, n).kind = "preview" /\ Event("preview", o, n).output = o
         /\ Event("preview", o, n).number = n
  BY DEF Event, StreamEvents, PreviewEvents

LEMMA SendsPreview ==
  ASSUME NEW q \in Seq(StreamEvents), NEW last,
         NEW got \in [Outputs -> Nat], NEW sent \in [Outputs -> Nat], NEW after \in [Outputs -> Nat],
         Faithful(q, last, got, sent, FALSE),
         NEW o \in Outputs, sent[o] + 1 \in 1..MaxPreviews,
         after[o] = sent[o] + 1, \A p \in Outputs \ {o} : after[p] = sent[p],
         NEW r, r = Append(q, Event("preview", o, sent[o] + 1))
  PROVE  Faithful(r, last, got, after, FALSE)
  <1> DEFINE e == Event("preview", o, sent[o] + 1)
  <1>1. e \in StreamEvents /\ e.kind = "preview" /\ e.output = o /\ e.number = sent[o] + 1
        BY PreviewFields
  <1> HIDE DEF e
  <1>2. /\ Len(q) \in Nat /\ Len(r) = Len(q) + 1
        /\ \A i \in 1..Len(q) : r[i] = q[i]
        /\ r[Len(q) + 1] = e
        BY <1>1, AppendProperties, LenProperties DEF e
  <1>3. \A i \in 1..Len(q) : q[i] \in StreamEvents
        BY ElementOfSeq
  <1>4. \A i \in 1..Len(r) : i \in 1..Len(q) \/ i = Len(q) + 1
        BY <1>2
  <1>5. StartsOnce(q, last) /\ EndsOnce(q, last, FALSE) /\ InTurn(q, got, sent) /\ NoneMissing(q, got, sent)
        BY DEF Faithful
  <1>6. \A p \in Outputs : got[p] <= sent[p] /\ sent[p] <= after[p]
    <2>1. ASSUME NEW p \in Outputs
          PROVE  sent[p] <= after[p]
      <3>1. sent[p] \in Nat /\ sent[o] \in Nat
            OBVIOUS
      <3>2. CASE p = o
            BY <3>1, <3>2
      <3>3. CASE p # o
            BY <3>1, <3>3
      <3>4. QED
            BY <3>2, <3>3
    <2>2. QED
          BY <1>5, <2>1 DEF InTurn
  <1>7. StartsOnce(r, last)
        BY <1>1, <1>2, <1>4, <1>5 DEF StartsOnce
  <1>8. EndsOnce(r, last, FALSE)
    <2>1. "preview" \notin Terminals
          BY DEF Terminals
    <2>2. QED
          BY <1>1, <1>2, <1>4, <1>5, <2>1 DEF EndsOnce
  <1>9. InTurn(r, got, after)
    <2>1. \A p \in Outputs : got[p] <= after[p]
          BY <1>6
    <2>2. ASSUME NEW i \in 1..Len(r), r[i].kind = "preview"
          PROVE  got[r[i].output] < r[i].number /\ r[i].number <= after[r[i].output]
      <3>1. CASE i \in 1..Len(q)
        <4>1. /\ got[q[i].output] < q[i].number /\ q[i].number <= sent[q[i].output]
              /\ q[i].output \in Outputs /\ q[i].number \in Nat
              BY <1>2, <1>3, <1>5, <2>2, <3>1, EventFields DEF InTurn
        <4>2. QED
              BY <1>2, <1>6, <3>1, <4>1
      <3>2. CASE i = Len(q) + 1
            BY <1>1, <1>2, <1>6, <3>2
      <3>3. QED
            BY <1>4, <3>1, <3>2
    <2>3. ASSUME NEW i \in 1..Len(r), NEW j \in 1..Len(r), i < j,
                 r[i].kind = "preview", r[j].kind = "preview", r[i].output = r[j].output
          PROVE  r[i].number < r[j].number
      <3>1. i \in 1..Len(q) /\ r[i] = q[i]
            BY <1>2, <2>3
      <3>2. CASE j \in 1..Len(q)
            BY <1>2, <1>5, <2>3, <3>1, <3>2 DEF InTurn
      <3>3. CASE j = Len(q) + 1
        <4>1. q[i].output = o /\ q[i].kind = "preview"
              BY <1>1, <1>2, <2>3, <3>1, <3>3
        <4>2. q[i].number <= sent[o] /\ q[i].number \in Nat
              BY <1>3, <1>5, <3>1, <4>1, EventFields DEF InTurn
        <4>3. QED
              BY <1>1, <1>2, <3>1, <3>3, <4>2
      <3>4. QED
            BY <1>4, <3>2, <3>3 DEF Carries
    <2>4. QED
          BY <2>1, <2>2, <2>3 DEF InTurn
  <1>10. NoneMissing(r, got, after)
    <2>1. SUFFICES ASSUME NEW p \in Outputs, NEW n \in Nat, got[p] < n, n <= after[p]
                   PROVE  Carries(r, p, n)
          BY DEF NoneMissing
    <2>2. CASE n <= sent[p]
      <3>1. Carries(q, p, n)
            BY <1>5, <2>1, <2>2 DEF NoneMissing
      <3>2. \A i \in 1..Len(q) : i \in 1..Len(r) /\ r[i] = q[i]
            BY <1>2
      <3>3. QED
            BY <3>1, <3>2 DEF Carries
    <2>3. CASE ~(n <= sent[p])
      <3>1. p = o /\ n = sent[o] + 1
            BY <2>1, <2>3
      <3>2. Len(q) + 1 \in 1..Len(r)
            BY <1>2
      <3>3. QED
            BY <1>1, <1>2, <3>1, <3>2 DEF Carries
    <2>4. QED
          BY <2>2, <2>3
  <1>11. QED
         BY <1>7, <1>8, <1>9, <1>10 DEF Faithful

LEMMA SendsTerminal ==
  ASSUME NEW q \in Seq(StreamEvents), NEW last, NEW got, NEW sent,
         Faithful(q, last, got, sent, FALSE),
         NEW kind \in Terminals, NEW r, r = Append(q, Event(kind, 0, 0))
  PROVE  Faithful(r, last, got, sent, TRUE)
  <1> DEFINE e == Event(kind, 0, 0)
  <1>1. e \in StreamEvents /\ e.kind \in Terminals
        BY DEF Event, StreamEvents, Kinds, Terminals
  <1> HIDE DEF e
  <1>2. /\ Len(q) \in Nat /\ Len(r) = Len(q) + 1
        /\ \A i \in 1..Len(q) : r[i] = q[i]
        /\ r[Len(q) + 1] = e
        BY <1>1, AppendProperties, LenProperties DEF e
  <1>3. e.kind # "started" /\ e.kind # "preview"
        BY <1>1 DEF Terminals
  <1>4. /\ \A i \in 1..Len(r) : i \in 1..Len(q) \/ i = Len(q) + 1
        /\ \A i \in 1..Len(q) : i \in 1..Len(r) /\ r[i] = q[i]
        BY <1>2
  <1>5. StartsOnce(q, last) /\ EndsOnce(q, last, FALSE) /\ InTurn(q, got, sent) /\ NoneMissing(q, got, sent)
        BY DEF Faithful
  <1>6. StartsOnce(r, last)
        BY <1>2, <1>3, <1>4, <1>5 DEF StartsOnce
  <1>7. EndsOnce(r, last, TRUE)
        BY <1>2, <1>4, <1>5 DEF EndsOnce
  <1>8. \A i \in 1..Len(r) : r[i].kind = "preview" => i \in 1..Len(q) /\ r[i] = q[i]
        BY <1>2, <1>3, <1>4
  <1>9. InTurn(r, got, sent)
        BY <1>5, <1>8 DEF InTurn
  <1>10. NoneMissing(r, got, sent)
    <2>1. \A o, n : Carries(q, o, n) => Carries(r, o, n)
          BY <1>4 DEF Carries
    <2>2. QED
          BY <1>5, <2>1 DEF NoneMissing
  <1>11. QED
         BY <1>6, <1>7, <1>9, <1>10 DEF Faithful

(* The next event that is read: nothing before it is missing.                *)
InPlace(e, last, got, sent) ==
  /\ e.kind = "started" <=> last = "nothing"
  /\ last \notin Terminals
  /\ e.kind = "preview" => e.number = got[e.output] + 1
  /\ e.kind \in Terminals => \A o \in Outputs : got[o] = sent[o]

LEMMA NextToRead ==
  ASSUME NEW q \in Seq(StreamEvents), NEW last,
         NEW got \in [Outputs -> Nat], NEW sent \in [Outputs -> Nat], NEW closed,
         Faithful(q, last, got, sent, closed), Len(q) > 0
  PROVE  InPlace(q[1], last, got, sent)
  <1>1. StartsOnce(q, last) /\ EndsOnce(q, last, closed) /\ InTurn(q, got, sent) /\ NoneMissing(q, got, sent)
        BY DEF Faithful
  <1>2. Len(q) \in Nat /\ 1 \in 1..Len(q) /\ \A i \in 1..Len(q) : q[i] \in StreamEvents
        BY ElementOfSeq, LenProperties
  <1>3. q[1].kind = "started" <=> last = "nothing"
        BY <1>1, <1>2 DEF StartsOnce
  <1>4. last \notin Terminals
        BY <1>1, <1>2 DEF EndsOnce
  <1>5. ASSUME q[1].kind = "preview"
        PROVE  q[1].number = got[q[1].output] + 1
    <2> DEFINE o == q[1].output
    <2>1. o \in Outputs /\ q[1].number \in Nat /\ got[o] < q[1].number /\ q[1].number <= sent[o]
          BY <1>1, <1>2, <1>5, EventFields DEF InTurn
    <2> HIDE DEF o
    <2>2. got[o] \in Nat /\ sent[o] \in Nat /\ got[o] + 1 \in Nat /\ got[o] < got[o] + 1 /\ got[o] + 1 <= sent[o]
          BY <2>1
    <2>3. PICK i \in 1..Len(q) : q[i].kind = "preview" /\ q[i].output = o /\ q[i].number = got[o] + 1
          BY <1>1, <2>1, <2>2 DEF NoneMissing, Carries
    <2>4. i = 1 \/ q[1].number < q[i].number
          BY <1>1, <1>2, <1>5, <2>3 DEF InTurn, o
    <2>5. q[1].number = got[o] + 1
          BY <2>1, <2>2, <2>3, <2>4
    <2>6. QED
          BY <2>5 DEF o
  <1>6. ASSUME q[1].kind \in Terminals, NEW o \in Outputs
        PROVE  got[o] = sent[o]
    <2>1. Len(q) = 1
          BY <1>1, <1>2, <1>6 DEF EndsOnce
    <2>2. q[1].kind # "preview"
          BY <1>6 DEF Terminals
    <2>3. ~(sent[o] \in Nat /\ got[o] < sent[o] /\ sent[o] <= sent[o])
          BY <1>1, <2>1, <2>2 DEF NoneMissing, Carries
    <2>4. got[o] <= sent[o]
          BY <1>1 DEF InTurn
    <2>5. QED
          BY <2>3, <2>4
  <1>7. QED
        BY <1>3, <1>4, <1>5, <1>6 DEF InPlace

(* The client has read one more.                                             *)
LEMMA ReadsNext ==
  ASSUME NEW q \in Seq(StreamEvents), NEW last, NEW closed,
         NEW got \in [Outputs -> Nat], NEW sent \in [Outputs -> Nat],
         Faithful(q, last, got, sent, closed), Len(q) > 0,
         NEW r, r = Tail(q), NEW now \in [Outputs -> Nat],
         now = IF q[1].kind = "preview" THEN [got EXCEPT ![q[1].output] = q[1].number] ELSE got
  PROVE  Faithful(r, q[1].kind, now, sent, closed)
  <1>1. StartsOnce(q, last) /\ EndsOnce(q, last, closed) /\ InTurn(q, got, sent) /\ NoneMissing(q, got, sent)
        BY DEF Faithful
  <1>2. /\ Len(q) \in Nat /\ 1 \in 1..Len(q) /\ \A i \in 1..Len(q) : q[i] \in StreamEvents
        /\ Len(r) = Len(q) - 1 /\ \A i \in 1..Len(r) : r[i] = q[i + 1]
    <2>1. Len(q) \in Nat /\ q # <<>>
          BY LenProperties, EmptySeq
    <2>2. QED
          BY <2>1, ElementOfSeq, HeadTailProperties
  <1>3. \A i \in 1..Len(r) : i + 1 \in 1..Len(q) /\ i + 1 # 1
        BY <1>2
  <1>4. \A i \in 1..Len(q) \ {1} : i - 1 \in 1..Len(r) /\ r[i - 1] = q[i]
        BY <1>2
  <1>5. q[1].kind \in Kinds /\ "nothing" \notin Kinds
        BY <1>2, EventFields DEF Kinds, Terminals
  <1>6. StartsOnce(r, q[1].kind)
    <2>1. \A i \in 1..Len(r) : r[i].kind # "started"
          BY <1>1, <1>2, <1>3 DEF StartsOnce
    <2>2. q[1].kind # "nothing"
          BY <1>5
    <2>3. QED
          BY <2>1, <2>2 DEF StartsOnce
  <1>7. EndsOnce(r, q[1].kind, closed)
    <2>1. ASSUME NEW i \in 1..Len(r), r[i].kind \in Terminals
          PROVE  closed /\ i = Len(r)
          BY <1>1, <1>2, <1>3, <2>1 DEF EndsOnce
    <2>2. ASSUME q[1].kind \in Terminals
          PROVE  closed /\ Len(r) = 0
      <3>1. closed /\ 1 = Len(q)
            BY <1>1, <1>2, <2>2 DEF EndsOnce
      <3>2. QED
            BY <1>2, <3>1
    <2>3. QED
          BY <2>1, <2>2 DEF EndsOnce
  <1>8. CASE q[1].kind = "preview"
    <2> DEFINE o == q[1].output
    <2>1. o \in Outputs /\ q[1].number \in Nat /\ q[1].number = got[o] + 1 /\ q[1].number <= sent[o]
      <3>1. o \in Outputs /\ q[1].number \in Nat /\ q[1].number <= sent[o]
            BY <1>1, <1>2, <1>8, EventFields DEF InTurn
      <3>2. QED
            BY <1>8, <3>1, NextToRead DEF InPlace
    <2>2. now[o] = q[1].number /\ \A p \in Outputs \ {o} : now[p] = got[p]
          BY <1>8, <2>1
    <2> HIDE DEF o
    <2>3. InTurn(r, now, sent)
      <3>1. \A p \in Outputs : now[p] <= sent[p]
            BY <1>1, <2>1, <2>2 DEF InTurn
      <3>2. ASSUME NEW i \in 1..Len(r), r[i].kind = "preview"
            PROVE  now[r[i].output] < r[i].number /\ r[i].number <= sent[r[i].output]
        <4>1. i + 1 \in 1..Len(q) /\ 1 < i + 1 /\ r[i] = q[i + 1]
              BY <1>2
        <4>2. got[r[i].output] < r[i].number /\ r[i].number <= sent[r[i].output] /\ r[i].output \in Outputs
              BY <1>1, <1>2, <3>2, <4>1, EventFields DEF InTurn
        <4>3. r[i].output = o => q[1].number < r[i].number
              BY <1>1, <1>2, <1>8, <3>2, <4>1 DEF InTurn, o
        <4>4. QED
              BY <2>2, <4>2, <4>3
      <3>3. ASSUME NEW i \in 1..Len(r), NEW j \in 1..Len(r), i < j,
                   r[i].kind = "preview", r[j].kind = "preview", r[i].output = r[j].output
            PROVE  r[i].number < r[j].number
        <4>1. i + 1 \in 1..Len(q) /\ j + 1 \in 1..Len(q) /\ i + 1 < j + 1
              /\ r[i] = q[i + 1] /\ r[j] = q[j + 1]
              BY <1>2, <3>3
        <4>2. QED
              BY <1>1, <3>3, <4>1 DEF InTurn
      <3>4. QED
            BY <3>1, <3>2, <3>3 DEF InTurn
    <2>4. NoneMissing(r, now, sent)
      <3>1. SUFFICES ASSUME NEW p \in Outputs, NEW n \in Nat, now[p] < n, n <= sent[p]
                     PROVE  Carries(r, p, n)
            BY DEF NoneMissing
      <3>2. got[p] < n
            BY <2>1, <2>2, <3>1
      <3>3. PICK i \in 1..Len(q) : q[i].kind = "preview" /\ q[i].output = p /\ q[i].number = n
            BY <1>1, <3>1, <3>2 DEF NoneMissing, Carries
      <3>4. i # 1
            BY <2>1, <2>2, <3>1, <3>3 DEF o
      <3>5. QED
            BY <1>4, <3>3, <3>4 DEF Carries
    <2>5. QED
          BY <1>6, <1>7, <2>3, <2>4 DEF Faithful
  <1>9. CASE q[1].kind # "preview"
    <2>1. now = got
          BY <1>9
    <2>2. InTurn(r, got, sent)
      <3>1. \A p \in Outputs : got[p] <= sent[p]
            BY <1>1 DEF InTurn
      <3>2. ASSUME NEW i \in 1..Len(r), r[i].kind = "preview"
            PROVE  got[r[i].output] < r[i].number /\ r[i].number <= sent[r[i].output]
            BY <1>1, <1>2, <1>3, <3>2 DEF InTurn
      <3>3. ASSUME NEW i \in 1..Len(r), NEW j \in 1..Len(r), i < j,
                   r[i].kind = "preview", r[j].kind = "preview", r[i].output = r[j].output
            PROVE  r[i].number < r[j].number
        <4>1. i + 1 \in 1..Len(q) /\ j + 1 \in 1..Len(q) /\ i + 1 < j + 1
              /\ r[i] = q[i + 1] /\ r[j] = q[j + 1]
              BY <1>2, <3>3
        <4>2. QED
              BY <1>1, <3>3, <4>1 DEF InTurn
      <3>4. QED
            BY <3>1, <3>2, <3>3 DEF InTurn
    <2>3. NoneMissing(r, got, sent)
      <3>1. SUFFICES ASSUME NEW p \in Outputs, NEW n \in Nat, got[p] < n, n <= sent[p]
                     PROVE  Carries(r, p, n)
            BY DEF NoneMissing
      <3>2. PICK i \in 1..Len(q) : q[i].kind = "preview" /\ q[i].output = p /\ q[i].number = n
            BY <1>1, <3>1 DEF NoneMissing, Carries
      <3>3. i # 1
            BY <1>9, <3>2
      <3>4. QED
            BY <1>4, <3>2, <3>3 DEF Carries
    <2>4. QED
          BY <1>6, <1>7, <2>1, <2>2, <2>3 DEF Faithful
  <1>10. QED
         BY <1>8, <1>9

(* Sequences that are put together of several.                               *)
LEMMA ConcatAppend ==
  ASSUME NEW S, NEW s \in Seq(S), NEW t \in Seq(S), NEW e \in S
  PROVE  s \o Append(t, e) = Append(s \o t, e)
  <1>1. Append(t, e) = t \o <<e>> /\ <<e>> \in Seq(S)
        BY AppendIsConcat
  <1>2. s \o t \in Seq(S)
        BY ConcatProperties
  <1>3. Append(s \o t, e) = (s \o t) \o <<e>>
        BY <1>2, AppendIsConcat
  <1>4. QED
        BY <1>1, <1>3, ConcatAssociative

LEMMA HeadMoves ==
  ASSUME NEW S, NEW s \in Seq(S), NEW t \in Seq(S), t # <<>>
  PROVE  (s \o <<Head(t)>>) \o Tail(t) = s \o t
  <1>1. Head(t) \in S /\ Tail(t) \in Seq(S) /\ Len(Tail(t)) = Len(t) - 1
        /\ Len(t) \in Nat \ {0} /\ \A i \in 1..Len(Tail(t)) : Tail(t)[i] = t[i + 1]
        BY HeadTailProperties, EmptySeq
  <1>2. <<Head(t)>> \in Seq(S) /\ Len(<<Head(t)>>) = 1 /\ <<Head(t)>>[1] = t[1]
        BY <1>1
  <1>3. <<Head(t)>> \o Tail(t) = t
    <2> DEFINE u == <<Head(t)>> \o Tail(t)
    <2>1. u \in Seq(S) /\ Len(u) = Len(t)
          BY <1>1, <1>2, ConcatProperties
    <2>2. ASSUME NEW i \in 1..Len(u)
          PROVE  u[i] = t[i]
      <3>1. u[i] = IF i <= 1 THEN <<Head(t)>>[i] ELSE Tail(t)[i - 1]
            BY <1>1, <1>2, <2>1, ConcatProperties
      <3>2. CASE i = 1
            BY <1>2, <3>1, <3>2
      <3>3. CASE i # 1
        <4>1. i - 1 \in 1..Len(Tail(t)) /\ (i - 1) + 1 = i /\ ~(i <= 1)
              BY <1>1, <2>1, <3>3
        <4>2. QED
              BY <1>1, <3>1, <4>1
      <3>4. QED
            BY <3>2, <3>3
    <2>3. QED
          BY <2>1, <2>2, SeqEqual
  <1>4. QED
        BY <1>1, <1>2, <1>3, ConcatAssociative

LEMMA TailOfConcat ==
  ASSUME NEW S, NEW s \in Seq(S), NEW t \in Seq(S), s # <<>>
  PROVE  /\ Tail(s \o t) = Tail(s) \o t /\ (s \o t)[1] = Head(s) /\ s \o t # <<>>
         /\ Len(s \o t) > 0
  <1>1. Head(s) = s[1] /\ Tail(s) \in Seq(S) /\ Len(Tail(s)) = Len(s) - 1
        /\ Len(s) \in Nat \ {0} /\ Len(t) \in Nat /\ \A i \in 1..Len(Tail(s)) : Tail(s)[i] = s[i + 1]
        BY HeadTailProperties, EmptySeq, LenProperties
  <1>2. /\ s \o t \in Seq(S) /\ Len(s \o t) = Len(s) + Len(t)
        /\ \A i \in 1..(Len(s) + Len(t)) : (s \o t)[i] = IF i <= Len(s) THEN s[i] ELSE t[i - Len(s)]
        BY ConcatProperties
  <1>3. Len(s \o t) > 0 /\ s \o t # <<>>
        BY <1>1, <1>2, EmptySeq
  <1>4. (s \o t)[1] = Head(s)
        BY <1>1, <1>2
  <1>5. Tail(s \o t) = Tail(s) \o t
    <2>1. /\ Tail(s \o t) \in Seq(S) /\ Len(Tail(s \o t)) = Len(s) + Len(t) - 1
          /\ \A i \in 1..Len(Tail(s \o t)) : Tail(s \o t)[i] = (s \o t)[i + 1]
          BY <1>2, <1>3, HeadTailProperties
    <2>2. /\ Tail(s) \o t \in Seq(S) /\ Len(Tail(s) \o t) = Len(s) - 1 + Len(t)
          /\ \A i \in 1..(Len(s) - 1 + Len(t)) : (Tail(s) \o t)[i] =
               IF i <= Len(s) - 1 THEN Tail(s)[i] ELSE t[i - (Len(s) - 1)]
          BY <1>1, ConcatProperties
    <2>3. ASSUME NEW i \in 1..(Len(s) + Len(t) - 1)
          PROVE  Tail(s \o t)[i] = (Tail(s) \o t)[i]
      <3>1. Tail(s \o t)[i] = (s \o t)[i + 1] /\ i + 1 \in 1..(Len(s) + Len(t))
            BY <1>1, <2>1
      <3>2. CASE i <= Len(s) - 1
            BY <1>1, <1>2, <2>2, <3>1, <3>2
      <3>3. CASE ~(i <= Len(s) - 1)
        <4>1. ~(i + 1 <= Len(s)) /\ i + 1 - Len(s) = i - (Len(s) - 1)
              BY <1>1, <3>3
        <4>2. QED
              BY <1>1, <1>2, <2>2, <3>1, <3>3, <4>1
      <3>4. QED
            BY <3>2, <3>3
    <2>4. QED
          BY <1>1, <2>1, <2>2, <2>3, SeqEqual
  <1>6. QED
        BY <1>3, <1>4, <1>5

(* The steps of the task, by what they do to what is on its way.             *)
LEMMA WayTyped ==
  ASSUME CallsTyped, StreamTyped
  PROVE  /\ channel \in Seq(StreamEvents) /\ Held \in Seq(StreamEvents) /\ wire \in Seq(StreamEvents)
         /\ wire \o Held \in Seq(StreamEvents) /\ OnTheWay \in Seq(StreamEvents)
         /\ Sent \in [Outputs -> Nat]
  <1>1. channel \in Seq(StreamEvents)
    <2>1. PreviewEvents \subseteq StreamEvents
          BY DEF StreamEvents
    <2>2. channel \in Seq(PreviewEvents)
          BY DEF CallsTyped
    <2>3. QED
          BY <2>1, <2>2, SeqMonotonic
  <1>2. Held \in Seq(StreamEvents)
    <2>1. CASE held = None
          BY <2>1, EmptySeq DEF Held
    <2>2. CASE held # None
      <3>1. held \in StreamEvents
            BY <2>2 DEF StreamTyped
      <3>2. QED
            BY <2>2, <3>1 DEF Held
    <2>3. QED
          BY <2>1, <2>2
  <1>3. wire \in Seq(StreamEvents)
        BY DEF StreamTyped
  <1>4. wire \o Held \in Seq(StreamEvents)
        BY <1>2, <1>3, ConcatProperties
  <1>5. OnTheWay \in Seq(StreamEvents)
        BY <1>1, <1>4, ConcatProperties DEF OnTheWay
  <1>6. Sent \in [Outputs -> Nat]
    <2>1. \A o \in Outputs : call[o].sent \in 0..MaxPreviews
          BY DEF CallsTyped, CallStates
    <2>2. \A o \in Outputs : call[o].sent \in Nat
          BY <2>1
    <2>3. QED
          BY <2>2 DEF Sent
  <1>7. QED
        BY <1>1, <1>2, <1>3, <1>4, <1>5, <1>6

LEMMA NoEventIsNone == None \notin StreamEvents \ {Started}
  <1>1. None \notin [kind : {"preview", "completed", "error"}, output : Nat, number : Nat]
        BY EventStreamAssumption
  <1>2. PreviewEvents \subseteq [kind : {"preview", "completed", "error"}, output : Nat, number : Nat]
    <2>1. Outputs \subseteq Nat /\ 1..MaxPreviews \subseteq Nat
          BY CallBounds
    <2>2. QED
          BY <2>1 DEF PreviewEvents
  <1>3. \A kind \in {"completed", "error"} :
          Event(kind, 0, 0) \in [kind : {"preview", "completed", "error"}, output : Nat, number : Nat]
        BY DEF Event
  <1>4. Kinds \ {"preview"} = {"started"} \cup {"completed", "error"}
        BY DEF Kinds, Terminals
  <1>5. QED
        BY <1>1, <1>2, <1>3, <1>4 DEF StreamEvents, Started

(* An event that is sent waits, or is on the wire.                           *)
LEMMA SendTyped ==
  ASSUME CallsTyped, StreamTyped, held = None, NEW e \in StreamEvents, e.kind # "started", Send(e)
  PROVE  /\ held' \in StreamEvents \cup {None} /\ (held' # None => held'.kind # "started")
         /\ wire' \in Seq(StreamEvents) /\ Len(wire') <= Wire
         /\ wire' \o Held' = wire \o <<e>> /\ wire \o <<e>> = Append(wire, e)
  <1>1. wire \in Seq(StreamEvents) /\ Len(wire) \in Nat /\ Len(wire) <= Wire /\ Wire \in Nat
        BY EventStreamAssumption, LenProperties DEF StreamTyped
  <1>2. Append(wire, e) \in Seq(StreamEvents) /\ Len(Append(wire, e)) = Len(wire) + 1
        /\ Append(wire, e) = wire \o <<e>>
        BY <1>1, AppendProperties, AppendIsConcat
  <1>3. CASE Len(wire) < Wire
    <2>1. wire' = Append(wire, e) /\ held' = None
          BY <1>3 DEF Send
    <2>2. Held' = <<>>
          BY <2>1 DEF Held
    <2>3. wire' \o Held' = wire'
          BY <1>2, <2>1, <2>2, ConcatEmptySeq
    <2>4. QED
          BY <1>1, <1>2, <1>3, <2>1, <2>3
  <1>4. CASE ~(Len(wire) < Wire)
    <2>1. wire' = wire /\ held' = e
          BY <1>4 DEF Send
    <2>2. e # None
      <3>1. e # Started
            BY DEF Started, Event
      <3>2. QED
            BY <3>1, NoEventIsNone
    <2>3. Held' = <<e>>
          BY <2>1, <2>2 DEF Held
    <2>4. QED
          BY <1>1, <1>2, <2>1, <2>3
  <1>5. QED
        BY <1>3, <1>4

LEMMA NothingHeld ==
  ASSUME CallsTyped, StreamTyped, held = None
  PROVE  wire \o Held = wire
  <1>1. Held = <<>>
        BY DEF Held
  <1>2. QED
        BY <1>1, WayTyped, ConcatEmptySeq

LEMMA TakePreviewKeepsWay ==
  ASSUME CallsTyped, StreamTyped, TakePreview
  PROVE  StreamTyped' /\ OnTheWay' = OnTheWay
  <1>1. channel \in Seq(StreamEvents) /\ channel # <<>> /\ channel \in Seq(PreviewEvents)
        BY WayTyped DEF TakePreview, CallsTyped
  <1> DEFINE e == Head(channel)
  <1>2. e \in StreamEvents /\ e.kind # "started"
    <2>1. e \in PreviewEvents
          BY <1>1, HeadTailProperties
    <2>2. QED
          BY <2>1 DEF PreviewEvents, StreamEvents
  <1>3. held = None /\ Send(e) /\ channel' = Tail(channel) /\ UNCHANGED <<task, seen>>
        BY DEF TakePreview
  <1> HIDE DEF e
  <1>4. /\ held' \in StreamEvents \cup {None} /\ (held' # None => held'.kind # "started")
        /\ wire' \in Seq(StreamEvents) /\ Len(wire') <= Wire
        /\ wire' \o Held' = wire \o <<e>>
        BY <1>2, <1>3, SendTyped
  <1>5. OnTheWay' = (wire \o <<Head(channel)>>) \o Tail(channel)
        BY <1>3, <1>4 DEF OnTheWay, e
  <1>6. OnTheWay = wire \o channel
        BY <1>3, NothingHeld DEF OnTheWay
  <1>7. OnTheWay' = OnTheWay
        BY <1>1, <1>5, <1>6, WayTyped, HeadMoves
  <1>8. QED
        BY <1>3, <1>4, <1>7 DEF StreamTyped

LEMMA TerminateSendsTerminal ==
  ASSUME CallsTyped, StreamTyped, Terminate
  PROVE  /\ StreamTyped' /\ ~Closed /\ Closed'
         /\ \E kind \in Terminals : OnTheWay' = Append(OnTheWay, Event(kind, 0, 0))
  <1>1. PICK kind \in Terminals : Terminal = Event(kind, 0, 0)
        BY DEF Terminal, Terminals
  <1> DEFINE e == Event(kind, 0, 0)
  <1>2. e \in StreamEvents /\ e.kind # "started"
        BY DEF Event, StreamEvents, Kinds, Terminals
  <1>3. /\ held = None /\ Send(e) /\ channel = <<>> /\ channel' = channel /\ seen' = seen
        /\ task = "ending" /\ task' = "last"
        BY <1>1 DEF Terminate, providerVars
  <1> HIDE DEF e
  <1>4. /\ held' \in StreamEvents \cup {None} /\ (held' # None => held'.kind # "started")
        /\ wire' \in Seq(StreamEvents) /\ Len(wire') <= Wire
        /\ wire' \o Held' = wire \o <<e>> /\ wire \o <<e>> = Append(wire, e)
        BY <1>2, <1>3, SendTyped
  <1>5. OnTheWay = wire
    <2>1. OnTheWay = wire \o <<>>
          BY <1>3, NothingHeld DEF OnTheWay
    <2>2. QED
          BY <2>1, WayTyped, ConcatEmptySeq
  <1>6. OnTheWay' = Append(wire, e)
    <2>1. OnTheWay' = (wire' \o Held') \o <<>>
          BY <1>3 DEF OnTheWay
    <2>2. Append(wire, e) \in Seq(StreamEvents)
          BY <1>2, WayTyped, AppendProperties
    <2>3. QED
          BY <1>4, <2>1, <2>2, ConcatEmptySeq
  <1>7. StreamTyped'
        BY <1>3, <1>4 DEF StreamTyped
  <1>8. QED
        BY <1>3, <1>5, <1>6, <1>7 DEF Closed, e

LEMMA ResumeKeepsWay ==
  ASSUME CallsTyped, StreamTyped, Resume
  PROVE  StreamTyped' /\ OnTheWay' = OnTheWay
  <1>1. held # None /\ Len(wire) < Wire /\ wire' = Append(wire, held) /\ held' = None
        /\ channel' = channel /\ UNCHANGED <<task, seen>>
        BY DEF Resume, providerVars
  <1>2. held \in StreamEvents /\ wire \in Seq(StreamEvents) /\ Len(wire) \in Nat /\ Wire \in Nat
        BY <1>1, LenProperties, EventStreamAssumption DEF StreamTyped
  <1>3. wire' \in Seq(StreamEvents) /\ Len(wire') = Len(wire) + 1 /\ wire' = wire \o <<held>>
        BY <1>1, <1>2, AppendProperties, AppendIsConcat
  <1>4. Held = <<held>> /\ Held' = <<>>
        BY <1>1 DEF Held
  <1>5. wire' \o Held' = wire \o Held
        BY <1>3, <1>4, ConcatEmptySeq
  <1>6. OnTheWay' = OnTheWay
        BY <1>1, <1>5 DEF OnTheWay
  <1>7. StreamTyped'
        BY <1>1, <1>2, <1>3 DEF StreamTyped
  <1>8. QED
        BY <1>6, <1>7

LEMMA ReadTakesFirst ==
  ASSUME CallsTyped, StreamTyped, Read
  PROVE  /\ OnTheWay \in Seq(StreamEvents) /\ Len(OnTheWay) > 0
         /\ Head(wire) = OnTheWay[1] /\ Head(wire) \in StreamEvents
         /\ OnTheWay' = Tail(OnTheWay)
         /\ StreamTyped'
         /\ seen'.last = Head(wire).kind
         /\ seen'.previews = IF Head(wire).kind = "preview"
                             THEN [seen.previews EXCEPT ![Head(wire).output] = Head(wire).number]
                             ELSE seen.previews
  <1> DEFINE e == Head(wire)
             now == IF e.kind = "preview" THEN [seen.previews EXCEPT ![e.output] = e.number]
                    ELSE seen.previews
  <1>1. /\ wire # <<>> /\ wire' = Tail(wire) /\ seen' = [last |-> e.kind, previews |-> now]
        /\ UNCHANGED <<task, held, channel>>
        BY DEF Read, providerVars
  <1>2. wire \in Seq(StreamEvents) /\ Held \in Seq(StreamEvents) /\ channel \in Seq(StreamEvents)
        /\ wire \o Held \in Seq(StreamEvents) /\ OnTheWay \in Seq(StreamEvents)
        BY WayTyped
  <1>3. e \in StreamEvents /\ Tail(wire) \in Seq(StreamEvents) /\ Len(Tail(wire)) = Len(wire) - 1
        /\ Len(wire) \in Nat
        BY <1>1, <1>2, HeadTailProperties, LenProperties
  <1>4. Held' = Held
        BY <1>1 DEF Held
  <1>5. /\ Tail(wire \o Held) = Tail(wire) \o Held /\ wire \o Held # <<>>
        /\ Head(wire \o Held) = e
    <2>1. Tail(wire \o Held) = Tail(wire) \o Held /\ (wire \o Held)[1] = e /\ wire \o Held # <<>>
          BY <1>1, <1>2, TailOfConcat
    <2>2. Head(wire \o Held) = (wire \o Held)[1]
          BY <1>2, <2>1
    <2>3. QED
          BY <2>1, <2>2
  <1>6. /\ Tail(OnTheWay) = Tail(wire \o Held) \o channel /\ OnTheWay[1] = Head(wire \o Held)
        /\ Len(OnTheWay) > 0
    <2>1. PICK s \in Seq(StreamEvents), t \in Seq(StreamEvents) : s = wire \o Held /\ t = channel
          BY <1>2
    <2>2. s # <<>>
          BY <1>5, <2>1
    <2>3. Tail(s \o t) = Tail(s) \o t /\ (s \o t)[1] = Head(s) /\ Len(s \o t) > 0
          BY <2>2, TailOfConcat
    <2>4. QED
          BY <2>1, <2>3 DEF OnTheWay
  <1>7. OnTheWay' = Tail(OnTheWay)
        BY <1>1, <1>4, <1>5, <1>6 DEF OnTheWay
  <1>8. e.kind \in Kinds /\ (e.kind = "preview" => e.output \in Outputs /\ e.number \in Nat)
        BY <1>3, EventFields
  <1>9. now \in [Outputs -> Nat]
    <2>1. seen.previews \in [Outputs -> Nat]
          BY DEF StreamTyped
    <2>2. QED
          BY <1>8, <2>1
  <1>10. Wire \in Nat /\ Len(wire) <= Wire
         BY EventStreamAssumption DEF StreamTyped
  <1> HIDE DEF now, e
  <1>11. StreamTyped'
         BY <1>1, <1>3, <1>8, <1>9, <1>10 DEF StreamTyped
  <1>12. seen'.last = e.kind /\ seen'.previews = now
         BY <1>1
  <1>13. QED
         BY <1>2, <1>3, <1>5, <1>6, <1>7, <1>11, <1>12 DEF now, e

(***************************************************************************)
(* The provider's steps, as the stream sees them: nothing, or one preview  *)
(* more of one output.                                                     *)
(***************************************************************************)
Feeds(o) ==
  /\ channel' = Append(channel, Event("preview", o, Sent[o] + 1))
  /\ Sent[o] + 1 \in 1..MaxPreviews /\ Sent'[o] = Sent[o] + 1
  /\ \A p \in Outputs \ {o} : Sent'[p] = Sent[p]

LEMMA ProviderFeeds ==
  ASSUME CallsInv, Provider
  PROVE  (channel' = channel /\ Sent' = Sent) \/ \E o \in Outputs : Feeds(o)
  <1>1. CallsTyped /\ call \in [Outputs -> CallStates]
        BY DEF CallsInv, CallsTyped
  <1>2. ASSUME UNCHANGED channel, \A p \in Outputs : call'[p].sent = call[p].sent
        PROVE  channel' = channel /\ Sent' = Sent
        BY <1>2 DEF Sent
  <1>3. CASE \E o \in Outputs :
               \/ Dispatch(o) \/ Headers(o) \/ Partial(o) \/ Forward(o) \/ Garbled(o) \/ Eof(o)
               \/ Break(o) \/ Pause(o)
    <2>1. PICK o \in Outputs : Acts(o)
          BY <1>3, EachCallActs
    <2>2. CASE Ends(o)
      <3>1. PICK result \in Results \ {None} : End(o, result)
            BY <2>2 DEF Ends
      <3>2. \A p \in Outputs : call'[p].sent = call[p].sent
            BY <1>1, <3>1, EndEffect
      <3>3. QED
            BY <1>2, <2>2, <3>2 DEF Ends
    <2>3. CASE GoesOn(o)
      <3>1. PICK new \in CallStates :
              /\ call' = [call EXCEPT ![o] = new]
              /\ \/ channel' = channel /\ new.sent = call[o].sent
                 \/ channel' = Append(channel, Preview(o)) /\ new.sent = call[o].sent + 1
            BY <2>3 DEF GoesOn
      <3>2. call'[o] = new /\ \A p \in Outputs \ {o} : call'[p] = call[p]
            BY <1>1, <3>1
      <3>3. CASE channel' = channel /\ new.sent = call[o].sent
        <4>1. \A p \in Outputs : call'[p].sent = call[p].sent
              BY <3>2, <3>3
        <4>2. QED
              BY <1>2, <3>3, <4>1
      <3>4. CASE channel' = Append(channel, Preview(o)) /\ new.sent = call[o].sent + 1
        <4>1. Sent[o] = call[o].sent /\ Sent'[o] = new.sent
              /\ \A p \in Outputs \ {o} : Sent'[p] = Sent[p]
              BY <3>2 DEF Sent
        <4>2. call[o].sent \in Nat /\ call[o].sent + 1 <= MaxPreviews /\ MaxPreviews \in Nat
              BY <1>1, <3>1, <3>4, CallBounds DEF CallStates
        <4>3. Feeds(o)
              BY <3>4, <4>1, <4>2 DEF Feeds, Preview
        <4>4. QED
              BY <4>3
      <3>5. QED
            BY <3>1, <3>3, <3>4
    <2>4. QED
          BY <2>1, <2>2, <2>3 DEF Acts
  <1>4. CASE LoadInputs \/ Interrupt
        BY <1>2, <1>4 DEF LoadInputs, Interrupt
  <1>5. CASE GraceEnds
    <2>1. UNCHANGED channel /\ call' = Over(Outputs)
          BY <1>5 DEF GraceEnds
    <2>2. QED
          BY <1>1, <1>2, <2>1, OverTyped
  <1>6. QED
        BY <1>3, <1>4, <1>5 DEF Provider

(* What the request's own steps do, while the task has them in its select.   *)
LEMMA ProviderKeepsStream ==
  ASSUME CallsInv, CallsInv', StreamInv, Provider, UNCHANGED streamVars, task = "select"
  PROVE  StreamInv'
  <1>1. CallsTyped /\ StreamTyped /\ CallsTyped'
        BY DEF CallsInv, StreamInv
  <1>2. UNCHANGED <<task, held, wire, client, seen>>
        BY DEF streamVars
  <1>3. StreamTyped'
        BY <1>1, <1>2 DEF StreamTyped
  <1>4. ASSUME client
        PROVE  Faithful(OnTheWay', seen.last, seen.previews, Sent', FALSE)
    <2>1. Faithful(OnTheWay, seen.last, seen.previews, Sent, FALSE)
      <3>1. Closed = FALSE
            BY DEF Closed
      <3>2. Faithful(OnTheWay, seen.last, seen.previews, Sent, Closed)
            BY <1>4 DEF StreamInv
      <3>3. QED
            BY <3>1, <3>2
    <2>2. seen.previews \in [Outputs -> Nat]
          BY <1>1 DEF StreamTyped
    <2>3. /\ OnTheWay \in Seq(StreamEvents) /\ Sent \in [Outputs -> Nat]
          /\ wire \o Held \in Seq(StreamEvents) /\ channel \in Seq(StreamEvents)
          BY <1>1, WayTyped
    <2>4. (CallsTyped /\ StreamTyped => Sent \in [Outputs -> Nat])'
          BY WayTyped, PTL
    <2>5. Sent' \in [Outputs -> Nat]
          BY <1>1, <1>3, <2>4
    <2>6. OnTheWay' = (wire \o Held) \o channel'
          BY <1>2 DEF OnTheWay, Held
    <2>7. CASE channel' = channel /\ Sent' = Sent
          BY <2>1, <2>6, <2>7 DEF OnTheWay
    <2>8. CASE \E o \in Outputs : Feeds(o)
      <3>1. PICK o \in Outputs : Feeds(o)
            BY <2>8
      <3> DEFINE e == Event("preview", o, Sent[o] + 1)
      <3>2. e \in StreamEvents
            BY <3>1, PreviewFields DEF Feeds
      <3>3. OnTheWay' = Append(OnTheWay, e)
        <4>1. channel' = Append(channel, e)
              BY <3>1 DEF Feeds
        <4>2. (wire \o Held) \o Append(channel, e) = Append((wire \o Held) \o channel, e)
          <5>1. PICK s \in Seq(StreamEvents), t \in Seq(StreamEvents) : s = wire \o Held /\ t = channel
                BY <2>3
          <5>2. s \o Append(t, e) = Append(s \o t, e)
                BY <3>2, ConcatAppend
          <5>3. QED
                BY <5>1, <5>2
        <4>3. QED
              BY <2>6, <4>1, <4>2 DEF OnTheWay
      <3> HIDE DEF e
      <3>4. PICK sent \in [Outputs -> Nat], after \in [Outputs -> Nat],
                 q \in Seq(StreamEvents), r \in {OnTheWay'} :
              sent = Sent /\ after = Sent' /\ q = OnTheWay /\ r = OnTheWay'
            BY <2>3, <2>5
      <3>5. /\ sent[o] + 1 \in 1..MaxPreviews /\ after[o] = sent[o] + 1
            /\ \A p \in Outputs \ {o} : after[p] = sent[p]
            BY <3>1, <3>4 DEF Feeds
      <3>6. r = Append(q, Event("preview", o, sent[o] + 1))
            BY <3>3, <3>4 DEF e
      <3>7. PICK last \in {seen.last}, got \in [Outputs -> Nat] :
              /\ last = seen.last /\ got = seen.previews
              /\ Faithful(q, last, got, sent, FALSE)
            BY <2>1, <2>2, <3>4
      <3>8. Faithful(r, last, got, after, FALSE)
            BY ONLY <3>5, <3>6, <3>7, SendsPreview, o \in Outputs, q \in Seq(StreamEvents),
               got \in [Outputs -> Nat], sent \in [Outputs -> Nat], after \in [Outputs -> Nat]
      <3>9. QED
            BY <3>4, <3>7, <3>8
    <2>9. QED
          BY <1>1, <2>7, <2>8, ProviderFeeds
  <1>5. Closed' = FALSE
        BY <1>2 DEF Closed
  <1>6. client' => Faithful(OnTheWay', seen'.last, seen'.previews, Sent', Closed')
        BY <1>2, <1>4, <1>5
  <1>7. QED
        BY <1>3, <1>6 DEF StreamInv

(* Steps that leave the stream as it is.                                     *)
LEMMA SameWayKeepsStream ==
  ASSUME StreamInv, StreamTyped', OnTheWay' = OnTheWay, UNCHANGED <<call, seen, client>>, Closed' = Closed
  PROVE  StreamInv'
  <1>1. Sent' = Sent
        BY DEF Sent
  <1>2. QED
        BY <1>1 DEF StreamInv

LEMMA TerminateKeepsStream ==
  ASSUME CallsInv, StreamInv, Terminate
  PROVE  StreamInv'
  <1>1. CallsTyped /\ StreamTyped
        BY DEF CallsInv, StreamInv
  <1>2. UNCHANGED <<call, seen, client>>
        BY DEF Terminate, providerVars
  <1>3. StreamTyped' /\ ~Closed /\ Closed'
        /\ \E kind \in Terminals : OnTheWay' = Append(OnTheWay, Event(kind, 0, 0))
        BY <1>1, TerminateSendsTerminal
  <1>4. PICK kind \in Terminals : OnTheWay' = Append(OnTheWay, Event(kind, 0, 0))
        BY <1>3
  <1>5. ASSUME client
        PROVE  Faithful(OnTheWay', seen.last, seen.previews, Sent, TRUE)
    <2>1. Faithful(OnTheWay, seen.last, seen.previews, Sent, FALSE) /\ OnTheWay \in Seq(StreamEvents)
      <3>1. Closed = FALSE
            BY <1>3 DEF Closed
      <3>2. Faithful(OnTheWay, seen.last, seen.previews, Sent, Closed)
            BY <1>5 DEF StreamInv
      <3>3. QED
            BY <1>1, <3>1, <3>2, WayTyped
    <2>2. PICK r \in {OnTheWay'} : r = OnTheWay'
          OBVIOUS
    <2>3. QED
          BY <1>4, <2>1, <2>2, SendsTerminal
  <1>6. Sent' = Sent
        BY <1>2 DEF Sent
  <1>7. Closed' = TRUE
        BY <1>3 DEF Closed
  <1>8. client' => Faithful(OnTheWay', seen'.last, seen'.previews, Sent', Closed')
        BY <1>2, <1>5, <1>6, <1>7
  <1>9. QED
        BY <1>3, <1>8 DEF StreamInv

LEMMA ReadKeepsStream ==
  ASSUME CallsInv, StreamInv, Read
  PROVE  StreamInv'
  <1>1. CallsTyped /\ StreamTyped
        BY DEF CallsInv, StreamInv
  <1>2. client /\ UNCHANGED <<call, client, task>>
        BY DEF Read, providerVars
  <1>3. /\ OnTheWay \in Seq(StreamEvents) /\ Len(OnTheWay) > 0
        /\ Head(wire) = OnTheWay[1] /\ OnTheWay' = Tail(OnTheWay) /\ StreamTyped'
        /\ seen'.last = OnTheWay[1].kind
        /\ seen'.previews = IF OnTheWay[1].kind = "preview"
                            THEN [seen.previews EXCEPT ![OnTheWay[1].output] = OnTheWay[1].number]
                            ELSE seen.previews
        BY <1>1, ReadTakesFirst
  <1>4. /\ Faithful(OnTheWay, seen.last, seen.previews, Sent, Closed)
        /\ seen.previews \in [Outputs -> Nat] /\ Sent \in [Outputs -> Nat]
        BY <1>1, <1>2, WayTyped DEF StreamInv, StreamTyped
  <1>5. seen'.previews \in [Outputs -> Nat]
        BY <1>3 DEF StreamTyped
  <1>6. PICK r \in {OnTheWay'}, now \in [Outputs -> Nat] : r = OnTheWay' /\ now = seen'.previews
        BY <1>5
  <1>7. Faithful(r, OnTheWay[1].kind, now, Sent, Closed)
        BY <1>3, <1>4, <1>6, ReadsNext
  <1>8. Sent' = Sent /\ Closed' = Closed
        BY <1>2 DEF Sent, Closed
  <1>9. QED
        BY <1>3, <1>6, <1>7, <1>8 DEF StreamInv

LEMMA NextKeepsStream ==
  ASSUME CallsInv, CallsInv', StreamInv, [StreamNext]_systemVars
  PROVE  StreamInv'
  <1>1. CallsTyped /\ StreamTyped
        BY DEF CallsInv, StreamInv
  <1>2. ASSUME UNCHANGED <<channel, call, held, wire, client, seen>>,
               task' \in {"select", "ending", "last", "done"}, Closed' = Closed
        PROVE  StreamInv'
    <2>1. StreamTyped'
          BY <1>1, <1>2 DEF StreamTyped
    <2>2. OnTheWay' = OnTheWay
          BY <1>2 DEF OnTheWay, Held
    <2>3. QED
          BY <1>2, <2>1, <2>2, SameWayKeepsStream
  <1>3. CASE PollRequest
        BY <1>3, ProviderKeepsStream DEF PollRequest
  <1>4. CASE TakeResult
        BY <1>2, <1>4 DEF TakeResult, providerVars, Closed
  <1>5. CASE TakePreview
    <2>1. UNCHANGED <<call, seen, client>> /\ Closed' = Closed
          BY <1>5 DEF TakePreview, Closed
    <2>2. QED
          BY <1>1, <1>5, <2>1, TakePreviewKeepsWay, SameWayKeepsStream
  <1>6. CASE Terminate
        BY <1>6, TerminateKeepsStream
  <1>7. CASE Resume
    <2>1. UNCHANGED <<call, seen, client>> /\ Closed' = Closed
          BY <1>7 DEF Resume, Closed, providerVars
    <2>2. QED
          BY <1>1, <1>7, <2>1, ResumeKeepsWay, SameWayKeepsStream
  <1>8. CASE Close
        BY <1>2, <1>8 DEF Close, providerVars, Closed
  <1>9. CASE Abandon
    <2>1. ~client' /\ task' = "done" /\ held' = None /\ UNCHANGED <<wire, seen>>
          BY <1>9 DEF Abandon
    <2>2. QED
          BY <1>1, <2>1 DEF StreamInv, StreamTyped
  <1>10. CASE Read
         BY <1>10, ReadKeepsStream
  <1>11. CASE Leave
    <2>1. ~client' /\ UNCHANGED <<task, held, wire, seen>>
          BY <1>11 DEF Leave
    <2>2. QED
          BY <1>1, <2>1 DEF StreamInv, StreamTyped
  <1>12. CASE (Elapse \/ Shutdown) /\ UNCHANGED streamVars
    <2>1. UNCHANGED <<channel, call, held, wire, client, seen, task>>
          BY <1>12 DEF Elapse, Shutdown, streamVars
    <2>2. QED
          BY <1>1, <1>2, <2>1 DEF Closed, StreamTyped
  <1>13. CASE UNCHANGED systemVars
    <2>1. UNCHANGED <<channel, call, held, wire, client, seen, task>>
          BY <1>13 DEF systemVars
    <2>2. QED
          BY <1>1, <1>2, <2>1 DEF Closed, StreamTyped
  <1>14. QED
         BY <1>3, <1>4, <1>5, <1>6, <1>7, <1>8, <1>9, <1>10, <1>11, <1>12, <1>13 DEF StreamNext

LEMMA InitStream ==
  ASSUME StreamInit
  PROVE  StreamInv
  <1>1. /\ task = "select" /\ held = None /\ wire = <<Started>> /\ channel = <<>>
        /\ seen = [last |-> "nothing", previews |-> [o \in Outputs |-> 0]]
        /\ call = [o \in Outputs |-> Idle]
        BY DEF StreamInit, ResponsesInit
  <1>2. Started \in StreamEvents /\ Started.kind = "started"
        BY DEF Started, Event, StreamEvents, Kinds
  <1>3. <<Started>> \in Seq(StreamEvents) /\ Len(<<Started>>) = 1
        BY <1>2
  <1>4. StreamTyped
        BY <1>1, <1>3, EventStreamAssumption DEF StreamTyped
  <1>5. OnTheWay = <<Started>>
    <2>1. Held = <<>>
          BY <1>1 DEF Held
    <2>2. QED
          BY <1>1, <1>3, <2>1, ConcatEmptySeq DEF OnTheWay
  <1>6. seen.last = "nothing" /\ \A o \in Outputs : seen.previews[o] = 0 /\ Sent[o] = 0
        BY <1>1 DEF Sent, Idle
  <1>7. <<Started>>[1].kind = "started"
        BY <1>2
  <1> DEFINE q == <<Started>>
  <1>8. \A i \in 1..Len(q) : i = 1 /\ q[i].kind = "started"
        BY <1>3, <1>7
  <1> HIDE DEF q
  <1>9. StartsOnce(q, "nothing")
        BY <1>3, <1>8 DEF StartsOnce, q
  <1>10. EndsOnce(q, "nothing", FALSE)
         BY <1>8 DEF EndsOnce, Terminals
  <1>11. InTurn(q, seen.previews, Sent)
         BY <1>6, <1>8 DEF InTurn
  <1>12. NoneMissing(q, seen.previews, Sent)
         BY <1>6 DEF NoneMissing
  <1>13. Closed = FALSE
         BY <1>1 DEF Closed
  <1>14. Faithful(q, "nothing", seen.previews, Sent, FALSE)
         BY <1>9, <1>10, <1>11, <1>12 DEF Faithful
  <1>15. Faithful(OnTheWay, seen.last, seen.previews, Sent, Closed)
         BY <1>5, <1>6, <1>13, <1>14 DEF q
  <1>16. QED
         BY <1>4, <1>15 DEF StreamInv

-----------------------------------------------------------------------------
(***************************************************************************)
(* What follows of every behavior of the stream.                           *)
(***************************************************************************)
LEMMA StreamInvariant == StreamSpec => [](CallsInv /\ WithinPolicy /\ StreamInv)
  <1>1. StreamInit => CallsInv /\ WithinPolicy /\ StreamInv
        BY InitCalls, InitStream
  <1>2. CallsInv /\ WithinPolicy /\ StreamInv /\ [StreamNext]_systemVars
          => CallsInv' /\ WithinPolicy' /\ StreamInv'
        BY NextKeepsCalls, NextKeepsStream
  <1>3. QED
        BY <1>1, <1>2, PTL DEF StreamSpec

LEMMA InvariantImpliesTypes ==
  ASSUME CallsInv, StreamInv
  PROVE  StreamTypeOK
  <1>1. Events = StreamEvents
    <2>1. Kinds \ {"preview"} = {"started", "completed", "error"}
          BY DEF Kinds, Terminals
    <2>2. QED
          BY <2>1 DEF Events, StreamEvents, PreviewEvents
  <1>2. \A o \in Outputs : call[o].attempt \in 1..MaxAttempts /\ results[o] \in Results
        BY DEF CallsInv, CallsTyped, CallStates
  <1>3. /\ Len(channel) <= Room /\ Cardinality(InFlight) <= parallel
        /\ answer \in Results /\ run \in {"running", "grace", "returned", "dropped"}
        BY DEF CallsInv, CallsTyped
  <1>4. /\ Len(wire) <= Wire /\ task \in {"select", "ending", "last", "done"}
        /\ held \in Events \cup {None}
        BY <1>1 DEF StreamInv, StreamTyped
  <1>5. QED
        BY <1>2, <1>3, <1>4 DEF StreamTypeOK

(* An output is asked for again only after the upstream has said itself that *)
(* the first attempt came to nothing: safe_transient_retry() and the         *)
(* verdicts of call_once().                                                  *)
THEOREM AskedAgainOnlyWhenSafe == StreamSpec => []RetriesAreSafe
  <1>1. CallsInv => RetriesAreSafe
        BY DEF CallsInv, SoundOutput, SoundCall, RetriesAreSafe
  <1>2. QED
        BY <1>1, StreamInvariant, PTL

(* A batch that fails fast says that its outcome is unknown whenever the     *)
(* upstream may have worked on another of its outputs:                       *)
(* sibling_may_have_run in execute_inner().                                  *)
THEOREM BatchTellsOfSiblings == StreamSpec => []FailFastTruthful
  <1>1. CallsInv => FailFastTruthful
        BY DEF CallsInv
  <1>2. QED
        BY <1>1, StreamInvariant, PTL

(* The images of a request come from where the remote policy allows, never   *)
(* from an address of a range that the test of is_public_ip() names unless   *)
(* private networks are allowed, and stay within the bounds on their sizes:  *)
(* the loads of input_content().                                             *)
THEOREM LoadsStayWithinPolicy == StreamSpec => []InputsWithinPolicy
  <1>1. WithinPolicy => InputsWithinPolicy
        BY PolicyIsKept
  <1>2. QED
        BY <1>1, StreamInvariant, PTL

(* What the calls do and say about work that may have been done, and where   *)
(* the images they send come from: the calls of execute_inner() under the    *)
(* task of streaming.rs.                                                     *)
THEOREM CallsAreTruthful == StreamSpec => []CallsTruthful
  <1>1. CallsInv /\ WithinPolicy /\ StreamInv => StreamTypeOK
        BY InvariantImpliesTypes
  <1>2. QED
        BY <1>1, StreamInvariant, AskedAgainOnlyWhenSafe, BatchTellsOfSiblings,
           LoadsStayWithinPolicy, PTL DEF CallsTruthful

(* The event that is read is the next one of the stream.                     *)
LEMMA ReadIsNext ==
  ASSUME CallsInv, StreamInv, Read
  PROVE  LET event == Head(wire) IN
         /\ event.kind = "started" <=> seen.last = "nothing"
         /\ seen.last \notin {"completed", "error"}
         /\ event.kind = "preview" => event.number = seen.previews[event.output] + 1
         /\ event.kind \in {"completed", "error"} => \A o \in Outputs : seen.previews[o] = call[o].sent
  <1>1. CallsTyped /\ StreamTyped /\ client
        BY DEF CallsInv, StreamInv, Read
  <1>2. OnTheWay \in Seq(StreamEvents) /\ Len(OnTheWay) > 0 /\ Head(wire) = OnTheWay[1]
        BY <1>1, ReadTakesFirst
  <1>3. /\ Faithful(OnTheWay, seen.last, seen.previews, Sent, Closed)
        /\ seen.previews \in [Outputs -> Nat] /\ Sent \in [Outputs -> Nat]
        BY <1>1, WayTyped DEF StreamInv, StreamTyped
  <1>4. PICK q \in Seq(StreamEvents), got \in [Outputs -> Nat], sent \in [Outputs -> Nat],
             last \in {seen.last}, closed \in {Closed} :
          /\ q = OnTheWay /\ got = seen.previews /\ sent = Sent /\ last = seen.last
          /\ closed = Closed
        BY <1>2, <1>3
  <1>5. Len(q) > 0 /\ Head(wire) = q[1]
        BY <1>2, <1>4
  <1>6. Faithful(q, last, got, sent, closed)
        BY <1>3, <1>4
  <1>7. InPlace(q[1], last, got, sent)
        BY <1>5, <1>6, NextToRead
  <1>8. \A o \in Outputs : Sent[o] = call[o].sent
        BY DEF Sent
  <1>9. QED
        BY <1>4, <1>5, <1>7, <1>8 DEF InPlace, Terminals

(* What the client reads is the stream of the request: started, the previews *)
(* of each output in their order and none left out, and one terminal event   *)
(* at the end, completed or error after every preview that was sent: the     *)
(* select, the drain and the sends of streaming.rs.                          *)
THEOREM ClientReadsTheStream == StreamSpec => StreamIsExact
  <1> DEFINE Exactly ==
        seen' # seen =>
          LET event == Head(wire) IN
          /\ event.kind = "started" <=> seen.last = "nothing"
          /\ seen.last \notin {"completed", "error"}
          /\ event.kind = "preview" => event.number = seen.previews[event.output] + 1
          /\ event.kind \in {"completed", "error"} =>
               \A o \in Outputs : seen.previews[o] = call[o].sent
  <1>1. CallsInv /\ StreamInv /\ [StreamNext]_systemVars => [Exactly]_systemVars
    <2> SUFFICES ASSUME CallsInv, StreamInv, [StreamNext]_systemVars, seen' # seen
                 PROVE  Exactly
        BY DEF Exactly
    <2>1. Read
      <3>1. CASE PollRequest \/ ((Elapse \/ Shutdown) /\ UNCHANGED streamVars)
            BY <3>1 DEF PollRequest, streamVars
      <3>2. CASE TakeResult \/ TakePreview \/ Terminate \/ Resume \/ Close \/ Abandon \/ Leave
            BY <3>2 DEF TakeResult, TakePreview, Terminate, Resume, Close, Abandon, Leave
      <3>3. CASE UNCHANGED systemVars
            BY <3>3 DEF systemVars
      <3>4. QED
            BY <3>1, <3>2, <3>3 DEF StreamNext
    <2>2. QED
          BY <2>1, ReadIsNext
  <1>2. QED
        BY <1>1, StreamInvariant, PTL DEF StreamSpec, StreamIsExact
=============================================================================
