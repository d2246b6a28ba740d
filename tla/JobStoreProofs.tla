--------------------------- MODULE JobStoreProofs ---------------------------
(***************************************************************************)
(* Proofs about JobStore and JobHistory: what create() admits stays within *)
(* its bounds, what retention deletes, that the store implements JobTable, *)
(* and that a walk through the history is stable, for any identifiers,     *)
(* scopes, keys, sizes and limits.                                         *)
(***************************************************************************)
EXTENDS JobHistory, FiniteSetTheorems, WellFoundedInduction, TLAPS

(***************************************************************************)
(* The sum of what the members of a finite set weigh.                      *)
(***************************************************************************)
Pick(s) == CHOOSE x \in s : TRUE

IsSum(g, w, S) ==
  g = [s \in SUBSET S |-> IF s = {} THEN 0 ELSE w[Pick(s)] + g[s \ {Pick(s)}]]

Weight(w, S) == MapThenSumSet(LAMBDA x : w[x], S)

LEMMA LeastExists ==
  ASSUME NEW T \in SUBSET Nat, T # {}
  PROVE  \E x \in T : \A y \in T : x <= y
  <1> DEFINE R == {p \in Nat \X Nat : p[1] < p[2]}
  <1>1. R = OpToRel(<, Nat)
        BY DEF OpToRel
  <1>2. IsWellFoundedOn(R, Nat)
        BY <1>1, NatLessThanWellFounded
  <1>3. \E x \in T : \A y \in T : ~(<<y, x>> \in R)
        BY <1>2, WFMin
  <1>4. \A x, y \in T : <<y, x>> \in R <=> y < x
        OBVIOUS
  <1> HIDE DEF R
  <1>5. PICK x \in T : \A y \in T : ~(<<y, x>> \in R)
        BY <1>3
  <1>6. \A y \in T : ~(y < x)
        BY <1>4, <1>5
  <1>7. \A y \in T : x \in Int /\ y \in Int
        OBVIOUS
  <1>8. QED
        BY <1>6, <1>7

(* Of some subsets of a finite set one has no other one below it.            *)
LEMMA SmallestExists ==
  ASSUME NEW S, IsFiniteSet(S), NEW B \in SUBSET SUBSET S, B # {}
  PROVE  \E s \in B : \A t \in SUBSET s : t # s => t \notin B
  <1> DEFINE sizes == {Cardinality(s) : s \in B}
  <1>1. \A s \in B : IsFiniteSet(s) /\ Cardinality(s) \in Nat
        BY FS_Subset, FS_CardinalityType
  <1>2. sizes \subseteq Nat /\ sizes # {}
        BY <1>1
  <1> HIDE DEF sizes
  <1>3. PICK n \in sizes : \A m \in sizes : n <= m
        BY <1>2, LeastExists
  <1>4. PICK s \in B : n = Cardinality(s)
        BY <1>3 DEF sizes
  <1>5. ASSUME NEW t \in SUBSET s, t # s, t \in B PROVE FALSE
        <2>1. Cardinality(t) \in sizes
              BY <1>5 DEF sizes
        <2>2. n <= Cardinality(t)
              BY <1>3, <2>1
        <2>3. Cardinality(t) <= n /\ Cardinality(t) # n
              BY <1>1, <1>4, <1>5, FS_Subset
        <2>4. n \in Nat /\ Cardinality(t) \in Nat
              BY <1>1, <1>4, <1>5
        <2>5. QED
              BY <2>2, <2>3, <2>4
  <1>6. QED
        BY <1>5

LEMMA PickIsIn ==
  ASSUME NEW s, s # {}
  PROVE  Pick(s) \in s
  BY DEF Pick

(* The recursive function behind the sum exists: it is right on the sets of  *)
(* up to n members, for every n.                                             *)
LEMMA SumExists ==
  ASSUME NEW S, IsFiniteSet(S), NEW w, \A x \in S : w[x] \in Nat
  PROVE  \E g : IsSum(g, w, S)
  <1> DEFINE Turn(g, s) == IF s = {} THEN 0 ELSE w[Pick(s)] + g[s \ {Pick(s)}]
             Right(n) == \E g \in [SUBSET S -> Nat] :
                           \A s \in SUBSET S : Cardinality(s) <= n => g[s] = Turn(g, s)
             Bad == {n \in Nat : ~Right(n)}
  <1>1. \A s \in SUBSET S : IsFiniteSet(s) /\ Cardinality(s) \in Nat /\ (Cardinality(s) = 0 <=> s = {})
        BY FS_Subset, FS_CardinalityType, FS_EmptySet
  <1>2. Right(0)
        <2> DEFINE zero == [s \in SUBSET S |-> 0]
        <2>1. zero \in [SUBSET S -> Nat]
              OBVIOUS
        <2>2. \A s \in SUBSET S : Cardinality(s) <= 0 => s = {}
              BY <1>1
        <2>3. QED
              BY <2>1, <2>2
  <1>3. ASSUME NEW n \in Nat, Right(n) PROVE Right(n + 1)
        <2>1. PICK g \in [SUBSET S -> Nat] :
                     \A s \in SUBSET S : Cardinality(s) <= n => g[s] = Turn(g, s)
              BY <1>3
        <2> DEFINE h == [s \in SUBSET S |-> Turn(g, s)]
        <2>2. \A s \in SUBSET S : s # {} =>
                 /\ Pick(s) \in s /\ s \ {Pick(s)} \in SUBSET S
                 /\ Cardinality(s \ {Pick(s)}) = Cardinality(s) - 1
              BY <1>1, PickIsIn, FS_RemoveElement
        <2>3. \A s \in SUBSET S : Turn(g, s) \in Nat
              BY <2>2
        <2>4. h \in [SUBSET S -> Nat]
              BY <2>3
        <2>5. ASSUME NEW s \in SUBSET S, Cardinality(s) <= n + 1 PROVE h[s] = Turn(h, s)
              <3>1. CASE s = {}
                    BY <3>1
              <3>2. CASE s # {}
                    <4>1. Cardinality(s \ {Pick(s)}) <= n
                          BY <1>1, <2>2, <2>5, <3>2
                    <4>2. g[s \ {Pick(s)}] = h[s \ {Pick(s)}]
                          BY <2>1, <2>2, <3>2, <4>1
                    <4>3. QED
                          BY <3>2, <4>2
              <3>3. QED
                    BY <3>1, <3>2
        <2>6. QED
              BY <2>4, <2>5
  <1> HIDE DEF Right
  <1>4. Bad = {}
        <2>1. SUFFICES ASSUME Bad # {} PROVE FALSE
              OBVIOUS
        <2>2. PICK m \in Bad : \A n \in Bad : m <= n
              BY <2>1, LeastExists
        <2>3. m \in Nat /\ m # 0
              BY <1>2
        <2>4. m - 1 \in Nat /\ m - 1 \notin Bad
              BY <2>2, <2>3
        <2>5. Right((m - 1) + 1) /\ (m - 1) + 1 = m
              BY <1>3, <2>3, <2>4
        <2>6. QED
              BY <2>5
  <1>5. Cardinality(S) \in Nat /\ Right(Cardinality(S))
        BY <1>1, <1>4
  <1>6. PICK g \in [SUBSET S -> Nat] :
               \A s \in SUBSET S : Cardinality(s) <= Cardinality(S) => g[s] = Turn(g, s)
        BY <1>5 DEF Right
  <1>7. \A s \in SUBSET S : g[s] = Turn(g, s)
        BY <1>6, FS_Subset
  <1>8. g = [s \in SUBSET S |-> Turn(g, s)]
        BY <1>7
  <1>9. QED
        BY <1>8 DEF IsSum

LEMMA SumIsNatural ==
  ASSUME NEW S, IsFiniteSet(S), NEW w, \A x \in S : w[x] \in Nat, NEW g, IsSum(g, w, S)
  PROVE  \A s \in SUBSET S : g[s] \in Nat
  <1> DEFINE Bad == {s \in SUBSET S : g[s] \notin Nat}
  <1>1. SUFFICES ASSUME Bad # {} PROVE FALSE
        OBVIOUS
  <1>2. PICK s \in Bad : \A t \in SUBSET s : t # s => t \notin Bad
        <2>1. Bad \in SUBSET SUBSET S
              OBVIOUS
        <2> HIDE DEF Bad
        <2>2. QED
              BY <1>1, <2>1, SmallestExists
  <1>3. g[s] = IF s = {} THEN 0 ELSE w[Pick(s)] + g[s \ {Pick(s)}]
        BY DEF IsSum
  <1>4. s # {}
        BY <1>3
  <1>5. Pick(s) \in s /\ s \ {Pick(s)} \in SUBSET s /\ s \ {Pick(s)} # s
        BY <1>4, PickIsIn
  <1>6. g[s \ {Pick(s)}] \in Nat /\ w[Pick(s)] \in Nat
        BY <1>2, <1>5
  <1>7. QED
        BY <1>3, <1>4, <1>6

(* It does not matter which member is taken first.                           *)
LEMMA SumTakesAny ==
  ASSUME NEW S, IsFiniteSet(S), NEW w, \A x \in S : w[x] \in Nat, NEW g, IsSum(g, w, S)
  PROVE  \A s \in SUBSET S : \A x \in s : g[s] = w[x] + g[s \ {x}]
  <1> DEFINE Bad == {s \in SUBSET S : \E x \in s : g[s] # w[x] + g[s \ {x}]}
  <1>1. SUFFICES ASSUME Bad # {} PROVE FALSE
        OBVIOUS
  <1>2. PICK s \in Bad : \A t \in SUBSET s : t # s => t \notin Bad
        <2>1. Bad \in SUBSET SUBSET S
              OBVIOUS
        <2> HIDE DEF Bad
        <2>2. QED
              BY <1>1, <2>1, SmallestExists
  <1>3. PICK x \in s : g[s] # w[x] + g[s \ {x}]
        BY <1>2
  <1> DEFINE y == Pick(s)  less == s \ {y}  other == s \ {x}  both == (s \ {x}) \ {y}
  <1>4. g[s] = w[y] + g[less]
        BY <1>3 DEF IsSum
  <1>5. y \in s /\ x # y
        BY <1>3, <1>4, PickIsIn
  <1>6. less \notin Bad /\ less \in SUBSET S /\ x \in less /\ less \ {x} = both
        BY <1>2, <1>3, <1>5
  <1>7. other \notin Bad /\ other \in SUBSET S /\ y \in other
        BY <1>2, <1>3, <1>5
  <1>8. g[less] = w[x] + g[both] /\ g[other] = w[y] + g[both]
        BY <1>6, <1>7
  <1>9. g[both] \in Nat /\ w[x] \in Nat /\ w[y] \in Nat
        BY <1>3, <1>5, SumIsNatural
  <1> HIDE DEF y, less, other, both, Bad
  <1>10. g[s] = w[x] + g[other]
         BY <1>4, <1>8, <1>9
  <1>11. QED
         BY <1>3, <1>10 DEF other

(* A part that weighs no more sums to no more.                               *)
LEMMA SumsCompare ==
  ASSUME NEW S, IsFiniteSet(S), NEW w, \A x \in S : w[x] \in Nat, NEW g, IsSum(g, w, S),
         NEW T \in SUBSET S, NEW v, \A x \in T : v[x] \in Nat /\ v[x] <= w[x],
         NEW h, IsSum(h, v, T)
  PROVE  h[T] <= g[S]
  <1>0. \A t \in SUBSET T : \A y \in t : h[t] = v[y] + h[t \ {y}]
        <2>1. IsFiniteSet(T)
              BY FS_Subset
        <2>2. \A x \in T : v[x] \in Nat
              OBVIOUS
        <2>3. ASSUME NEW t \in SUBSET T, NEW y \in t PROVE h[t] = v[y] + h[t \ {y}]
              BY <2>1, <2>2, SumTakesAny
        <2>4. QED
              BY <2>3
  <1> DEFINE Bad == {s \in SUBSET S : ~(h[s \cap T] <= g[s])}
  <1>1. SUFFICES ASSUME Bad # {} PROVE FALSE
        <2>1. S \notin Bad /\ S \cap T = T
              BY <1>1
        <2>2. QED
              BY <2>1
  <1>2. PICK s \in Bad : \A t \in SUBSET s : t # s => t \notin Bad
        BY <1>1, SmallestExists
  <1>3. IsFiniteSet(T) /\ \A x \in T : v[x] \in Nat
        BY FS_Subset
  <1>4. \A t \in SUBSET S : g[t] \in Nat /\ h[t \cap T] \in Nat
        BY <1>3, SumIsNatural
  <1>5. s # {}
        BY <1>4 DEF IsSum
  <1>6. PICK x \in s : TRUE
        BY <1>5
  <1> DEFINE less == s \ {x}
  <1>7. less \in SUBSET S /\ less \notin Bad
        BY <1>2, <1>6
  <1>8. h[less \cap T] <= g[less] /\ g[s] = w[x] + g[less]
        BY <1>6, <1>7, SumTakesAny
  <1>9. g[less] \in Nat /\ h[less \cap T] \in Nat /\ w[x] \in Nat
        BY <1>4, <1>6, <1>7
  <1>10. CASE x \in T
         <2>1. (s \cap T) \ {x} = less \cap T /\ x \in s \cap T /\ s \cap T \in SUBSET T
               BY <1>6, <1>10
         <2>3. h[s \cap T] = v[x] + h[less \cap T]
               BY <1>0, <2>1
         <2>4. v[x] \in Nat /\ v[x] <= w[x]
               BY <1>10
         <2> HIDE DEF less
         <2>5. h[s \cap T] <= g[s]
               BY <1>8, <1>9, <2>3, <2>4
         <2>6. QED
               BY <1>2, <2>5
  <1>11. CASE x \notin T
         <2>1. s \cap T = less \cap T
               BY <1>11
         <2>2. h[s \cap T] = h[less \cap T]
               BY <2>1
         <2> HIDE DEF less
         <2>3. h[s \cap T] <= g[s]
               BY <1>8, <1>9, <2>2
         <2>4. QED
               BY <1>2, <2>3
  <1>12. QED
         BY <1>10, <1>11

LEMMA WeightIsSum ==
  ASSUME NEW w, NEW S, IsFiniteSet(S), \A x \in S : w[x] \in Nat
  PROVE  \E h : IsSum(h, w, S) /\ Weight(w, S) = h[S]
  <1> DEFINE F(h) == h = [s \in SUBSET S |-> IF s = {} THEN 0 ELSE w[Pick(s)] + h[s \ {Pick(s)}]]
  <1>1. \E g : F(g)
        <2>1. PICK g : IsSum(g, w, S)
              BY SumExists
        <2>2. QED
              BY <2>1 DEF IsSum
  <1>2. F(CHOOSE h : F(h))
        BY <1>1
  <1>3. Weight(w, S) = (CHOOSE h : F(h))[S]
        BY DEF Weight, MapThenSumSet, MapThenFoldSet, Pick
  <1>4. QED
        BY <1>2, <1>3 DEF IsSum

LEMMA WeightsCompare ==
  ASSUME NEW S, IsFiniteSet(S), NEW w, \A x \in S : w[x] \in Nat,
         NEW T \in SUBSET S, NEW v, \A x \in T : v[x] \in Nat /\ v[x] <= w[x]
  PROVE  Weight(v, T) <= Weight(w, S) /\ Weight(v, T) \in Nat /\ Weight(w, S) \in Nat
  <1>1. PICK g : IsSum(g, w, S) /\ Weight(w, S) = g[S]
        BY WeightIsSum
  <1>2. IsFiniteSet(T) /\ \A x \in T : v[x] \in Nat
        BY FS_Subset
  <1>3. PICK h : IsSum(h, v, T) /\ Weight(v, T) = h[T]
        BY <1>2, WeightIsSum
  <1>4. h[T] <= g[S]
        BY <1>1, <1>3, SumsCompare
  <1>5. h[T] \in Nat /\ g[S] \in Nat
        BY <1>1, <1>2, <1>3, SumIsNatural
  <1>6. QED
        BY <1>1, <1>3, <1>4, <1>5

LEMMA WeightOfOneMore ==
  ASSUME NEW S, IsFiniteSet(S), NEW x, x \notin S, NEW w, \A y \in S \cup {x} : w[y] \in Nat
  PROVE  Weight(w, S \cup {x}) = w[x] + Weight(w, S)
  <1> DEFINE more == S \cup {x}
  <1>1. IsFiniteSet(more)
        BY FS_AddElement
  <1>2. PICK g : IsSum(g, w, more) /\ Weight(w, more) = g[more]
        BY <1>1, WeightIsSum
  <1>3. PICK h : IsSum(h, w, S) /\ Weight(w, S) = h[S]
        BY WeightIsSum
  <1>4. g[more] = w[x] + g[more \ {x}] /\ more \ {x} = S
        BY <1>1, <1>2, SumTakesAny
  <1> DEFINE part == [s \in SUBSET S |-> g[s]]
  <1>5. IsSum(part, w, S)
        <2>1. ASSUME NEW s \in SUBSET S
              PROVE  part[s] = IF s = {} THEN 0 ELSE w[Pick(s)] + part[s \ {Pick(s)}]
              BY <1>2 DEF IsSum
        <2>2. QED
              BY <2>1 DEF IsSum
  <1>6. \A y \in S : w[y] \in Nat /\ w[y] <= w[y]
        OBVIOUS
  <1>7. h[S] <= part[S] /\ part[S] <= h[S]
        BY <1>3, <1>5, <1>6, SumsCompare
  <1>8. h[S] \in Nat /\ part[S] \in Nat
        BY <1>3, <1>5, SumIsNatural
  <1>9. h[S] = g[S]
        BY <1>7, <1>8
  <1>10. QED
         BY <1>2, <1>3, <1>4, <1>9

(***************************************************************************)
(* The bytes the store charges its rows.                                   *)
(***************************************************************************)
Stored == [id \in Ids |-> StoredBytes(id)]

LEMMA BytesAreWeight ==
  \A S \in SUBSET Ids : IsFiniteSet(S) /\ (\A id \in S : StoredBytes(id) \in Nat)
                          => MapThenSumSet(StoredBytes, S) = Weight(Stored, S)
  <1> SUFFICES ASSUME NEW S \in SUBSET Ids, IsFiniteSet(S), \A id \in S : StoredBytes(id) \in Nat
               PROVE  MapThenSumSet(StoredBytes, S) = Weight(Stored, S)
        OBVIOUS
  <1> DEFINE F(h) ==
        h = [s \in SUBSET S |-> IF s = {} THEN 0 ELSE StoredBytes(Pick(s)) + h[s \ {Pick(s)}]]
  <1>1. \A id \in S : Stored[id] = StoredBytes(id) /\ Stored[id] \in Nat
        BY DEF Stored
  <1>2. \A s \in SUBSET S : s # {} => Pick(s) \in S
        BY DEF Pick
  <1>3. \A h : F(h) <=> IsSum(h, Stored, S)
        BY <1>1, <1>2 DEF IsSum
  <1>4. \E h : F(h)
        <2>1. PICK g : IsSum(g, Stored, S)
              BY <1>1, SumExists
        <2>2. QED
              BY <1>3, <2>1
  <1>5. F(CHOOSE h : F(h))
        BY <1>4
  <1>6. MapThenSumSet(StoredBytes, S) = (CHOOSE h : F(h))[S]
        BY DEF MapThenSumSet, MapThenFoldSet, Pick
  <1>7. PICK g : IsSum(g, Stored, S) /\ MapThenSumSet(StoredBytes, S) = g[S]
        BY <1>3, <1>5, <1>6
  <1>8. PICK h : IsSum(h, Stored, S) /\ Weight(Stored, S) = h[S]
        BY <1>1, WeightIsSum
  <1>9. \A id \in S : Stored[id] \in Nat /\ Stored[id] <= Stored[id]
        BY <1>1
  <1>10. g[S] <= h[S] /\ h[S] <= g[S]
         BY <1>7, <1>8, <1>9, SumsCompare
  <1>11. g[S] \in Nat /\ h[S] \in Nat
         BY <1>1, <1>7, <1>8, SumIsNatural
  <1>12. QED
         BY <1>7, <1>8, <1>10, <1>11

LEMMA LogicalIsWeight ==
  IsFiniteSet(Present) /\ (\A id \in Present : StoredBytes(id) \in Nat)
    => LogicalBytes = Weight(Stored, Present)
  BY BytesAreWeight DEF LogicalBytes, Present, With

LEMMA LogicalIsWeightNext ==
  (IsFiniteSet(Present) /\ (\A id \in Present : StoredBytes(id) \in Nat))'
    => (LogicalBytes = Weight(Stored, Present))'
  BY LogicalIsWeight, PTL

-----------------------------------------------------------------------------
(***************************************************************************)
(* The inductive invariant.                                                *)
(***************************************************************************)
Typed ==
  jobs \in [Ids -> Job] /\ now \in 0..MaxTime /\ editing \subseteq Edit

(* What a row says, at a time.                                               *)
RowIsSound(row, time) ==
  /\ row.status \notin Gone => row.kind \in Kinds /\ row.created <= time
  /\ row.status \in Live => row.completed = 0 /\ row.result = 0
  /\ row.status \in Terminal => row.completed \in row.created..time /\ row.result <= Reserve
  /\ row.hidden => row.status \in Terminal

RowsAreSound == \A id \in Ids : RowIsSound(jobs[id], now)

(* A call that may hide a row has seen it settled.                           *)
EditsAreSound ==
  \A e \in editing : e.change.hidden # "keep" => Status(e.id) \in Terminal \cup {"pruned"}

IInv ==
  /\ Typed /\ RowsAreSound /\ EditsAreSound
  /\ IsFiniteSet(Present)
  /\ AdmissionBounds
  /\ SubmissionsConverge

-----------------------------------------------------------------------------
(***************************************************************************)
(* What a step does to a row.                                              *)
(***************************************************************************)
Deleted(old, new) == old.status \in Terminal /\ new = NoJob("pruned")

Changed(old, new, time) ==
  /\ old.status \notin Gone /\ new \in Job /\ new.status \notin Gone
  /\ new.scope = old.scope /\ new.key = old.key
  /\ new.kind = old.kind /\ new.created = old.created
  /\ old.status \in Terminal => new.status \in Terminal /\ new.result = old.result
  /\ new.status = "queued" => old.status = "queued"
  /\ RowIsSound(new, time)

Calm == \A id \in Ids : \/ jobs'[id] = jobs[id]
                        \/ Deleted(jobs[id], jobs'[id])
                        \/ Changed(jobs[id], jobs'[id], now)

Creates == \E id \in Ids, scope \in Scopes, key \in Keys \cup {NoKey}, kind \in Kinds :
             Create(id, scope, key, kind)

LEMMA OneRowChanges ==
  ASSUME Typed, NEW id \in Ids, NEW row,
         jobs' = [jobs EXCEPT ![id] = row], Changed(jobs[id], row, now)
  PROVE  Calm /\ jobs' \in [Ids -> Job]
  <1>1. row \in Job
        BY DEF Changed
  <1>2. \A other \in Ids : jobs'[other] = IF other = id THEN row ELSE jobs[other]
        BY DEF Typed
  <1>3. jobs' \in [Ids -> Job]
        BY <1>1 DEF Typed
  <1>4. QED
        BY <1>2, <1>3 DEF Calm

LEMMA RowIsTyped ==
  ASSUME Typed, RowsAreSound, NEW id \in Ids
  PROVE  jobs[id] \in Job /\ RowIsSound(jobs[id], now)
  BY DEF Typed, RowsAreSound

LEMMA ClaimIsCalm ==
  ASSUME IInv, NEW id \in Ids, Claim(id)
  PROVE  Calm /\ jobs' \in [Ids -> Job]
  <1> DEFINE row == [jobs[id] EXCEPT !.status = "running"]
  <1>1. Typed /\ jobs[id] \in Job /\ RowIsSound(jobs[id], now)
        BY RowIsTyped DEF IInv
  <1>2. jobs[id].status = "queued" /\ jobs' = [jobs EXCEPT ![id] = row]
        BY DEF Claim, Status
  <1>3. row \in Job
        BY <1>1 DEF Job, Live
  <1>4. RowIsSound(row, now)
        BY <1>1, <1>2 DEF RowIsSound, Job, Live, Terminal, Gone
  <1>5. Changed(jobs[id], row, now)
        BY <1>1, <1>2, <1>3, <1>4 DEF Changed, Job, Live, Terminal, Gone
  <1>6. QED
        BY <1>1, <1>2, <1>5, OneRowChanges

LEMMA FinishIsCalm ==
  ASSUME IInv, StoreAssumption, NEW id \in Ids, NEW verdict \in Terminal, NEW size \in Nat,
         size <= Reserve, Finish(id, verdict, size)
  PROVE  Calm /\ jobs' \in [Ids -> Job]
  <1> DEFINE row == [jobs[id] EXCEPT !.status = verdict, !.completed = now, !.result = size]
  <1>1. Typed /\ jobs[id] \in Job /\ RowIsSound(jobs[id], now)
        BY RowIsTyped DEF IInv
  <1>2. jobs[id].status = "running" /\ jobs' = [jobs EXCEPT ![id] = row]
        BY <1>1 DEF Finish, Status
  <1>3. now \in Nat /\ MaxTime \in Nat
        BY <1>1 DEF Typed, StoreAssumption
  <1>4. row \in Job
        BY <1>1, <1>3 DEF Job
  <1>5. RowIsSound(row, now)
        BY <1>1, <1>2, <1>3 DEF RowIsSound, Job, Live, Terminal, Gone
  <1>6. Changed(jobs[id], row, now)
        BY <1>1, <1>2, <1>4, <1>5 DEF Changed, Job, Live, Terminal, Gone
  <1>7. QED
        BY <1>1, <1>2, <1>6, OneRowChanges

LEMMA RequestCancelIsCalm ==
  ASSUME IInv, StoreAssumption, NEW scope \in Scopes, NEW id \in Ids, RequestCancel(scope, id)
  PROVE  Calm /\ jobs' \in [Ids -> Job]
  <1>1. Typed /\ jobs[id] \in Job /\ RowIsSound(jobs[id], now)
        BY RowIsTyped DEF IInv
  <1>2. now \in Nat /\ MaxTime \in Nat
        BY <1>1 DEF Typed, StoreAssumption
  <1>3. CASE Status(id) = "queued"
        <2> DEFINE row == [jobs[id] EXCEPT !.status = "cancelled", !.cancel = TRUE, !.completed = now]
        <2>1. jobs' = [jobs EXCEPT ![id] = row]
              BY <1>3 DEF RequestCancel
        <2>2. row \in Job
              BY <1>1, <1>2 DEF Job, Terminal
        <2>3. jobs[id].result <= Reserve
              BY <1>1, <1>3 DEF RowIsSound, Status, Live, StoreAssumption
        <2>4. RowIsSound(row, now)
              BY <1>1, <1>2, <1>3, <2>3 DEF RowIsSound, Status, Job, Live, Terminal, Gone
        <2>5. Changed(jobs[id], row, now)
              BY <1>1, <1>3, <2>2, <2>4 DEF Changed, Status, Job, Live, Terminal, Gone
        <2>6. QED
              BY <1>1, <2>1, <2>5, OneRowChanges
  <1>4. CASE Status(id) = "running"
        <2> DEFINE row == [jobs[id] EXCEPT !.cancel = TRUE]
        <2>1. jobs' = [jobs EXCEPT ![id] = row]
              BY <1>4 DEF RequestCancel
        <2>2. row \in Job
              BY <1>1 DEF Job
        <2>3. RowIsSound(row, now)
              BY <1>1 DEF RowIsSound, Job
        <2>4. Changed(jobs[id], row, now)
              BY <1>1, <1>4, <2>2, <2>3 DEF Changed, Status, Job, Live, Terminal, Gone
        <2>5. QED
              BY <1>1, <2>1, <2>4, OneRowChanges
  <1>5. CASE Status(id) \notin {"queued", "running"}
        <2>1. jobs' = [jobs EXCEPT ![id] = jobs[id]]
              BY <1>5 DEF RequestCancel
        <2>2. jobs' = jobs
              BY <1>1, <2>1 DEF Typed
        <2>3. QED
              BY <1>1, <2>2 DEF Calm, Typed
  <1>6. QED
        BY <1>3, <1>4, <1>5

LEMMA EditApplyIsCalm ==
  ASSUME IInv, StoreAssumption, NEW e \in Edit, EditApply(e)
  PROVE  Calm /\ jobs' \in [Ids -> Job]
  <1> DEFINE id == e.id
             row == [jobs[id] EXCEPT !.favorite = Set(@, e.change.favorite),
                                     !.hidden = Set(@, e.change.hidden)]
  <1>1. id \in Ids /\ e.change \in [favorite : Change, hidden : Change]
        BY DEF Edit, StoreAssumption
  <1>2. Typed /\ jobs[id] \in Job /\ RowIsSound(jobs[id], now)
        BY <1>1, RowIsTyped DEF IInv
  <1>3. CASE id \in Present
        <2>1. jobs' = [jobs EXCEPT ![id] = row]
              BY <1>2, <1>3 DEF EditApply
        <2>2. jobs[id].status \in Live \cup Terminal
              BY <1>3 DEF Present, With, Status
        <2>3. Set(jobs[id].favorite, e.change.favorite) \in BOOLEAN
              BY <1>1, <1>2 DEF Set, Change, Job
        <2>4. Set(jobs[id].hidden, e.change.hidden) \in BOOLEAN
              BY <1>1, <1>2 DEF Set, Change, Job
        <2>5. row \in Job
              BY <1>2, <2>3, <2>4 DEF Job
        <2>6. Set(jobs[id].hidden, e.change.hidden) => jobs[id].status \in Terminal
              <3>1. CASE e.change.hidden = "keep"
                    BY <1>2, <3>1 DEF Set, RowIsSound
              <3>2. CASE e.change.hidden # "keep"
                    <4>1. jobs[id].status \in Terminal \cup {"pruned"}
                          BY <3>2 DEF IInv, EditsAreSound, EditApply, Status
                    <4>2. QED
                          BY <2>2, <4>1 DEF Live, Terminal
              <3>3. QED
                    BY <3>1, <3>2
        <2>7. RowIsSound(row, now)
              BY <1>2, <2>6 DEF RowIsSound, Job
        <2>8. Changed(jobs[id], row, now)
              BY <1>2, <2>2, <2>5, <2>7 DEF Changed, Job, Live, Terminal, Gone
        <2>9. QED
              BY <1>1, <1>2, <2>1, <2>8, OneRowChanges
  <1>4. CASE id \notin Present
        BY <1>2, <1>4 DEF EditApply, Calm, Typed
  <1>5. QED
        BY <1>3, <1>4

LEMMA RecoverIsCalm ==
  ASSUME IInv, StoreAssumption, RecoverInterrupted
  PROVE  Calm /\ jobs' \in [Ids -> Job]
  <1>1. Typed /\ now \in Nat /\ Reserve \in Nat \ {0}
        BY DEF IInv, Typed, StoreAssumption
  <1>2. ASSUME NEW id \in Ids
        PROVE  /\ jobs'[id] \in Job
               /\ jobs'[id] = jobs[id] \/ Changed(jobs[id], jobs'[id], now)
        <2> DEFINE row == [jobs[id] EXCEPT !.status = "interrupted", !.completed = now, !.result = 1]
        <2>1. jobs[id] \in Job /\ RowIsSound(jobs[id], now)
              BY RowIsTyped DEF IInv
        <2>2. CASE Status(id) = "running"
              <3>1. jobs'[id] = row
                    BY <2>2 DEF RecoverInterrupted
              <3>2. row \in Job
                    BY <1>1, <2>1 DEF Job, Terminal
              <3>3. RowIsSound(row, now)
                    BY <1>1, <2>1, <2>2 DEF RowIsSound, Status, Job, Live, Terminal, Gone
              <3>4. Changed(jobs[id], row, now)
                    BY <2>1, <2>2, <3>2, <3>3 DEF Changed, Status, Job, Live, Terminal, Gone
              <3>5. QED
                    BY <3>1, <3>2, <3>4
        <2>3. CASE Status(id) # "running"
              BY <2>1, <2>3 DEF RecoverInterrupted
        <2>4. QED
              BY <2>2, <2>3
  <1>3. jobs' \in [Ids -> Job]
        BY <1>2 DEF RecoverInterrupted
  <1>4. QED
        BY <1>2, <1>3 DEF Calm

LEMMA DoomedAreSettled ==
  Doomed \subseteq Ordinary /\ Ordinary \subseteq With(Terminal) /\ With(Terminal) \subseteq Ids
  BY DEF Doomed, Expired, Excess, Ordinary, With

LEMMA PruneIsCalm ==
  ASSUME IInv, Prune
  PROVE  Calm /\ jobs' \in [Ids -> Job]
  <1>1. NoJob("pruned") \in Job
        BY DEF NoJob, Job, Gone
  <1>2. \A id \in Doomed : jobs[id].status \in Terminal
        BY DoomedAreSettled DEF With, Status
  <1>3. jobs' \in [Ids -> Job]
        BY <1>1 DEF Prune, IInv, Typed
  <1>4. QED
        BY <1>2, <1>3 DEF Prune, Calm, Deleted

LEMMA StillIsCalm ==
  ASSUME IInv, jobs' = jobs
  PROVE  Calm /\ jobs' \in [Ids -> Job]
  BY DEF IInv, Typed, Calm

(* Every step is calm, or it is the insertion of a row.                      *)
LEMMA StepIsCalm ==
  ASSUME IInv, StoreAssumption, [Next]_vars, ~Creates
  PROVE  Calm /\ jobs' \in [Ids -> Job]
  <1>1. ASSUME NEW id \in Ids, Claim(id) PROVE Calm /\ jobs' \in [Ids -> Job]
        BY <1>1, ClaimIsCalm
  <1>2. ASSUME NEW id \in Ids, NEW size \in ResultSizes, Succeed(id, size)
        PROVE  Calm /\ jobs' \in [Ids -> Job]
        <2>1. size \in Nat /\ size <= Reserve /\ Finish(id, "succeeded", size) /\ "succeeded" \in Terminal
              BY <1>2 DEF Succeed, StoreAssumption, Terminal
        <2>2. QED
              BY <2>1, FinishIsCalm
  <1>3. ASSUME NEW id \in Ids, NEW verdict \in Terminal, NEW size \in ResultSizes,
               Fail(id, verdict, size)
        PROVE  Calm /\ jobs' \in [Ids -> Job]
        <2> DEFINE kept == IF size <= Reserve THEN size ELSE 1
        <2>1. kept \in Nat /\ kept <= Reserve
              BY DEF StoreAssumption
        <2>2. Finish(id, verdict, kept)
              BY <1>3 DEF Fail
        <2>3. QED
              BY <2>1, <2>2, FinishIsCalm
  <1>4. ASSUME NEW scope \in Scopes, NEW id \in Ids, RequestCancel(scope, id)
        PROVE  Calm /\ jobs' \in [Ids -> Job]
        BY <1>4, RequestCancelIsCalm
  <1>5. ASSUME NEW scope \in Scopes, NEW e \in Edit, EditBegin(scope, e)
        PROVE  Calm /\ jobs' \in [Ids -> Job]
        BY <1>5, StillIsCalm DEF EditBegin
  <1>6. ASSUME NEW e \in Edit, EditApply(e) PROVE Calm /\ jobs' \in [Ids -> Job]
        BY <1>6, EditApplyIsCalm
  <1>7. RecoverInterrupted => Calm /\ jobs' \in [Ids -> Job]
        BY RecoverIsCalm
  <1>8. Prune => Calm /\ jobs' \in [Ids -> Job]
        BY PruneIsCalm
  <1>9. Tick \/ UNCHANGED vars => Calm /\ jobs' \in [Ids -> Job]
        BY StillIsCalm DEF Tick, vars
  <1>10. QED
         BY <1>1, <1>2, <1>3, <1>4, <1>5, <1>6, <1>7, <1>8, <1>9 DEF Next, Creates

-----------------------------------------------------------------------------
(* The clock, and the calls that are under way.                              *)
LEMMA TimeGoesOn ==
  ASSUME IInv, StoreAssumption, [Next]_vars
  PROVE  /\ now \in Nat /\ now' \in 0..MaxTime /\ now <= now'
         /\ editing' \subseteq Edit
         /\ \A e \in editing' : \/ e \in editing
                                \/ e.change.hidden # "keep" => Status(e.id) \in Terminal
  <1>1. now \in 0..MaxTime /\ MaxTime \in Nat /\ editing \subseteq Edit
        BY DEF IInv, Typed, StoreAssumption
  <1>2. CASE Tick
        BY <1>1, <1>2 DEF Tick
  <1>3. CASE \E scope \in Scopes, e \in Edit : EditBegin(scope, e)
        BY <1>1, <1>3 DEF EditBegin
  <1>4. CASE \E e \in Edit : EditApply(e)
        BY <1>1, <1>4 DEF EditApply
  <1>5. CASE RecoverInterrupted
        <2>1. now' = now /\ editing' = {}
              BY <1>5 DEF RecoverInterrupted
        <2>2. QED
              BY <1>1, <2>1
  <1>6. CASE Creates
        BY <1>1, <1>6 DEF Creates, Create
  <1>7. CASE \E id \in Ids : Claim(id)
        BY <1>1, <1>7 DEF Claim
  <1>8. CASE \/ \E id \in Ids, size \in ResultSizes : Succeed(id, size)
             \/ \E id \in Ids, verdict \in Terminal, size \in ResultSizes : Fail(id, verdict, size)
        <2>1. now' = now /\ editing' = editing
              BY <1>8 DEF Succeed, Fail, Finish
        <2>2. QED
              BY <1>1, <2>1
  <1>9. CASE \E scope \in Scopes, id \in Ids : RequestCancel(scope, id)
        BY <1>1, <1>9 DEF RequestCancel
  <1>10. CASE Prune \/ UNCHANGED vars
         BY <1>1, <1>10 DEF Prune, vars
  <1>11. QED
         BY <1>2, <1>3, <1>4, <1>5, <1>6, <1>7, <1>8, <1>9, <1>10 DEF Next, Creates

(* A row that create() inserts.                                              *)
Fresh(scope, key, kind, time) ==
  [NoJob("queued") EXCEPT !.scope = scope, !.key = key, !.kind = kind, !.created = time]

LEMMA CreateInserts ==
  ASSUME IInv, StoreAssumption, NEW id \in Ids, NEW scope \in Scopes, NEW key \in Keys \cup {NoKey},
         NEW kind \in Kinds, Create(id, scope, key, kind)
  PROVE  /\ jobs' = [jobs EXCEPT ![id] = Fresh(scope, key, kind, now)]
         /\ Fresh(scope, key, kind, now) \in Job /\ RowIsSound(Fresh(scope, key, kind, now), now)
         /\ jobs' \in [Ids -> Job]
         /\ id \notin Present /\ Present' = Present \cup {id}
         /\ With({"queued"})' = With({"queued"}) \cup {id}
  <1> DEFINE row == Fresh(scope, key, kind, now)
  <1>1. jobs \in [Ids -> Job] /\ now \in Nat
        BY DEF IInv, Typed, StoreAssumption
  <1>2. jobs' = [jobs EXCEPT ![id] = row] /\ jobs[id].status = "absent"
        BY DEF Create, Fresh, Status
  <1>3. row \in Job
        BY <1>1 DEF Fresh, NoJob, Job, Live
  <1>4. row.status = "queued" /\ row.completed = 0 /\ row.result = 0 /\ row.kind = kind
        /\ row.created = now /\ row.hidden = FALSE
        BY DEF Fresh, NoJob
  <1>5. RowIsSound(row, now)
        BY <1>1, <1>4 DEF RowIsSound, Live, Terminal, Gone
  <1> HIDE DEF row
  <1>6. \A other \in Ids : jobs'[other] = IF other = id THEN row ELSE jobs[other]
        BY <1>1, <1>2
  <1>7. jobs' \in [Ids -> Job]
        BY <1>1, <1>2, <1>3
  <1>8. id \notin Present /\ Present' = Present \cup {id}
        BY <1>2, <1>4, <1>6 DEF Present, With, Status, Live, Terminal
  <1>9. With({"queued"})' = With({"queued"}) \cup {id}
        BY <1>4, <1>6 DEF With, Status
  <1>10. QED
         BY <1>2, <1>3, <1>5, <1>7, <1>8, <1>9 DEF row

LEMMA SoundLater ==
  ASSUME NEW row \in Job, NEW time \in Nat, NEW later \in Nat, time <= later, RowIsSound(row, time)
  PROVE  RowIsSound(row, later)
  <1>1. row.created \in Nat /\ row.completed \in Nat
        BY DEF Job
  <1>2. QED
        BY <1>1 DEF RowIsSound

LEMMA TypesStep ==
  ASSUME IInv, StoreAssumption, [Next]_vars
  PROVE  Typed' /\ RowsAreSound'
  <1>1. now \in Nat /\ now' \in 0..MaxTime /\ now' \in Nat /\ now <= now' /\ editing' \subseteq Edit
        BY TimeGoesOn DEF StoreAssumption
  <1>2. jobs' \in [Ids -> Job] /\ \A id \in Ids : RowIsSound(jobs'[id], now)
        <2>1. CASE Creates
              <3>1. PICK id \in Ids, scope \in Scopes, key \in Keys \cup {NoKey}, kind \in Kinds :
                           Create(id, scope, key, kind)
                    BY <2>1 DEF Creates
              <3> DEFINE row == Fresh(scope, key, kind, now)
              <3>2. jobs' = [jobs EXCEPT ![id] = row] /\ RowIsSound(row, now) /\ jobs' \in [Ids -> Job]
                    BY <3>1, CreateInserts
              <3>3. \A other \in Ids : jobs'[other] = IF other = id THEN row ELSE jobs[other]
                    BY <3>2 DEF IInv, Typed
              <3>4. QED
                    BY <3>2, <3>3 DEF IInv, RowsAreSound
        <2>2. CASE ~Creates
              <3>1. Calm /\ jobs' \in [Ids -> Job]
                    BY <2>2, StepIsCalm
              <3>2. RowIsSound(NoJob("pruned"), now)
                    BY DEF RowIsSound, NoJob, Gone, Live, Terminal
              <3>3. QED
                    BY <3>1, <3>2 DEF Calm, Deleted, Changed, IInv, RowsAreSound
        <2>3. QED
              BY <2>1, <2>2
  <1>3. \A id \in Ids : RowIsSound(jobs'[id], now')
        BY <1>1, <1>2, SoundLater
  <1>4. QED
        BY <1>1, <1>2, <1>3 DEF Typed, RowsAreSound

LEMMA EditsStep ==
  ASSUME IInv, StoreAssumption, [Next]_vars
  PROVE  EditsAreSound'
  <1>1. ASSUME NEW id \in Ids, Status(id) \in Terminal \cup {"pruned"}
        PROVE  Status(id)' \in Terminal \cup {"pruned"}
        <2>1. CASE Creates
              <3>1. PICK new \in Ids, scope \in Scopes, key \in Keys \cup {NoKey}, kind \in Kinds :
                           Create(new, scope, key, kind)
                    BY <2>1 DEF Creates
              <3>2. new # id
                    BY <1>1, <3>1 DEF Create, Terminal
              <3>3. jobs'[id] = jobs[id]
                    BY <3>1, <3>2, CreateInserts DEF IInv, Typed
              <3>4. QED
                    BY <1>1, <3>3 DEF Status
        <2>2. CASE ~Creates
              <3>1. Calm
                    BY <2>2, StepIsCalm
              <3>2. NoJob("pruned").status = "pruned"
                    BY DEF NoJob
              <3>3. QED
                    BY <1>1, <3>1, <3>2 DEF Calm, Deleted, Changed, Status, Gone
        <2>3. QED
              BY <2>1, <2>2
  <1>2. ASSUME NEW e \in editing', e.change.hidden # "keep"
        PROVE  Status(e.id)' \in Terminal \cup {"pruned"}
        <2>1. e.id \in Ids
              BY TimeGoesOn DEF Edit
        <2>2. Status(e.id) \in Terminal \cup {"pruned"}
              BY <1>2, TimeGoesOn DEF IInv, EditsAreSound
        <2>3. QED
              BY <1>1, <2>1, <2>2
  <1>3. QED
        BY <1>2 DEF EditsAreSound

(* In a calm step no row appears.                                            *)
LEMMA CalmRow ==
  ASSUME Typed, Calm, NEW id \in Present'
  PROVE  /\ id \in Present
         /\ jobs'[id] = jobs[id] \/ Changed(jobs[id], jobs'[id], now)
  <1>1. id \in Ids /\ jobs'[id].status \in Live \cup Terminal
        BY DEF Present, With, Status
  <1>2. ~Deleted(jobs[id], jobs'[id])
        BY <1>1 DEF Deleted, NoJob, Live, Terminal
  <1>3. jobs'[id] = jobs[id] \/ Changed(jobs[id], jobs'[id], now)
        BY <1>1, <1>2 DEF Calm
  <1>4. jobs[id].status \in Live \cup Terminal
        BY <1>1, <1>3 DEF Changed, Typed, Job
  <1>5. QED
        BY <1>1, <1>3, <1>4 DEF Present, With, Status

LEMMA PresentStep ==
  ASSUME IInv, StoreAssumption, [Next]_vars
  PROVE  IsFiniteSet(Present')
  <1>1. CASE Creates
        BY <1>1, CreateInserts, FS_AddElement DEF Creates, IInv
  <1>2. CASE ~Creates
        <2>1. Typed /\ Calm
              BY <1>2, StepIsCalm DEF IInv
        <2>2. Present' \subseteq Present
              BY <2>1, CalmRow
        <2>3. QED
              BY <2>2, FS_Subset DEF IInv
  <1>3. QED
        BY <1>1, <1>2

LEMMA BytesAreNatural ==
  Typed /\ RowsAreSound => \A id \in Present : StoredBytes(id) \in Nat
  <1> SUFFICES ASSUME Typed, RowsAreSound, NEW id \in Present
               PROVE  StoredBytes(id) \in Nat
        OBVIOUS
  <1>1. id \in Ids /\ jobs[id].status \in Live \cup Terminal
        BY DEF Present, With, Status
  <1>2. jobs[id].kind \in Kinds /\ jobs[id].result \in Nat
        BY <1>1 DEF Typed, Job, RowsAreSound, RowIsSound, Live, Terminal, Gone
  <1>3. Cost[jobs[id].kind] \in Nat /\ Reserve \in Nat
        BY <1>2, StoreAssumption
  <1>4. QED
        BY <1>2, <1>3 DEF StoredBytes

LEMMA BytesAreNaturalNext ==
  (Typed /\ RowsAreSound)' => (\A id \in Present : StoredBytes(id) \in Nat)'
  BY BytesAreNatural, PTL

(* Neither a verdict, with its result or error, nor a recovery makes a row   *)
(* larger than what it was charged while it was live.                        *)
LEMMA RowsShrink ==
  ASSUME IInv, StoreAssumption, Calm, jobs' \in [Ids -> Job], NEW id \in Present'
  PROVE  StoredBytes(id)' <= StoredBytes(id)
  <1>1. Typed /\ RowsAreSound
        BY DEF IInv
  <1>2. id \in Present /\ (jobs'[id] = jobs[id] \/ Changed(jobs[id], jobs'[id], now))
        BY <1>1, CalmRow
  <1>3. id \in Ids /\ jobs[id].status \in Live \cup Terminal /\ StoredBytes(id) \in Nat
        BY <1>1, <1>2, BytesAreNatural DEF Present, With, Status
  <1>4. CASE jobs'[id] = jobs[id]
        <2>1. StoredBytes(id)' = StoredBytes(id)
              BY <1>4 DEF StoredBytes, Status
        <2>2. QED
              BY <1>3, <2>1
  <1>5. CASE Changed(jobs[id], jobs'[id], now)
        <2> DEFINE new == jobs'[id]
        <2>1. /\ new.kind = jobs[id].kind /\ new.status \in Live \cup Terminal
              /\ new.status \in Live => jobs[id].status \in Live
              /\ new.status \in Terminal => new.result <= Reserve
              /\ jobs[id].status \in Terminal => new.result = jobs[id].result
              /\ new.result \in Nat
              BY <1>3, <1>5 DEF Changed, RowIsSound, Job, Live, Terminal, Gone
        <2>2. Cost[jobs[id].kind] \in Nat /\ Reserve \in Nat /\ jobs[id].result \in Nat
              <3>1. jobs[id].kind \in Kinds /\ jobs[id].result \in Nat
                    BY <1>1, <1>3 DEF Typed, Job, RowsAreSound, RowIsSound, Live, Terminal, Gone
              <3>2. QED
                    BY <3>1, StoreAssumption
        <2>3. StoredBytes(id)' = Cost[new.kind] + (IF new.status \in Live THEN Reserve ELSE new.result)
              BY DEF StoredBytes, Status
        <2>4. StoredBytes(id) = Cost[jobs[id].kind] + (IF jobs[id].status \in Live THEN Reserve
                                                       ELSE jobs[id].result)
              BY DEF StoredBytes, Status
        <2>5. (IF new.status \in Live THEN Reserve ELSE new.result)
                <= (IF jobs[id].status \in Live THEN Reserve ELSE jobs[id].result)
              BY <1>3, <2>1, <2>2
        <2> DEFINE a == IF new.status \in Live THEN Reserve ELSE new.result
                   b == IF jobs[id].status \in Live THEN Reserve ELSE jobs[id].result
                   c == Cost[jobs[id].kind]
        <2>6. a \in Nat /\ b \in Nat /\ c \in Nat
              BY <2>1, <2>2
        <2>7. StoredBytes(id)' = c + a /\ StoredBytes(id) = c + b /\ a <= b
              BY <2>1, <2>3, <2>4, <2>5
        <2> HIDE DEF a, b, c
        <2>8. QED
              BY <2>6, <2>7
  <1>6. QED
        BY <1>2, <1>4, <1>5

LEMMA LogicalBytesStep ==
  ASSUME IInv, StoreAssumption, [Next]_vars
  PROVE  LogicalBytes' <= MaxDatabaseBytes
  <1>1. Typed' /\ RowsAreSound' /\ IsFiniteSet(Present') /\ IsFiniteSet(Present)
        BY TypesStep, PresentStep DEF IInv
  <1>2. \A id \in Present : StoredBytes(id) \in Nat
        BY BytesAreNatural DEF IInv
  <1>3. \A id \in Present' : StoredBytes(id)' \in Nat
        BY <1>1, BytesAreNaturalNext
  <1>4. LogicalBytes = Weight(Stored, Present) /\ LogicalBytes' = Weight(Stored', Present')
        <2>1. LogicalBytes = Weight(Stored, Present)
              BY <1>1, <1>2, LogicalIsWeight
        <2>2. (LogicalBytes = Weight(Stored, Present))'
              BY <1>1, <1>3, LogicalIsWeightNext
        <2>3. Weight(Stored, Present)' = Weight(Stored', Present')
              BY DEF Weight, MapThenSumSet, MapThenFoldSet
        <2>4. QED
              BY <2>1, <2>2, <2>3
  <1>5. Present \subseteq Ids /\ Present' \subseteq Ids
        BY DEF Present, With
  <1>6. /\ \A id \in Present : Stored[id] = StoredBytes(id) /\ Stored[id] \in Nat
        /\ \A id \in Present' : Stored'[id] = StoredBytes(id)' /\ Stored'[id] \in Nat
        BY <1>2, <1>3, <1>5 DEF Stored
  <1>7. LogicalBytes <= MaxDatabaseBytes /\ MaxDatabaseBytes \in Nat
        BY DEF IInv, AdmissionBounds, StoreAssumption
  <1>8. CASE ~Creates
        <2>1. Calm /\ jobs' \in [Ids -> Job] /\ Typed
              BY <1>8, StepIsCalm DEF IInv
        <2>2. Present' \subseteq Present
              BY <2>1, CalmRow
        <2>3. \A id \in Present' : Stored'[id] <= Stored[id]
              BY <1>6, <2>1, <2>2, RowsShrink
        <2>4. /\ Weight(Stored', Present') <= Weight(Stored, Present)
              /\ Weight(Stored', Present') \in Nat /\ Weight(Stored, Present) \in Nat
              BY <1>1, <1>6, <2>2, <2>3, WeightsCompare
        <2>5. QED
              BY <1>4, <1>7, <2>4
  <1>9. CASE Creates
        <2>1. PICK id \in Ids, scope \in Scopes, key \in Keys \cup {NoKey}, kind \in Kinds :
                     Create(id, scope, key, kind)
              BY <1>9 DEF Creates
        <2>2. /\ jobs' = [jobs EXCEPT ![id] = Fresh(scope, key, kind, now)]
              /\ id \notin Present /\ Present' = Present \cup {id}
              BY <2>1, CreateInserts
        <2>3. \A other \in Present : Stored'[other] = Stored[other]
              <3>1. \A other \in Present : jobs'[other] = jobs[other]
                    BY <1>5, <2>2 DEF IInv, Typed
              <3>2. QED
                    BY <1>5, <3>1 DEF Stored, StoredBytes, Status
        <2>4. Stored'[id] = NewJobBytes(kind)
              <3>1. jobs'[id] = Fresh(scope, key, kind, now)
                    BY <2>2 DEF IInv, Typed
              <3>2. jobs'[id].kind = kind /\ jobs'[id].status = "queued"
                    BY <3>1 DEF Fresh, NoJob
              <3>3. QED
                    BY <3>2 DEF Stored, StoredBytes, Status, Live, NewJobBytes
        <2>5. Weight(Stored', Present') = Stored'[id] + Weight(Stored', Present)
              BY <1>1, <1>6, <2>2, WeightOfOneMore
        <2>6. \A other \in Present : /\ Stored'[other] \in Nat /\ Stored[other] \in Nat
                                     /\ Stored'[other] <= Stored[other]
              BY <1>6, <2>3
        <2>7. /\ Weight(Stored', Present) <= Weight(Stored, Present)
              /\ Weight(Stored', Present) \in Nat /\ Weight(Stored, Present) \in Nat
              BY <1>1, <2>6, WeightsCompare
        <2>8. LogicalBytes + NewJobBytes(kind) <= MaxDatabaseBytes
              BY <2>1 DEF Create, Fits
        <2>9. Stored'[id] \in Nat
              BY <1>6, <2>2
        <2>10. QED
               BY <1>4, <1>7, <2>4, <2>5, <2>7, <2>8, <2>9
  <1>10. QED
         BY <1>8, <1>9

LEMMA QueueStep ==
  ASSUME IInv, StoreAssumption, [Next]_vars
  PROVE  Cardinality(With({"queued"})') <= MaxPending
  <1> DEFINE before == With({"queued"})  after == With({"queued"})'
  <1>1. before \subseteq Present
        BY DEF Present, With, Live
  <1>2. IsFiniteSet(before) /\ Cardinality(before) \in Nat /\ MaxPending \in Nat
        BY <1>1, FS_Subset, FS_CardinalityType DEF IInv, StoreAssumption
  <1>3. Cardinality(before) <= MaxPending
        BY DEF IInv, AdmissionBounds
  <1>4. CASE Creates
        <2>1. PICK id \in Ids, scope \in Scopes, key \in Keys \cup {NoKey}, kind \in Kinds :
                     Create(id, scope, key, kind)
              BY <1>4 DEF Creates
        <2>2. after = before \cup {id} /\ id \notin Present
              BY <2>1, CreateInserts
        <2>3. Cardinality(before) < MaxPending
              BY <2>1 DEF Create, Fits
        <2>4. Cardinality(after) = Cardinality(before) + 1
              BY <1>1, <1>2, <2>2, FS_AddElement
        <2>5. QED
              BY <1>2, <2>3, <2>4
  <1>5. CASE ~Creates
        <2>1. Calm /\ Typed
              BY <1>5, StepIsCalm DEF IInv
        <2>2. ASSUME NEW id \in after PROVE id \in before
              <3>1. id \in Ids /\ jobs'[id].status = "queued"
                    BY DEF With, Status
              <3>2. id \in Present'
                    BY <3>1 DEF Present, With, Status, Live
              <3>3. jobs'[id] = jobs[id] \/ Changed(jobs[id], jobs'[id], now)
                    BY <2>1, <3>2, CalmRow
              <3>4. QED
                    BY <3>1, <3>3 DEF Changed, With, Status
        <2>3. after \subseteq before
              BY <2>2
        <2>4. Cardinality(after) <= Cardinality(before) /\ Cardinality(after) \in Nat
              BY <1>2, <2>3, FS_Subset, FS_CardinalityType
        <2>5. QED
              BY <1>2, <1>3, <2>4
  <1>6. QED
        BY <1>4, <1>5

LEMMA ConvergeStep ==
  ASSUME IInv, StoreAssumption, [Next]_vars
  PROVE  SubmissionsConverge'
  <1>1. SUFFICES ASSUME NEW a \in Present', NEW b \in Present',
                        jobs'[a].key # NoKey, jobs'[a].key = jobs'[b].key,
                        jobs'[a].scope = jobs'[b].scope
                 PROVE  a = b
        BY DEF SubmissionsConverge
  <1>2. CASE ~Creates
        <2>1. Calm /\ Typed
              BY <1>2, StepIsCalm DEF IInv
        <2>2. /\ a \in Present /\ jobs'[a].key = jobs[a].key /\ jobs'[a].scope = jobs[a].scope
              /\ b \in Present /\ jobs'[b].key = jobs[b].key /\ jobs'[b].scope = jobs[b].scope
              BY <2>1, CalmRow DEF Changed
        <2>3. QED
              BY <1>1, <2>2 DEF IInv, SubmissionsConverge
  <1>3. CASE Creates
        <2>1. PICK id \in Ids, scope \in Scopes, key \in Keys \cup {NoKey}, kind \in Kinds :
                     Create(id, scope, key, kind)
              BY <1>3 DEF Creates
        <2>2. /\ jobs' = [jobs EXCEPT ![id] = Fresh(scope, key, kind, now)]
              /\ id \notin Present /\ Present' = Present \cup {id}
              BY <2>1, CreateInserts
        <2>3. jobs'[id].key = key /\ jobs'[id].scope = scope
              BY <2>2 DEF Fresh, NoJob, IInv, Typed
        <2>4. \A other \in Present : other \in Ids /\ other # id /\ jobs'[other] = jobs[other]
              BY <2>2 DEF IInv, Typed, Present, With
        <2>5. ASSUME NEW other \in Present, key # NoKey, jobs[other].key = key,
                     jobs[other].scope = scope
              PROVE  FALSE
              <3>1. other \in SameSubmission(scope, key)
                    BY <2>5 DEF SameSubmission, Owned
              <3>2. QED
                    BY <2>1, <3>1 DEF Create
        <2>6. CASE a = id /\ b # id
              BY <1>1, <2>2, <2>3, <2>4, <2>5, <2>6
        <2>7. CASE a # id /\ b = id
              BY <1>1, <2>2, <2>3, <2>4, <2>5, <2>7
        <2>8. CASE a # id /\ b # id
              BY <1>1, <2>2, <2>4, <2>8 DEF IInv, SubmissionsConverge
        <2>9. QED
              BY <2>6, <2>7, <2>8
  <1>4. QED
        BY <1>2, <1>3

-----------------------------------------------------------------------------
LEMMA InitInv == StoreAssumption /\ Init => IInv
  <1> SUFFICES ASSUME StoreAssumption, Init PROVE IInv
        OBVIOUS
  <1>1. jobs = [id \in Ids |-> NoJob("absent")] /\ now = 0 /\ editing = {}
        BY DEF Init
  <1>2. NoJob("absent") \in Job /\ NoJob("absent").status = "absent" /\ ~NoJob("absent").hidden
        BY DEF NoJob, Job, Gone
  <1>3. Typed
        BY <1>1, <1>2 DEF Typed, StoreAssumption
  <1>4. RowsAreSound
        BY <1>1, <1>2 DEF RowsAreSound, RowIsSound, Gone, Live, Terminal
  <1>5. EditsAreSound
        BY <1>1 DEF EditsAreSound
  <1>6. Present = {} /\ With({"queued"}) = {}
        BY <1>1, <1>2 DEF Present, With, Status, Live, Terminal
  <1>7. IsFiniteSet({}) /\ Cardinality({}) = 0
        BY FS_EmptySet
  <1>8. LogicalBytes = 0
        <2>1. LogicalBytes = Weight(Stored, {})
              BY <1>6, <1>7, LogicalIsWeight
        <2>2. PICK h : IsSum(h, Stored, {}) /\ Weight(Stored, {}) = h[{}]
              BY <1>7, WeightIsSum
        <2>3. QED
              BY <2>1, <2>2 DEF IsSum
  <1>9. AdmissionBounds
        <2>1. 0 <= MaxDatabaseBytes /\ 0 <= MaxPending
              BY DEF StoreAssumption
        <2>2. LogicalBytes = 0 /\ Cardinality(With({"queued"})) = 0
              BY <1>6, <1>7, <1>8
        <2>3. QED
              BY <2>1, <2>2 DEF AdmissionBounds
  <1>10. SubmissionsConverge
         BY <1>6 DEF SubmissionsConverge
  <1>11. QED
         BY <1>3, <1>4, <1>5, <1>6, <1>7, <1>9, <1>10 DEF IInv

LEMMA InvIsEnough == IInv => Admissions /\ HiddenOnlyTerminal
  <1> SUFFICES ASSUME IInv PROVE Admissions /\ HiddenOnlyTerminal
        OBVIOUS
  <1>1. TypeOK
        BY DEF IInv, Typed, RowsAreSound, RowIsSound, TypeOK, With, Status
  <1>2. HiddenOnlyTerminal
        BY DEF IInv, RowsAreSound, RowIsSound, HiddenOnlyTerminal, Status
  <1>3. QED
        BY <1>1, <1>2 DEF IInv, Admissions

LEMMA NextKeepsInv == StoreAssumption /\ IInv /\ [Next]_vars => IInv'
  <1> SUFFICES ASSUME StoreAssumption, IInv, [Next]_vars PROVE IInv'
        OBVIOUS
  <1>1. Typed' /\ RowsAreSound' /\ EditsAreSound' /\ IsFiniteSet(Present') /\ SubmissionsConverge'
        BY TypesStep, EditsStep, PresentStep, ConvergeStep
  <1>2. LogicalBytes' <= MaxDatabaseBytes /\ Cardinality(With({"queued"})') <= MaxPending
        BY LogicalBytesStep, QueueStep
  <1>3. AdmissionBounds'
        BY <1>2 DEF AdmissionBounds
  <1>4. QED
        BY <1>1, <1>3 DEF IInv

LEMMA Invariance == Spec => []IInv
  BY StoreAssumption, InitInv, NextKeepsInv, PTL DEF Spec

(* create() admits within max_pending and the byte bound, and the bounds     *)
(* hold whatever becomes of the rows: a live row is charged the reserve its  *)
(* result or error may need.  Submissions of a scope under one key meet one  *)
(* row.                                                                      *)
THEOREM AdmissionsHold == Spec => []Admissions
  BY Invariance, InvIsEnough, PTL

-----------------------------------------------------------------------------
(***************************************************************************)
(* Retention.                                                              *)
(***************************************************************************)
LEMMA OnlyPrunePrunes ==
  ASSUME IInv, StoreAssumption, [Next]_vars, ~Prune, NEW id \in Present
  PROVE  jobs'[id].status # "pruned"
  <1>1. id \in Ids /\ jobs[id].status \in Live \cup Terminal /\ Typed /\ jobs[id].status # "pruned"
        BY DEF Present, With, Status, IInv, Live, Terminal
  <1>2. ASSUME NEW other \in Ids, NEW row, row.status # "pruned",
               jobs' = [jobs EXCEPT ![other] = row]
        PROVE  jobs'[id].status # "pruned"
        BY <1>1, <1>2 DEF Typed
  <1>3. CASE Creates
        <2>1. PICK new \in Ids, scope \in Scopes, key \in Keys \cup {NoKey}, kind \in Kinds :
                     Create(new, scope, key, kind)
              BY <1>3 DEF Creates
        <2>2. jobs' = [jobs EXCEPT ![new] = Fresh(scope, key, kind, now)] /\ new \notin Present
              BY <2>1, CreateInserts
        <2>3. jobs'[id] = jobs[id]
              BY <1>1, <2>2 DEF Typed
        <2>4. QED
              BY <1>1, <2>3
  <1>4. CASE \E other \in Ids : Claim(other)
        BY <1>1, <1>4 DEF Claim, Typed, Job
  <1>5. ASSUME NEW other \in Ids, NEW verdict \in Terminal, NEW size, Finish(other, verdict, size)
        PROVE  jobs'[id].status # "pruned"
        <2> DEFINE row == [jobs[other] EXCEPT !.status = verdict, !.completed = now, !.result = size]
        <2>1. jobs' = [jobs EXCEPT ![other] = row] /\ jobs[other] \in Job
              BY <1>1, <1>5 DEF Finish, Typed
        <2>2. row.status # "pruned"
              BY <2>1 DEF Terminal, Job
        <2>3. QED
              BY <1>2, <2>1, <2>2
  <1>6. CASE \/ \E other \in Ids, size \in ResultSizes : Succeed(other, size)
             \/ \E other \in Ids, verdict \in Terminal, size \in ResultSizes : Fail(other, verdict, size)
        BY <1>5, <1>6 DEF Succeed, Fail, Terminal
  <1>7. ASSUME NEW scope \in Scopes, NEW other \in Ids, RequestCancel(scope, other)
        PROVE  jobs'[id].status # "pruned"
        <2>1. CASE other # id
              BY <1>1, <1>7, <2>1 DEF RequestCancel, Typed
        <2>2. CASE other = id
              BY <1>1, <1>7, <2>2 DEF RequestCancel, Typed, Job, Status
        <2>3. QED
              BY <2>1, <2>2
  <1>8. CASE \E e \in Edit : EditApply(e)
        <2>1. PICK e \in Edit : EditApply(e)
              BY <1>8
        <2>2. jobs[id] \in Job
              BY <1>1 DEF Typed
        <2>3. jobs'[id].status = jobs[id].status
              BY <1>1, <2>1, <2>2 DEF EditApply, Typed, Job
        <2>4. QED
              BY <1>1, <2>3
  <1>9. CASE RecoverInterrupted
        <2>1. jobs[id] \in Job
              BY <1>1 DEF Typed
        <2>2. QED
              BY <1>1, <1>9, <2>1 DEF RecoverInterrupted, Job
  <1>10. CASE \/ \E scope \in Scopes, e \in Edit : EditBegin(scope, e)
              \/ Tick \/ UNCHANGED vars
         BY <1>1, <1>10 DEF EditBegin, Tick, vars
  <1>11. QED
         BY <1>3, <1>4, <1>6, <1>7, <1>8, <1>9, <1>10 DEF Next, Creates

(* What is newer than a row is newer than every older one.                   *)
LEMMA NewerIsTransitive ==
  ASSUME Typed, StoreAssumption, NEW a \in Ids, NEW b \in Ids, NEW c \in Ids, Newer(a, b), Newer(b, c)
  PROVE  Newer(a, c)
  <1>1. a \in Nat /\ b \in Nat /\ c \in Nat
        BY DEF StoreAssumption
  <1>2. jobs[a].created \in Nat /\ jobs[b].created \in Nat /\ jobs[c].created \in Nat
        BY DEF Typed, Job
  <1>3. QED
        BY <1>1, <1>2 DEF Newer

LEMMA OlderExceedsToo ==
  ASSUME IInv, StoreAssumption, NEW S \in SUBSET Present, NEW a \in Excess(S), NEW b \in S, Newer(a, b)
  PROVE  b \in Excess(S)
  <1>1. S \subseteq Ids /\ a \in S /\ Typed
        BY DEF Present, With, Excess, IInv
  <1>2. UpTo(a, S) \subseteq UpTo(b, S)
        BY <1>1, NewerIsTransitive DEF UpTo
  <1>3. IsFiniteSet(UpTo(b, S)) /\ UpTo(b, S) \in SUBSET Present /\ UpTo(b, S) \in SUBSET Ids
        BY <1>1, FS_Subset DEF UpTo, IInv
  <1>4. IsFiniteSet(UpTo(a, S)) /\ UpTo(a, S) \in SUBSET Present /\ UpTo(a, S) \in SUBSET Ids
        BY <1>2, <1>3, FS_Subset
  <1>5. Cardinality(UpTo(a, S)) <= Cardinality(UpTo(b, S))
        BY <1>2, <1>3, FS_Subset
  <1>6. \A id \in Present : StoredBytes(id) \in Nat
        BY BytesAreNatural DEF IInv
  <1>7. /\ MapThenSumSet(StoredBytes, UpTo(a, S)) = Weight(Stored, UpTo(a, S))
        /\ MapThenSumSet(StoredBytes, UpTo(b, S)) = Weight(Stored, UpTo(b, S))
        BY <1>3, <1>4, <1>6, BytesAreWeight
  <1>8. \A id \in UpTo(b, S) : Stored[id] \in Nat /\ Stored[id] <= Stored[id]
        BY <1>3, <1>6 DEF Stored
  <1>9. /\ Weight(Stored, UpTo(a, S)) <= Weight(Stored, UpTo(b, S))
        /\ Weight(Stored, UpTo(a, S)) \in Nat /\ Weight(Stored, UpTo(b, S)) \in Nat
        BY <1>2, <1>3, <1>8, WeightsCompare
  <1>10. Cardinality(UpTo(a, S)) \in Nat /\ Cardinality(UpTo(b, S)) \in Nat
         BY <1>3, <1>4, FS_CardinalityType
  <1>11. MaxRetained \in Nat /\ MaxRetainedBytes \in Nat
         BY DEF StoreAssumption
  <1>12. \/ Cardinality(UpTo(a, S)) > MaxRetained
         \/ MapThenSumSet(StoredBytes, UpTo(a, S)) > MaxRetainedBytes
         BY DEF Excess
  <1> DEFINE card(id) == Cardinality(UpTo(id, S))  bytes(id) == MapThenSumSet(StoredBytes, UpTo(id, S))
  <1>13. /\ card(a) \in Nat /\ card(b) \in Nat /\ card(a) <= card(b)
         /\ bytes(a) \in Nat /\ bytes(b) \in Nat /\ bytes(a) <= bytes(b)
         /\ card(a) > MaxRetained \/ bytes(a) > MaxRetainedBytes
         BY <1>5, <1>7, <1>9, <1>10, <1>12
  <1>14. b \in Excess(S) <=> card(b) > MaxRetained \/ bytes(b) > MaxRetainedBytes
         BY DEF Excess
  <1> HIDE DEF card, bytes
  <1>15. QED
         BY <1>11, <1>13, <1>14

LEMMA RetentionStep ==
  ASSUME IInv, StoreAssumption, [Next]_vars
  PROVE  /\ \A id \in Present : jobs[id].favorite => jobs'[id].status # "pruned"
         /\ \A a, b \in Ordinary :
              jobs'[a].status = "pruned" /\ a \notin Expired /\ Newer(a, b)
                => jobs'[b].status = "pruned"
  <1>1. Ordinary \subseteq Present /\ Present \subseteq Ids
        BY DEF Ordinary, Present, With
  <1>2. CASE ~Prune
        BY <1>1, <1>2, OnlyPrunePrunes
  <1>3. CASE Prune
        <2>1. \A id \in Ids : jobs'[id] = IF id \in Doomed THEN NoJob("pruned") ELSE jobs[id]
              BY <1>3 DEF Prune
        <2>2. NoJob("pruned").status = "pruned"
              BY DEF NoJob
        <2>3. \A id \in Present : jobs[id].status # "pruned"
              BY DEF Present, With, Status, Live, Terminal
        <2>4. \A id \in Present : jobs'[id].status = "pruned" <=> id \in Doomed
              BY <1>1, <2>1, <2>2, <2>3
        <2>5. \A id \in Doomed : ~jobs[id].favorite
              BY DoomedAreSettled DEF Ordinary
        <2>6. ASSUME NEW a \in Ordinary, NEW b \in Ordinary, a \in Doomed, a \notin Expired, Newer(a, b)
              PROVE  b \in Doomed
              <3> DEFINE S == Ordinary \ Expired
              <3>1. S \in SUBSET Present /\ a \in Excess(S)
                    BY <1>1, <2>6 DEF Doomed
              <3>2. CASE b \in Expired
                    BY <3>2 DEF Doomed
              <3>3. CASE b \notin Expired
                    <4>1. b \in S
                          BY <2>6, <3>3
                    <4> HIDE DEF S
                    <4>2. b \in Excess(S)
                          BY <2>6, <3>1, <4>1, OlderExceedsToo
                    <4>3. QED
                          BY <4>2 DEF Doomed, S
              <3>4. QED
                    BY <3>2, <3>3
        <2>7. QED
              BY <1>1, <2>4, <2>5, <2>6
  <1>4. QED
        BY <1>2, <1>3

(* prune() drops the oldest rows first and never a favorite.                 *)
THEOREM RetentionHolds == Spec => RetentionKeepsNewest
  <1> DEFINE Kept == /\ \A id \in Present : jobs[id].favorite => Status(id)' # "pruned"
                     /\ \A a, b \in Ordinary :
                          /\ Status(a)' = "pruned" /\ a \notin Expired
                          /\ Newer(a, b)
                          => Status(b)' = "pruned"
  <1>1. StoreAssumption /\ IInv /\ [Next]_vars => Kept
        BY RetentionStep DEF Status
  <1>2. Spec => [][Kept]_vars
        <2> HIDE DEF Kept
        <2>1. QED
              BY <1>1, StoreAssumption, Invariance, PTL DEF Spec
  <1>3. QED
        BY <1>2 DEF RetentionKeepsNewest

-----------------------------------------------------------------------------
(***************************************************************************)
(* The store implements the table the job manager was checked against.     *)
(***************************************************************************)
RowOf(job) == [status |-> job.status, cancel |-> job.cancel,
               key |-> IF job.key = NoKey THEN NoKey ELSE <<job.scope, job.key>>]

Rows == [id \in Ids |-> RowOf(jobs[id])]

(* Every change of the store's rows is a step of the table or none.          *)
LEMMA CreateImplements ==
  ASSUME IInv, StoreAssumption, Creates
  PROVE  Table!TableNext
  <1>1. PICK id \in Ids, scope \in Scopes, key \in Keys \cup {NoKey}, kind \in Kinds :
               Create(id, scope, key, kind)
        BY DEF Creates
  <1> DEFINE row == Fresh(scope, key, kind, now)
             k == IF key = NoKey THEN NoKey ELSE <<scope, key>>
  <1>2. jobs' = [jobs EXCEPT ![id] = row] /\ jobs[id].status = "absent"
        <2>1. jobs' = [jobs EXCEPT ![id] = row]
              BY <1>1, CreateInserts
        <2>2. jobs[id].status = "absent"
              BY <1>1 DEF Create, Status
        <2>3. QED
              BY <2>1, <2>2
  <1>3. \A other \in Ids : jobs'[other] = IF other = id THEN row ELSE jobs[other]
        BY <1>2 DEF IInv, Typed
  <1>4. RowOf(row) = [status |-> "queued", cancel |-> FALSE, key |-> k]
        BY DEF RowOf, Fresh, NoJob
  <1>5. Rows' = [Rows EXCEPT ![id] = [status |-> "queued", cancel |-> FALSE, key |-> k]]
        BY <1>3, <1>4 DEF Rows
  <1>6. k \in (Scopes \X Keys) \cup {NoKey}
        OBVIOUS
  <1>7. ASSUME k # NoKey, NEW other \in Ids, Rows[other].status \notin Gone, Rows[other].key = k
        PROVE  FALSE
        <2>1. jobs[other] \in Job /\ jobs[other].status \notin Gone
              BY <1>7 DEF Rows, RowOf, IInv, Typed
        <2>2. jobs[other].key = key /\ jobs[other].scope = scope /\ key # NoKey
              BY <1>7 DEF Rows, RowOf
        <2>3. other \in SameSubmission(scope, key)
              BY <2>1, <2>2 DEF SameSubmission, Owned, Present, With, Status, Job
        <2>4. QED
              BY <1>1, <2>3 DEF Create
  <1>8. With({"queued"}) = {other \in Ids : Rows[other].status \in {"queued"}}
        BY DEF With, Status, Rows, RowOf
  <1>9. Cardinality({other \in Ids : Rows[other].status \in {"queued"}}) < MaxPending
        BY <1>1, <1>8 DEF Create, Fits
  <1>10. Rows[id].status = "absent"
         BY <1>2 DEF Rows, RowOf
  <1>11. Table!Create(id, k)
         <2>1. Table!Status(id) = "absent"
               BY <1>10 DEF Table!Status, Rows, RowOf
         <2>2. k # NoKey => ~Table!KeyTaken(k)
               BY <1>7 DEF Table!KeyTaken, Table!Status, Table!Gone, Gone, Rows, RowOf
         <2>3. Cardinality(Table!IdsIn({"queued"})) < MaxPending
               BY <1>9 DEF Table!IdsIn, Table!Status, Rows, RowOf
         <2>4. Table!Cardinality(Table!IdsIn({"queued"})) = Cardinality(Table!IdsIn({"queued"}))
               BY DEF Table!Cardinality, Cardinality
         <2> HIDE DEF k
         <2>5. QED
               BY <1>5, <2>1, <2>2, <2>3, <2>4 DEF Table!Create, Rows, RowOf
  <1>12. QED
         BY <1>6, <1>11 DEF Table!TableNext

LEMMA OneRowOfTable ==
  ASSUME Typed, NEW id \in Ids, NEW row, jobs' = [jobs EXCEPT ![id] = row]
  PROVE  Rows' = [Rows EXCEPT ![id] = RowOf(row)]
  <1>1. \A other \in Ids : jobs'[other] = IF other = id THEN row ELSE jobs[other]
        BY DEF Typed
  <1>2. Rows = [other \in Ids |-> RowOf(jobs[other])]
        BY DEF Rows
  <1>3. Rows' = [other \in Ids |-> RowOf(jobs'[other])]
        BY DEF Rows, RowOf
  <1>4. \A other \in Ids : RowOf(jobs'[other]) = IF other = id THEN RowOf(row) ELSE RowOf(jobs[other])
        BY <1>1
  <1>5. QED
        BY <1>2, <1>3, <1>4

LEMMA ClaimImplements ==
  ASSUME IInv, NEW id \in Ids, Claim(id)
  PROVE  Table!TableNext
  <1> DEFINE row == [jobs[id] EXCEPT !.status = "running"]
  <1>1. Typed /\ jobs[id] \in Job
        BY RowIsTyped DEF IInv
  <1>2. jobs[id].status = "queued" /\ ~jobs[id].cancel /\ jobs' = [jobs EXCEPT ![id] = row]
        BY DEF Claim, Status
  <1>3. Rows' = [Rows EXCEPT ![id] = RowOf(row)]
        BY <1>1, <1>2, OneRowOfTable
  <1>4. RowOf(row) = [RowOf(jobs[id]) EXCEPT !.status = "running"]
        BY <1>1 DEF RowOf, Job
  <1>5. Rows' = [Rows EXCEPT ![id].status = "running"]
        BY <1>3, <1>4 DEF Rows
  <1>6. Table!Claimable(id)
        BY <1>2 DEF Table!Claimable, Table!Status
  <1>7. Table!Claim(id)
        BY <1>5, <1>6 DEF Table!Claim, Rows, RowOf
  <1>8. QED
        BY <1>7 DEF Table!TableNext

LEMMA FinishImplements ==
  ASSUME IInv, NEW id \in Ids, NEW verdict \in Terminal, NEW size, Finish(id, verdict, size)
  PROVE  Table!TableNext
  <1> DEFINE row == [jobs[id] EXCEPT !.status = verdict, !.completed = now, !.result = size]
  <1>1. Typed /\ jobs[id] \in Job
        BY RowIsTyped DEF IInv
  <1>2. jobs[id].status = "running" /\ jobs' = [jobs EXCEPT ![id] = row]
        BY <1>1 DEF Finish, Status
  <1>3. Rows' = [Rows EXCEPT ![id] = RowOf(row)]
        BY <1>1, <1>2, OneRowOfTable
  <1>4. RowOf(row) = [RowOf(jobs[id]) EXCEPT !.status = verdict]
        BY <1>1 DEF RowOf, Job
  <1>5. Rows' = [Rows EXCEPT ![id].status = verdict]
        BY <1>3, <1>4 DEF Rows
  <1>6. Table!Status(id) = "running"
        BY <1>2 DEF Table!Status
  <1>7. Table!Finish(id, verdict)
        BY <1>5, <1>6 DEF Table!Finish, Rows, RowOf
  <1>8. QED
        BY <1>7 DEF Table!TableNext, Table!Terminal, Terminal

LEMMA RequestCancelImplements ==
  ASSUME IInv, NEW scope \in Scopes, NEW id \in Ids, RequestCancel(scope, id)
  PROVE  Table!TableNext
  <1> DEFINE row == CASE Status(id) = "queued" -> [jobs[id] EXCEPT !.status = "cancelled", !.cancel = TRUE,
                                                                   !.completed = now]
                      [] Status(id) = "running" -> [jobs[id] EXCEPT !.cancel = TRUE]
                      [] OTHER -> jobs[id]
             old == RowOf(jobs[id])
             flag == old.cancel \/ old.status \in Live
             new == [old EXCEPT !.status = IF @ = "queued" THEN "cancelled" ELSE @, !.cancel = flag]
  <1>1. Typed /\ jobs[id] \in Job
        BY RowIsTyped DEF IInv
  <1>2. jobs' = [jobs EXCEPT ![id] = row] /\ jobs[id].status \notin Gone
        BY <1>1 DEF RequestCancel, Owned, Present, With, Status, Live, Terminal, Gone, Typed
  <1>3. Rows' = [Rows EXCEPT ![id] = RowOf(row)]
        BY <1>1, <1>2, OneRowOfTable
  <1>4. RowOf(row) = new
        <2>1. CASE Status(id) = "queued"
              <3>1. row = [jobs[id] EXCEPT !.status = "cancelled", !.cancel = TRUE, !.completed = now]
                    BY <2>1
              <3>2. RowOf(row) = [status |-> "cancelled", cancel |-> TRUE, key |-> old.key]
                    BY <1>1, <3>1 DEF RowOf, Job
              <3>3. new = [status |-> "cancelled", cancel |-> TRUE, key |-> old.key]
                    <4>1. /\ old = [status |-> "queued", cancel |-> old.cancel, key |-> old.key]
                          /\ old.status = "queued"
                          BY <2>1 DEF RowOf, Status
                    <4>2. flag = TRUE
                          BY <4>1 DEF Live
                    <4> HIDE DEF old, flag
                    <4>3. new = [old EXCEPT !.status = "cancelled", !.cancel = TRUE]
                          BY <4>1, <4>2, Zenon
                    <4> HIDE DEF new
                    <4>4. QED
                          BY <4>1, <4>3
              <3>4. QED
                    BY <3>2, <3>3
        <2>2. CASE Status(id) = "running"
              <3>1. row = [jobs[id] EXCEPT !.cancel = TRUE]
                    BY <2>2
              <3>2. RowOf(row) = [status |-> "running", cancel |-> TRUE, key |-> old.key]
                    BY <1>1, <2>2, <3>1 DEF RowOf, Job, Status
              <3>3. new = [status |-> "running", cancel |-> TRUE, key |-> old.key]
                    <4>1. /\ old = [status |-> "running", cancel |-> old.cancel, key |-> old.key]
                          /\ old.status = "running"
                          BY <2>2 DEF RowOf, Status
                    <4>2. flag = TRUE
                          BY <4>1 DEF Live
                    <4> HIDE DEF old, flag
                    <4>3. new = [old EXCEPT !.status = "running", !.cancel = TRUE]
                          BY <4>1, <4>2, Zenon
                    <4> HIDE DEF new
                    <4>4. QED
                          BY <4>1, <4>3
              <3>4. QED
                    BY <3>2, <3>3
        <2>3. CASE Status(id) \notin {"queued", "running"}
              <3>1. row = jobs[id]
                    BY <2>3
              <3>2. old.status \notin Live /\ old.status # "queued" /\ old.cancel \in BOOLEAN
                    BY <1>1, <2>3 DEF RowOf, Job, Status, Live
              <3>3. new = old
                    BY <3>2 DEF RowOf
              <3>4. QED
                    BY <3>1, <3>3
        <2>4. QED
              BY <2>1, <2>2, <2>3
  <1>5. Rows' = [Rows EXCEPT ![id].status = IF @ = "queued" THEN "cancelled" ELSE @,
                             ![id].cancel = @ \/ Rows[id].status \in Live]
        <2>1. Rows[id] = old /\ Rows = [other \in Ids |-> RowOf(jobs[other])]
              BY DEF Rows
        <2>2. Rows' = [Rows EXCEPT ![id] = new]
              BY <1>3, <1>4
        <2> HIDE DEF old
        <2>3. QED
              BY <2>1, <2>2
  <1>6. Table!Status(id) \notin Gone /\ Table!Status(id) = Rows[id].status
        BY <1>2 DEF Table!Status, Rows, RowOf
  <1>7. Table!RequestCancel(id)
        BY <1>5, <1>6 DEF Table!RequestCancel, Table!Gone, Table!Live, Gone, Live, Rows, RowOf
  <1>8. QED
        BY <1>7 DEF Table!TableNext

LEMMA RecoverImplements ==
  ASSUME IInv, RecoverInterrupted
  PROVE  Table!TableNext
  <1>1. \A id \in Ids : Rows'[id] = IF Rows[id].status = "running"
                                      THEN [Rows[id] EXCEPT !.status = "interrupted"] ELSE Rows[id]
        <2>1. ASSUME NEW id \in Ids
              PROVE  Rows'[id] = IF Rows[id].status = "running"
                                   THEN [Rows[id] EXCEPT !.status = "interrupted"] ELSE Rows[id]
              <3>1. jobs[id] \in Job
                    BY DEF IInv, Typed
              <3>2. jobs'[id] = IF jobs[id].status = "running"
                                  THEN [jobs[id] EXCEPT !.status = "interrupted", !.completed = now,
                                                        !.result = 1]
                                  ELSE jobs[id]
                    BY DEF RecoverInterrupted, Status
              <3>3. QED
                    BY <3>1, <3>2 DEF Rows, RowOf, Job
        <2>2. QED
              BY <2>1
  <1>2. Rows' = [id \in Ids |-> IF Rows[id].status = "running"
                                  THEN [Rows[id] EXCEPT !.status = "interrupted"] ELSE Rows[id]]
        BY <1>1 DEF Rows
  <1>3. Table!RecoverInterrupted
        BY <1>2 DEF Table!RecoverInterrupted, Table!Status, Rows, RowOf
  <1>4. QED
        BY <1>3 DEF Table!TableNext

LEMMA PruneImplements ==
  ASSUME IInv, Prune
  PROVE  Table!TableNext
  <1>1. RowOf(NoJob("pruned")) = [status |-> "pruned", cancel |-> FALSE, key |-> NoKey]
        BY DEF RowOf, NoJob
  <1>2. \A id \in Ids : jobs'[id] = IF id \in Doomed THEN NoJob("pruned") ELSE jobs[id]
        BY DEF Prune
  <1>3. Rows' = [id \in Ids |-> IF id \in Doomed THEN [status |-> "pruned", cancel |-> FALSE, key |-> NoKey]
                                ELSE Rows[id]]
        BY <1>1, <1>2 DEF Rows
  <1>4. PICK S \in SUBSET Ids : S = Doomed
        BY DoomedAreSettled
  <1>5. Table!NoRow("pruned") = [status |-> "pruned", cancel |-> FALSE, key |-> NoKey]
        BY DEF Table!NoRow
  <1>6. Rows' = [id \in Ids |-> IF id \in S THEN Table!NoRow("pruned") ELSE Rows[id]]
        BY <1>3, <1>4, <1>5
  <1>7. S \subseteq Table!IdsIn(Table!Terminal)
        BY <1>4, DoomedAreSettled DEF With, Status, Table!IdsIn, Table!Status, Table!Terminal, Terminal
  <1>8. Table!Prune(S)
        BY <1>6, <1>7 DEF Table!Prune, Rows, RowOf
  <1>9. QED
        BY <1>8 DEF Table!TableNext

LEMMA EditApplyStutters ==
  ASSUME IInv, NEW e \in Edit, EditApply(e)
  PROVE  Rows' = Rows
  <1>1. ASSUME NEW id \in Ids PROVE RowOf(jobs'[id]) = RowOf(jobs[id])
        <2>1. jobs[id] \in Job /\ Typed
              BY DEF IInv, Typed
        <2>2. \/ jobs'[id] = jobs[id]
              \/ jobs'[id] = [jobs[id] EXCEPT !.favorite = Set(@, e.change.favorite),
                                              !.hidden = Set(@, e.change.hidden)]
              BY <2>1 DEF EditApply, Typed
        <2>3. QED
              BY <2>1, <2>2 DEF RowOf, Job
  <1>2. QED
        BY <1>1 DEF Rows

LEMMA StepImplements ==
  ASSUME IInv, StoreAssumption, [Next]_vars
  PROVE  Table!TableNext \/ Rows' = Rows
  <1>1. CASE Creates
        BY <1>1, CreateImplements
  <1>2. ASSUME NEW id \in Ids, Claim(id) PROVE Table!TableNext
        BY <1>2, ClaimImplements
  <1>3. ASSUME NEW id \in Ids, NEW size \in ResultSizes, Succeed(id, size) PROVE Table!TableNext
        BY <1>3, FinishImplements DEF Succeed, Terminal
  <1>4. ASSUME NEW id \in Ids, NEW verdict \in Terminal, NEW size \in ResultSizes,
               Fail(id, verdict, size)
        PROVE  Table!TableNext
        BY <1>4, FinishImplements DEF Fail
  <1>5. ASSUME NEW scope \in Scopes, NEW id \in Ids, RequestCancel(scope, id) PROVE Table!TableNext
        BY <1>5, RequestCancelImplements
  <1>6. ASSUME NEW e \in Edit, EditApply(e) PROVE Rows' = Rows
        BY <1>6, EditApplyStutters
  <1>7. CASE RecoverInterrupted
        BY <1>7, RecoverImplements
  <1>8. CASE Prune
        BY <1>8, PruneImplements
  <1>9. CASE \/ \E scope \in Scopes, e \in Edit : EditBegin(scope, e)
             \/ Tick \/ UNCHANGED vars
        <2>1. jobs' = jobs
              BY <1>9 DEF EditBegin, Tick, vars
        <2>2. QED
              BY <2>1 DEF Rows, RowOf
  <1>10. QED
         BY <1>1, <1>2, <1>3, <1>4, <1>5, <1>6, <1>7, <1>8, <1>9 DEF Next, Creates

(* The store, reduced to what the workers depend on, is the table of         *)
(* JobTable: its every statement is one of the table's, or leaves the        *)
(* reduced rows alone.                                                       *)
THEOREM StoreImplementsTable == Spec => ImplementsTable
  <1>1. Init => Table!TableInit
        <2>1. RowOf(NoJob("absent")) = Table!NoRow("absent")
              BY DEF RowOf, NoJob, Table!NoRow
        <2>2. Init => Rows = [id \in Ids |-> Table!NoRow("absent")]
              BY <2>1 DEF Init, Rows
        <2>3. QED
              BY <2>2 DEF Table!TableInit, Rows, RowOf
  <1>2. StoreAssumption /\ IInv /\ [Next]_vars => Table!TableNext \/ Rows' = Rows
        BY StepImplements
  <1>3. StoreAssumption /\ IInv /\ [Next]_vars
          => [Table!TableNext]_([id \in Ids |->
                [status |-> jobs[id].status, cancel |-> jobs[id].cancel,
                 key |-> IF jobs[id].key = NoKey THEN NoKey
                         ELSE <<jobs[id].scope, jobs[id].key>>]])
        BY <1>2 DEF Rows, RowOf
  <1>4. Spec => Table!TableSpec
        BY <1>1, <1>3, StoreAssumption, Invariance, PTL DEF Spec, Table!TableSpec
  <1>5. QED
        BY <1>4 DEF ImplementsTable

-----------------------------------------------------------------------------
(***************************************************************************)
(* The walk through the history.                                           *)
(***************************************************************************)
WalkTyped ==
  walk \in [scope : Scopes \cup {NoKey}, view : Views, after : Nat, at : Nat,
            seen : SUBSET Ids, due : SUBSET Ids, done : BOOLEAN, repeated : BOOLEAN]

(* Everything the walk has shown lies before its cursor, and everything it   *)
(* still owes lies behind it.                                                *)
SeenIsBehind ==
  /\ walk.after = 0 => walk.seen = {}
  /\ \A id \in walk.seen : Status(id) # "absent" /\ (id \in Present => ~Past(id, walk))

DueIsAhead ==
  /\ walk.due \subseteq Visible(jobs, walk.scope, walk.view)
  /\ \A id \in walk.due : id \in walk.seen \/ Past(id, walk)

WalkInv == WalkTyped /\ SeenIsBehind /\ DueIsAhead /\ WalkIsStable

LEMMA NewerIsTotal ==
  ASSUME Typed, StoreAssumption, NEW a \in Ids, NEW b \in Ids, a # b
  PROVE  Newer(a, b) \/ Newer(b, a)
  <1>1. a \in Nat /\ b \in Nat /\ jobs[a].created \in Nat /\ jobs[b].created \in Nat
        BY DEF StoreAssumption, Typed, Job
  <1>2. QED
        BY <1>1 DEF Newer

(* The last row of a page: the oldest, and of those of one second the one    *)
(* with the smallest identifier.                                             *)
LEMMA LastIsOldest ==
  ASSUME Typed, StoreAssumption, NEW S \in SUBSET Ids, S # {}
  PROVE  Last(S) \in S /\ \A o \in S : o = Last(S) \/ Newer(o, Last(S))
  <1> DEFINE times == {jobs[id].created : id \in S}
  <1>1. \A id \in S : id \in Nat /\ jobs[id].created \in Nat
        BY DEF StoreAssumption, Typed, Job
  <1>2. times \in SUBSET Nat /\ times # {}
        BY <1>1
  <1>3. PICK t \in times : \A u \in times : t <= u
        <2> HIDE DEF times
        <2>1. QED
              BY <1>2, LeastExists
  <1> DEFINE first == {id \in S : jobs[id].created = t}
  <1>4. first \in SUBSET Nat /\ first # {}
        BY <1>1, <1>3
  <1>5. PICK id \in first : \A o \in first : id <= o
        <2> HIDE DEF first
        <2>1. QED
              BY <1>4, LeastExists
  <1>6. ASSUME NEW o \in S PROVE o = id \/ Newer(o, id)
        <2>1. t <= jobs[o].created /\ jobs[id].created = t /\ t \in Nat /\ id \in S
              BY <1>1, <1>3, <1>5
        <2>2. jobs[o].created = t => id <= o
              BY <1>5
        <2>3. o \in Nat /\ id \in Nat /\ jobs[o].created \in Nat
              BY <1>1, <2>1
        <2>4. QED
              BY <2>1, <2>2, <2>3 DEF Newer
  <1>7. \E last \in S : \A o \in S : o = last \/ Newer(o, last)
        BY <1>5, <1>6
  <1>8. QED
        BY <1>7, Zenon DEF Last

(* The page is the newest part of the rest.                                  *)
LEMMA PageIsNewest ==
  ASSUME IInv, StoreAssumption, WalkTyped, Page(walk) # {},
         NEW id \in Rest(walk), id \notin Page(walk)
  PROVE  Newer(Last(Page(walk)), id)
  <1> DEFINE rest == Rest(walk)  page == Page(walk)  last == Last(page)
  <1>1. rest \subseteq Present /\ rest \subseteq Ids /\ page \subseteq rest
        BY DEF Rest, Visible, Page, Present, With, Status, Typed, Job, IInv, Live, Terminal, Gone
  <1>2. last \in page /\ Typed
        BY <1>1, LastIsOldest DEF IInv
  <1>3. Newer(last, id) \/ Newer(id, last)
        BY <1>1, <1>2, NewerIsTotal
  <1>4. ASSUME Newer(id, last) PROVE FALSE
        <2>1. UpTo(id, rest) \subseteq UpTo(last, rest)
              BY <1>1, <1>2, <1>4, NewerIsTransitive DEF UpTo
        <2>2. UpTo(last, rest) \subseteq rest /\ IsFiniteSet(rest)
              BY <1>1, FS_Subset DEF UpTo, IInv
        <2>3. IsFiniteSet(UpTo(last, rest))
              BY <2>2, FS_Subset
        <2>4. /\ Cardinality(UpTo(id, rest)) <= Cardinality(UpTo(last, rest))
              /\ Cardinality(UpTo(id, rest)) \in Nat /\ Cardinality(UpTo(last, rest)) \in Nat
              BY <2>1, <2>3, FS_Subset, FS_CardinalityType
        <2>5. Cardinality(UpTo(last, rest)) <= PageSize
              BY <1>2 DEF Page
        <2>6. PageSize \in Nat
              BY PageAssumption
        <2>7. Cardinality(UpTo(id, rest)) <= PageSize
              BY <2>4, <2>5, <2>6
        <2>8. QED
              BY <2>7 DEF Page
  <1>5. QED
        BY <1>3, <1>4

LEMMA PageKeepsWalk ==
  ASSUME IInv, StoreAssumption, WalkInv, WalkPage
  PROVE  WalkInv'
  <1> DEFINE rest == Rest(walk)  page == Page(walk)  last == Last(page)
             after == IF page = {} THEN walk.after ELSE last
             at == IF page = {} THEN walk.at ELSE jobs[last].created
             repeats == walk.repeated \/ page \cap walk.seen # {}
             ends == rest = page
  <1>1. Typed /\ jobs' = jobs /\ walk \in [scope : Scopes \cup {NoKey}, view : Views, after : Nat, at : Nat,
                          seen : SUBSET Ids, due : SUBSET Ids, done : BOOLEAN, repeated : BOOLEAN]
        BY DEF IInv, WalkInv, WalkTyped, WalkPage, vars
  <1>2. page \subseteq rest /\ rest \subseteq Present /\ rest \subseteq Ids
        BY DEF Rest, Visible, Page, Present, With, Status, Typed, Job, IInv, Live, Terminal, Gone
  <1>3. walk' = [walk EXCEPT !.seen = walk.seen \cup page, !.repeated = repeats, !.done = ends,
                             !.after = after, !.at = at]
        BY DEF WalkPage, NextPage
  <1>4. page # {} => last \in page /\ \A o \in page : o = last \/ Newer(o, last)
        BY <1>1, <1>2, LastIsOldest
  <1>5. after \in Nat /\ at \in Nat /\ (page # {} => after # 0)
        <2>1. CASE page = {}
              BY <1>1, <2>1
        <2>2. CASE page # {}
              <3>1. last \in Ids
                    BY <1>2, <1>4, <2>2
              <3>2. last \in Nat /\ last # 0 /\ jobs[last].created \in Nat
                    BY <1>1, <3>1, PageAssumption DEF StoreAssumption, Typed, Job
              <3>3. QED
                    BY <2>2, <3>2
        <2>3. QED
              BY <2>1, <2>2
  <1>6. /\ walk'.seen = walk.seen \cup page /\ walk'.due = walk.due
        /\ walk'.scope = walk.scope /\ walk'.view = walk.view
        /\ walk'.after = after /\ walk'.at = at
        /\ walk'.repeated <=> repeats
        /\ walk'.done <=> ends
        BY <1>1, <1>3
  <1>7. WalkTyped'
        <2> HIDE DEF after, at, page, repeats, ends
        <2>1. page \subseteq Ids /\ repeats \in BOOLEAN /\ ends \in BOOLEAN
              BY <1>2 DEF repeats, ends
        <2>2. QED
              BY <1>1, <1>3, <1>5, <2>1 DEF WalkTyped
  <1>8. \A id \in Ids : Past(id, walk)' <=> \/ after = 0
                                            \/ jobs[id].created < at
                                            \/ jobs[id].created = at /\ id < after
        BY <1>1, <1>6 DEF Past
  <1>9. \A id \in Ids : jobs[id].created \in Nat /\ id \in Nat
        BY <1>1 DEF Typed, Job, StoreAssumption
  <1>10. \A id \in page : Past(id, walk) /\ id \in Ids /\ id \in Present
         BY <1>2 DEF Rest
  (* The cursor only moves on: what it has passed it never meets again.      *)
  <1>11. ASSUME NEW id \in Ids, ~Past(id, walk) PROVE ~Past(id, walk)'
         <2>1. CASE page = {}
               BY <1>8, <1>11, <2>1 DEF Past
         <2>2. CASE page # {}
               <3>1. last \in page /\ Past(last, walk) /\ last \in Nat /\ jobs[last].created \in Nat
                     BY <1>4, <1>9, <1>10, <2>2
               <3>2. /\ walk.after # 0 /\ walk.after \in Nat /\ walk.at \in Nat
                     /\ ~(jobs[id].created < walk.at)
                     /\ ~(jobs[id].created = walk.at /\ id < walk.after)
                     BY <1>1, <1>11 DEF Past
               <3>3. \/ jobs[last].created < walk.at
                     \/ jobs[last].created = walk.at /\ last < walk.after
                     BY <3>1, <3>2 DEF Past
               <3>4. after = last /\ at = jobs[last].created /\ after # 0
                     BY <1>5, <2>2
               <3>5. ASSUME NEW i \in Nat, NEW t \in Nat, NEW i1 \in Nat, NEW t1 \in Nat,
                            NEW i2 \in Nat, NEW t2 \in Nat,
                            ~(t < t2), ~(t = t2 /\ i < i2), t1 < t2 \/ (t1 = t2 /\ i1 < i2)
                     PROVE  ~(t < t1) /\ ~(t = t1 /\ i < i1)
                     BY <3>5
               <3> HIDE DEF last, after, at, page
               <3>6. ~(jobs[id].created < jobs[last].created)
                     /\ ~(jobs[id].created = jobs[last].created /\ id < last)
                     BY <1>9, <3>1, <3>2, <3>3, <3>5
               <3>7. QED
                     BY <1>8, <3>4, <3>6
         <2>3. QED
               BY <2>1, <2>2
  <1>12. ASSUME NEW id \in page PROVE ~Past(id, walk)'
         <2>1. last \in page /\ (id = last \/ Newer(id, last)) /\ page # {}
               BY <1>4
         <2>2. after = last /\ at = jobs[last].created /\ after # 0
               BY <1>5, <2>1
         <2>3. id \in Ids /\ last \in Ids
               BY <1>10, <2>1
         <2> HIDE DEF last, after, at, page
         <2>4. /\ id \in Nat /\ last \in Nat /\ jobs[id].created \in Nat /\ jobs[last].created \in Nat
               BY <1>9, <2>3
         <2>5. ~(jobs[id].created < at) /\ ~(jobs[id].created = at /\ id < after)
               BY <2>1, <2>2, <2>4 DEF Newer
         <2>6. QED
               BY <1>8, <2>2, <2>3, <2>5
  <1>13. SeenIsBehind'
         <2>1. walk'.after = 0 => walk'.seen = {}
               BY <1>5, <1>6 DEF WalkInv, SeenIsBehind
         <2>2. ASSUME NEW id \in walk'.seen
               PROVE  Status(id)' # "absent" /\ (id \in Present' => ~Past(id, walk)')
               <3>1. Status(id)' = Status(id) /\ Present' = Present
                     BY <1>1 DEF Status, Present, With
               <3>2. CASE id \in page
                     <4>1. Status(id) # "absent"
                           BY <1>2, <3>2 DEF Present, With, Live, Terminal
                     <4>2. QED
                           BY <1>12, <3>1, <3>2, <4>1
               <3>3. CASE id \in walk.seen
                     <4>1. id \in Ids /\ Status(id) # "absent" /\ (id \in Present => ~Past(id, walk))
                           BY <1>1, <3>3 DEF WalkInv, SeenIsBehind
                     <4>2. QED
                           BY <1>11, <3>1, <4>1
               <3>4. QED
                     BY <1>6, <3>2, <3>3
         <2>3. QED
               BY <2>1, <2>2 DEF SeenIsBehind
  <1>14. \A id \in walk.due : id \in walk.seen \/ id \in rest
         BY DEF WalkInv, DueIsAhead, Rest
  <1>15. ASSUME NEW id \in walk.due PROVE id \in walk'.seen \/ Past(id, walk)'
         <2>1. id \in Ids
               BY <1>1
         <2>2. CASE id \in walk.seen \/ id \in page
               BY <1>6, <2>2
         <2>3. CASE id \in rest /\ id \notin page
               <3>1. Past(id, walk)
                     BY <2>3 DEF Rest
               <3>2. CASE page = {}
                     BY <1>8, <2>1, <3>1, <3>2 DEF Past
               <3>3. CASE page # {}
                     <4>1. Newer(last, id) /\ last \in page
                           BY <1>4, <2>3, <3>3, PageIsNewest DEF WalkInv
                     <4>2. after = last /\ at = jobs[last].created
                           BY <3>3
                     <4>3. last \in Ids
                           BY <1>10, <4>1
                     <4> HIDE DEF last, after, at, page
                     <4>4. jobs[id].created < at \/ (jobs[id].created = at /\ id < after)
                           BY <1>9, <2>1, <4>1, <4>2, <4>3 DEF Newer
                     <4>5. QED
                           BY <1>8, <2>1, <4>4
               <3>4. QED
                     BY <3>2, <3>3
         <2>4. QED
               BY <1>14, <2>2, <2>3
  <1>16. DueIsAhead'
         <2>1. Visible(jobs, walk.scope, walk.view)' = Visible(jobs, walk.scope, walk.view)
               BY <1>1, <1>6 DEF Visible
         <2>2. QED
               BY <1>6, <1>15, <2>1 DEF WalkInv, DueIsAhead
  <1>17. WalkIsStable'
         <2>1. ASSUME NEW id \in page, id \in walk.seen PROVE FALSE
               BY <1>10, <2>1 DEF WalkInv, SeenIsBehind
         <2>2. ~repeats
               BY <2>1 DEF WalkInv, WalkIsStable
         <2>3. ends => walk.due \subseteq walk.seen \cup page
               BY <1>14
         <2>4. QED
               BY <1>6, <2>2, <2>3 DEF WalkIsStable
  <1>18. QED
         BY <1>7, <1>13, <1>16, <1>17 DEF WalkInv

(* A row keeps its creation time, and one that is gone does not come back.   *)
LEMMA RowsStay ==
  ASSUME IInv, StoreAssumption, [Next]_vars, NEW id \in Ids, Status(id) # "absent"
  PROVE  /\ Status(id)' # "absent"
         /\ id \in Present' => id \in Present /\ jobs'[id].created = jobs[id].created
  <1>1. CASE Creates
        <2>1. PICK new \in Ids, scope \in Scopes, key \in Keys \cup {NoKey}, kind \in Kinds :
                     Create(new, scope, key, kind)
              BY <1>1 DEF Creates
        <2>2. new # id
              BY <2>1 DEF Create
        <2>3. jobs' = [jobs EXCEPT ![new] = Fresh(scope, key, kind, now)]
              BY <2>1, CreateInserts
        <2>4. jobs'[id] = jobs[id]
              BY <2>2, <2>3 DEF IInv, Typed
        <2>5. QED
              BY <2>4 DEF Status, Present, With
  <1>2. CASE ~Creates
        <2>1. Calm /\ Typed
              BY <1>2, StepIsCalm DEF IInv
        <2>2. id \in Present' => id \in Present /\ jobs'[id].created = jobs[id].created
              BY <2>1, CalmRow DEF Changed
        <2>3. Status(id)' # "absent"
              BY <2>1 DEF Calm, Deleted, Changed, NoJob, Status, Gone
        <2>4. QED
              BY <2>2, <2>3
  <1>3. QED
        BY <1>1, <1>2

LEMMA WatchKeepsWalk ==
  ASSUME IInv, StoreAssumption, WalkInv, [Next]_vars, Watch
  PROVE  WalkInv'
  <1> DEFINE still == walk.due \cap Visible(jobs', walk.scope, walk.view)
  <1>1. walk \in [scope : Scopes \cup {NoKey}, view : Views, after : Nat, at : Nat,
                  seen : SUBSET Ids, due : SUBSET Ids, done : BOOLEAN, repeated : BOOLEAN]
        BY DEF WalkInv, WalkTyped
  <1>2. walk' = [walk EXCEPT !.due = still]
        BY DEF Watch
  <1>3. /\ walk'.seen = walk.seen /\ walk'.due = still
        /\ walk'.scope = walk.scope /\ walk'.view = walk.view
        /\ walk'.after = walk.after /\ walk'.at = walk.at
        /\ walk'.repeated = walk.repeated /\ walk'.done = walk.done
        BY <1>1, <1>2
  <1>4. WalkTyped'
        <2>1. still \in SUBSET Ids
              BY <1>1
        <2> HIDE DEF still
        <2>2. QED
              BY <1>1, <1>2, <2>1 DEF WalkTyped
  <1>5. ASSUME NEW id \in Ids, Status(id) # "absent", id \in Present'
        PROVE  id \in Present /\ (Past(id, walk)' <=> Past(id, walk))
        <2>1. id \in Present /\ jobs'[id].created = jobs[id].created
              BY <1>5, RowsStay
        <2>2. QED
              BY <1>3, <2>1 DEF Past
  <1>6. SeenIsBehind'
        <2>1. walk'.after = 0 => walk'.seen = {}
              BY <1>3 DEF WalkInv, SeenIsBehind
        <2>2. ASSUME NEW id \in walk'.seen
              PROVE  Status(id)' # "absent" /\ (id \in Present' => ~Past(id, walk)')
              <3>1. id \in Ids /\ Status(id) # "absent" /\ (id \in Present => ~Past(id, walk))
                    BY <1>1, <1>3 DEF WalkInv, SeenIsBehind
              <3>2. QED
                    BY <1>5, <3>1, RowsStay
        <2>3. QED
              BY <2>1, <2>2 DEF SeenIsBehind
  <1>7. DueIsAhead'
        <2>1. ASSUME NEW id \in still PROVE id \in walk'.seen \/ Past(id, walk)'
              <3>1. id \in Ids /\ id \in walk.due /\ (id \in walk.seen \/ Past(id, walk))
                    BY <1>1 DEF WalkInv, DueIsAhead
              <3>2. id \in Visible(jobs, walk.scope, walk.view)
                    BY <3>1 DEF WalkInv, DueIsAhead
              <3>3. Status(id) # "absent"
                    BY <3>2 DEF Visible, Status, Gone
              <3>4. jobs'[id].status \notin Gone
                    BY DEF Visible
              <3>5. Status(id)' \in Live \cup Terminal
                    <4>1. jobs' \in [Ids -> Job]
                          BY TypesStep DEF Typed
                    <4>2. QED
                          BY <3>1, <3>4, <4>1 DEF Status, Job
              <3>6. id \in Present'
                    BY <3>1, <3>5 DEF Present, With
              <3>7. QED
                    BY <1>3, <1>5, <3>1, <3>3, <3>6
        <2>2. still \subseteq Visible(jobs', walk'.scope, walk'.view)
              BY <1>3
        <2>3. Visible(jobs, walk.scope, walk.view)' = Visible(jobs', walk'.scope, walk'.view)
              BY DEF Visible
        <2> HIDE DEF still
        <2>4. QED
              BY <1>3, <2>1, <2>2, <2>3 DEF DueIsAhead
  <1>8. WalkIsStable'
        BY <1>3 DEF WalkInv, WalkIsStable
  <1>9. QED
        BY <1>4, <1>6, <1>7, <1>8 DEF WalkInv

LEMMA WalkBeginStarts ==
  ASSUME IInv, StoreAssumption, NEW scope \in Scopes, NEW view \in Views, WalkBegin(scope, view)
  PROVE  WalkInv'
  <1> DEFINE all == Visible(jobs, scope, view)
  <1>1. walk' = [scope |-> scope, view |-> view, after |-> 0, at |-> 0, seen |-> {},
                 due |-> all, done |-> FALSE, repeated |-> FALSE]
        BY DEF WalkBegin, NoWalk
  <1>2. jobs' = jobs /\ all \in SUBSET Ids
        BY DEF WalkBegin, vars, Visible
  <1>3. Visible(jobs, walk.scope, walk.view)' = all
        BY <1>1, <1>2 DEF Visible
  <1> HIDE DEF all
  <1>4. WalkTyped'
        BY <1>1, <1>2 DEF WalkTyped
  <1>5. \A id : Past(id, walk)'
        BY <1>1 DEF Past
  <1>6. SeenIsBehind' /\ WalkIsStable'
        BY <1>1 DEF SeenIsBehind, WalkIsStable
  <1>7. DueIsAhead'
        BY <1>1, <1>3, <1>5 DEF DueIsAhead
  <1>8. QED
        BY <1>4, <1>6, <1>7 DEF WalkInv

LEMMA NoWalkIsSound == walk = NoWalk => WalkInv
  <1> SUFFICES ASSUME walk = NoWalk PROVE WalkInv
        OBVIOUS
  <1>1. WalkTyped
        BY DEF WalkTyped, NoWalk, Views
  <1>2. SeenIsBehind /\ DueIsAhead /\ WalkIsStable
        BY DEF SeenIsBehind, DueIsAhead, WalkIsStable, NoWalk
  <1>3. QED
        BY <1>1, <1>2 DEF WalkInv

LEMMA NoWalkIsSoundNext == (walk = NoWalk)' => WalkInv'
  BY NoWalkIsSound, PTL

LEMMA StillKeepsWalk ==
  ASSUME WalkInv, UNCHANGED <<vars, walk>>
  PROVE  WalkInv'
  <1>1. jobs' = jobs /\ walk' = walk
        BY DEF vars
  <1>2. QED
        BY <1>1 DEF WalkInv, WalkTyped, SeenIsBehind, DueIsAhead, WalkIsStable, Past, Visible,
                    Present, With, Status

LEMMA HistoryKeepsWalk ==
  StoreAssumption /\ IInv /\ WalkInv /\ [HistoryNext]_<<vars, walk>> => WalkInv'
  <1> SUFFICES ASSUME StoreAssumption, IInv, WalkInv, [HistoryNext]_<<vars, walk>>
               PROVE  WalkInv'
        OBVIOUS
  <1>1. CASE Next /\ Watch
        BY <1>1, WatchKeepsWalk
  <1>2. CASE \E scope \in Scopes, view \in Views : WalkBegin(scope, view)
        BY <1>2, WalkBeginStarts
  <1>3. CASE WalkPage
        BY <1>3, PageKeepsWalk
  <1>4. CASE WalkEnd
        <2>1. (walk = NoWalk)'
              BY <1>4 DEF WalkEnd, NoWalk
        <2>2. QED
              BY <2>1, NoWalkIsSoundNext
  <1>5. CASE UNCHANGED <<vars, walk>>
        BY <1>5, StillKeepsWalk
  <1>6. QED
        BY <1>1, <1>2, <1>3, <1>4, <1>5 DEF HistoryNext

(* A client that reads the history only reads: the store goes its own way.   *)
LEMMA HistoryIsSpec == HistorySpec => Spec
  <1>1. HistoryInit => Init
        BY DEF HistoryInit
  <1>2. [HistoryNext]_<<vars, walk>> => [Next]_vars
        BY DEF HistoryNext, WalkBegin, WalkPage, WalkEnd, vars
  <1>3. QED
        BY <1>1, <1>2, PTL DEF HistorySpec, Spec

(* list() behind its cursor: a walk shows no job twice and every job that    *)
(* matched all along, whatever is created, settled, hidden and pruned        *)
(* between its pages; and no unsettled job is hidden from it.                *)
THEOREM HistoryIsStable == HistorySpec => []History
  <1>1. HistoryInit => WalkInv
        BY NoWalkIsSound DEF HistoryInit
  <1>2. HistorySpec => []IInv
        BY HistoryIsSpec, Invariance, PTL
  <1>3. HistorySpec => []WalkInv
        BY <1>1, <1>2, StoreAssumption, HistoryKeepsWalk, PTL DEF HistorySpec
  <1>4. IInv /\ WalkInv => History
        BY InvIsEnough DEF History, WalkInv
  <1>5. QED
        BY <1>2, <1>3, <1>4, PTL
=============================================================================
