------------------------- MODULE GrpcServiceProofs -------------------------
(***************************************************************************)
(* Proofs about the gRPC service, its messages and its rate limiter, for   *)
(* every number of calls, clients and shards, whatever the clients send.   *)
(***************************************************************************)
EXTENDS GrpcService, FiniteSetTheorems, SequenceTheorems, WellFoundedInduction, TLAPS

(* The rate limiter                                                         *)

\* What a client could spend at this instant, had it the chance to.
Level(c) == Filled(tokens[c], c)

\* The tokens spent in the window and those still there came from a full bucket
\* and from the refill since the window was opened.
Conserved ==
    \A c \in Clients : used[c] * Cost + Level(c) <= Capacity + (now - since[c]) * Refill

\* Time stamps lie in the past.
InvTime ==
    \A c \in Clients : last_refill[c] <= now /\ since[c] <= now

RateInv == RateTypeOK /\ InvTime /\ Conserved /\ NeverMoreGenerous

-----------------------------------------------------------------------------

\* What a bucket is filled to lies between its tokens and the capacity.
LEMMA FilledType ==
    ASSUME RateTypeOK, InvTime, NEW c \in Clients, NEW a \in 0..Capacity
    PROVE  Filled(a, c) \in 0..Capacity /\ a <= Filled(a, c)
<1> DEFINE R == (now - last_refill[c]) * Refill
<1>1. now - last_refill[c] \in Nat
  BY DEF RateTypeOK, InvTime
<1>2. R \in Nat
  BY <1>1, RateAssumption
<1> HIDE DEF R
<1>3. Filled(a, c) = IF c \in clients THEN Smaller(Capacity, a + R) ELSE Capacity
  BY DEF Filled, R
<1> QED BY <1>2, <1>3, RateAssumption DEF Smaller

\* A bucket with more in it fills to more.
LEMMA FilledMonotone ==
    ASSUME RateTypeOK, InvTime, NEW c \in Clients,
           NEW a \in 0..Capacity, NEW b \in 0..Capacity, a <= b
    PROVE  Filled(a, c) <= Filled(b, c)
<1> DEFINE R == (now - last_refill[c]) * Refill
<1>1. now - last_refill[c] \in Nat
  BY DEF RateTypeOK, InvTime
<1>2. R \in Nat
  BY <1>1, RateAssumption
<1> HIDE DEF R
<1>3. \A x : Filled(x, c) = IF c \in clients THEN Smaller(Capacity, x + R) ELSE Capacity
  BY DEF Filled, R
<1> QED BY <1>2, <1>3, RateAssumption DEF Smaller

\* After a call the bucket holds what the call has left in it: no time has passed.
LEMMA FilledAfterCall ==
    ASSUME RateTypeOK', NEW c \in Clients, c \in clients', last_refill'[c] = now'
    PROVE  Level(c)' = tokens'[c]
<1>1. (now' - last_refill'[c]) * Refill = 0
  <2>1. now' \in Nat
    BY DEF RateTypeOK
  <2>2. \A t \in Nat : t - t = 0
    OBVIOUS
  <2>3. now' - now' = 0
    BY <2>1, <2>2
  <2>4. 0 * Refill = 0
    BY RateAssumption
  <2>5. now' - last_refill'[c] = 0
    BY <2>3, Zenon
  <2> QED BY <2>4, <2>5, Zenon
<1>2. tokens'[c] \in 0..Capacity
  BY DEF RateTypeOK
<1>3. Level(c)' = Smaller(Capacity, tokens'[c] + (now' - last_refill'[c]) * Refill)
  BY DEF Level, Filled, Smaller
<1> QED BY <1>1, <1>2, <1>3, RateAssumption DEF Smaller

LEMMA RateStart == RateInit => RateInv
<1> SUFFICES ASSUME RateInit PROVE RateInv
  OBVIOUS
<1>1. RateTypeOK /\ InvTime /\ NeverMoreGenerous
  BY RateAssumption DEF RateInit, RateTypeOK, InvTime, NeverMoreGenerous
<1>2. ASSUME NEW c \in Clients
      PROVE used[c] * Cost + Level(c) <= Capacity + (now - since[c]) * Refill
  <2>1. used[c] * Cost = 0 /\ (now - since[c]) * Refill = 0
    BY RateAssumption DEF RateInit
  <2>2. Level(c) = Capacity
    BY DEF RateInit, Level, Filled
  <2> QED BY <2>1, <2>2, RateAssumption
<1> QED BY <1>1, <1>2 DEF RateInv, Conserved

LEMMA AdmitsStep == ASSUME RateInv, NEW c \in Clients, CheckAdmits(c) PROVE RateInv'
<1> USE RateAssumption
<1>1. /\ Filled(tokens[c], c) \in 0..Capacity /\ Filled(ideal[c], c) \in 0..Capacity
      /\ Filled(tokens[c], c) <= Filled(ideal[c], c)
      /\ Filled(tokens[c], c) >= Cost
  BY FilledType, FilledMonotone DEF RateInv, RateTypeOK, NeverMoreGenerous, CheckAdmits
<1>2. RateTypeOK' /\ InvTime' /\ NeverMoreGenerous'
  BY <1>1 DEF RateInv, RateTypeOK, InvTime, NeverMoreGenerous, CheckAdmits
<1>3. ASSUME NEW d \in Clients
      PROVE used'[d] * Cost + Level(d)' <= Capacity + (now' - since'[d]) * Refill
  <2>1. CASE d = c
    <3>1. Level(c)' = Filled(tokens[c], c) - Cost
      BY <1>2, FilledAfterCall DEF CheckAdmits, RateInv, RateTypeOK
    <3>2. used'[c] = used[c] + 1 /\ used[c] \in Nat
      BY DEF CheckAdmits, RateInv, RateTypeOK
    <3>3. (used[c] + 1) * Cost = used[c] * Cost + Cost
      BY <3>2
    <3>4. used[c] * Cost + Filled(tokens[c], c) <= Capacity + (now - since[c]) * Refill
      BY DEF RateInv, Conserved, Level
    <3>5. used[c] * Cost \in Nat /\ (now - since[c]) * Refill \in Nat
      BY <3>2 DEF RateInv, RateTypeOK, InvTime
    <3>6. now' = now /\ since' = since
      BY DEF CheckAdmits
    <3> HIDE DEF RateInv
    <3> DEFINE U == used[c] * Cost
               W == (now - since[c]) * Refill
    <3>7. /\ U \in Nat /\ W \in Nat
          /\ U + Filled(tokens[c], c) <= Capacity + W
          /\ used'[c] * Cost = U + Cost /\ (now' - since'[c]) * Refill = W
      BY <3>2, <3>3, <3>4, <3>5, <3>6
    <3> HIDE DEF U, W
    <3> QED BY <2>1, <3>1, <3>7, <1>1
  <2>2. CASE d # c
    BY <2>2 DEF CheckAdmits, Level, Filled, RateInv, Conserved, RateTypeOK
  <2> QED BY <2>1, <2>2
<1> QED BY <1>2, <1>3 DEF RateInv, Conserved

LEMMA RejectsStep == ASSUME RateInv, NEW c \in Clients, CheckRejects(c) PROVE RateInv'
<1> USE RateAssumption
<1>1. Filled(tokens[c], c) \in 0..Capacity /\ Filled(ideal[c], c) \in 0..Capacity
  BY FilledType DEF RateInv, RateTypeOK
<1>2. c \in clients
  BY DEF CheckRejects, Filled
<1>3. RateTypeOK' /\ InvTime' /\ NeverMoreGenerous'
  BY <1>1 DEF RateInv, RateTypeOK, InvTime, NeverMoreGenerous, CheckRejects
<1>4. ASSUME NEW d \in Clients
      PROVE used'[d] * Cost + Level(d)' <= Capacity + (now' - since'[d]) * Refill
  <2>1. Level(d)' <= Level(d) /\ Level(d)' \in Nat /\ Level(d) \in Nat
    <3>1. CASE d = c
      BY <3>1, <1>1, <1>2, <1>3, FilledAfterCall DEF CheckRejects, RateInv, RateTypeOK, Level
    <3>2. CASE d # c
      <4>1. Level(d)' = Level(d)
        BY <3>2 DEF CheckRejects, Level, Filled, RateInv, RateTypeOK
      <4>2. Level(d) \in 0..Capacity
        BY FilledType DEF Level, RateInv, RateTypeOK
      <4> QED BY <4>1, <4>2
    <3> QED BY <3>1, <3>2
  <2>2. used' = used /\ now' = now /\ since' = since
    BY DEF CheckRejects
  <2>3. used[d] * Cost \in Nat /\ (now - since[d]) * Refill \in Nat
    BY DEF RateInv, RateTypeOK, InvTime
  <2>4. used[d] * Cost + Level(d) <= Capacity + (now - since[d]) * Refill
    BY DEF RateInv, Conserved
  <2> QED BY <2>1, <2>2, <2>3, <2>4
<1> QED BY <1>3, <1>4 DEF RateInv, Conserved

LEMMA WindowStep == ASSUME RateInv, NEW c \in Clients, OpenWindow(c) PROVE RateInv'
<1> USE RateAssumption
<1>1. RateTypeOK' /\ InvTime' /\ NeverMoreGenerous'
  BY DEF RateInv, RateTypeOK, InvTime, NeverMoreGenerous, OpenWindow, bucketVars
<1>2. ASSUME NEW d \in Clients
      PROVE used'[d] * Cost + Level(d)' <= Capacity + (now' - since'[d]) * Refill
  <2>1. Level(d)' = Level(d)
    BY DEF OpenWindow, bucketVars, Level, Filled
  <2>2. CASE d = c
    <3>1. used'[c] * Cost = 0 /\ (now' - since'[c]) * Refill = 0
      BY DEF OpenWindow, RateInv, RateTypeOK
    <3>2. Level(c) \in 0..Capacity
      BY FilledType DEF Level, RateInv, RateTypeOK
    <3> QED BY <2>1, <2>2, <3>1, <3>2
  <2>3. CASE d # c
    BY <2>1, <2>3 DEF OpenWindow, RateInv, Conserved, RateTypeOK
  <2> QED BY <2>2, <2>3
<1> QED BY <1>1, <1>2 DEF RateInv, Conserved

\* Time fills a bucket by no more than it adds to what a window may see.
LEMMA TickStep == ASSUME RateInv, Tick PROVE RateInv'
<1> USE RateAssumption
<1>1. RateTypeOK' /\ InvTime' /\ NeverMoreGenerous'
  BY DEF RateInv, RateTypeOK, InvTime, NeverMoreGenerous, Tick, bucketVars
<1>2. ASSUME NEW d \in Clients
      PROVE used'[d] * Cost + Level(d)' <= Capacity + (now' - since'[d]) * Refill
  <2> DEFINE U == used[d] * Cost
             W == (now - since[d]) * Refill
             R == (now - last_refill[d]) * Refill
  <2>1. /\ now' = now + 1 /\ used' = used /\ since' = since
        /\ clients' = clients /\ tokens' = tokens /\ last_refill' = last_refill
    BY DEF Tick, bucketVars
  <2>2. /\ now \in Nat /\ now - since[d] \in Nat /\ now - last_refill[d] \in Nat
        /\ since[d] \in Nat /\ last_refill[d] \in Nat
        /\ used[d] \in Nat /\ tokens[d] \in 0..Capacity
    BY DEF RateInv, RateTypeOK, InvTime
  <2>3. U \in Nat /\ W \in Nat /\ R \in Nat
    BY <2>2
  <2>4. (now' - since'[d]) * Refill = W + Refill
    <3>1. now' - since'[d] = (now - since[d]) + 1
      BY <2>1, <2>2
    <3> QED BY <3>1, <2>2
  <2>5. (now' - last_refill'[d]) * Refill = R + Refill
    <3>1. now' - last_refill'[d] = (now - last_refill[d]) + 1
      BY <2>1, <2>2
    <3> QED BY <3>1, <2>2
  <2>6. U + Level(d) <= Capacity + W /\ used'[d] * Cost = U
    BY <2>1 DEF RateInv, Conserved
  <2>7. Level(d) = IF d \in clients THEN Smaller(Capacity, tokens[d] + R) ELSE Capacity
    BY DEF Level, Filled
  <2>8. Level(d)' = IF d \in clients THEN Smaller(Capacity, tokens[d] + (R + Refill)) ELSE Capacity
    BY <2>1, <2>5 DEF Level, Filled, Smaller
  <2> HIDE DEF U, W, R
  <2>9. Level(d)' <= Level(d) + Refill /\ Level(d)' \in Nat /\ Level(d) \in Nat
    BY <2>2, <2>3, <2>7, <2>8 DEF Smaller
  <2> QED BY <2>3, <2>4, <2>6, <2>9
<1> QED BY <1>1, <1>2 DEF RateInv, Conserved

LEMMA RateStutter == ASSUME RateInv, UNCHANGED rateVars PROVE RateInv'
BY DEF RateInv, RateTypeOK, InvTime, Conserved, NeverMoreGenerous, Level, Filled, rateVars, bucketVars

THEOREM RateInductive == RateSpec => []RateInv
<1>1. ASSUME RateInv, [RateNext]_rateVars PROVE RateInv'
  <2>1. CASE UNCHANGED rateVars
    BY <2>1, <1>1, RateStutter
  <2>2. CASE RateNext
    BY <2>2, <1>1, AdmitsStep, RejectsStep, WindowStep, TickStep DEF RateNext
  <2> QED BY <1>1, <2>1, <2>2
<1> QED BY RateStart, <1>1, PTL DEF RateSpec

-----------------------------------------------------------------------------

\* The buckets keep their types: never below zero, never above the capacity.
THEOREM RateTypeCorrect == RateSpec => []RateTypeOK
<1>1. RateInv => RateTypeOK
  BY DEF RateInv
<1> QED BY <1>1, RateInductive, PTL

\* No window of time sees more than the capacity and the window's refill.
THEOREM RateBounded == RateSpec => []AdmissionBound
<1>1. ASSUME RateInv PROVE AdmissionBound
  <2> SUFFICES ASSUME NEW c \in Clients
               PROVE  used[c] * Cost <= Capacity + (now - since[c]) * Refill
    BY DEF AdmissionBound
  <2>1. Level(c) \in 0..Capacity
    BY <1>1, FilledType DEF Level, RateInv, RateTypeOK
  <2>2. used[c] * Cost \in Nat /\ (now - since[c]) * Refill \in Nat
    BY <1>1, RateAssumption DEF RateInv, RateTypeOK, InvTime
  <2>3. used[c] * Cost + Level(c) <= Capacity + (now - since[c]) * Refill
    BY <1>1 DEF RateInv, Conserved
  <2> QED BY <2>1, <2>2, <2>3, RateAssumption
<1> QED BY <1>1, RateInductive, PTL

\* What the code admits the textbook's bucket admits.
THEOREM RateNeverMoreGenerous == RateSpec => []NeverMoreGenerous
<1>1. RateInv => NeverMoreGenerous
  BY DEF RateInv
<1> QED BY <1>1, RateInductive, PTL

\* A client that has waited for a token's refill is not rejected.
THEOREM RatePauseAdmits == RateSpec => AdmittedAfterPause
<1> DEFINE A == \A c \in Clients :
                  CheckRejects(c) => c \in clients /\ (now - last_refill[c]) * Refill < Cost
<1>1. ASSUME RateInv PROVE A
  <2> SUFFICES ASSUME NEW c \in Clients, CheckRejects(c)
               PROVE  c \in clients /\ (now - last_refill[c]) * Refill < Cost
    OBVIOUS
  <2> DEFINE R == (now - last_refill[c]) * Refill
  <2>1. c \in clients
    BY RateAssumption DEF CheckRejects, Filled
  <2>2. Smaller(Capacity, tokens[c] + R) < Cost
    BY <2>1 DEF CheckRejects, Filled
  <2>3. R \in Nat /\ tokens[c] \in Nat
    BY <1>1, RateAssumption DEF RateInv, RateTypeOK, InvTime
  <2> HIDE DEF R
  <2>4. R < Cost
    BY <2>2, <2>3, RateAssumption DEF Smaller
  <2> QED BY <2>1, <2>4 DEF R
<1>2. RateInv => [A]_rateVars
  BY <1>1
<1> QED BY <1>2, RateInductive, PTL DEF AdmittedAfterPause

-----------------------------------------------------------------------------
(* Numbers and sequences                                                    *)

LEMMA LeastNat == ASSUME NEW T \in SUBSET Nat, T # {} PROVE \E n \in T : \A m \in T : n <= m
<1>1. PICK n \in T : \A m \in T : ~(<<m, n>> \in OpToRel(<, Nat))
  BY NatLessThanWellFounded, WFMin, Zenon
<1>2. \A m \in T : ~(m < n)
  BY <1>1 DEF OpToRel
<1> QED BY <1>2

\* Induction, over a set of numbers: the provers cannot use a theorem about an operator.
LEMMA NatsByInduction ==
    ASSUME NEW Good, 0 \in Good, \A n \in Nat : n \in Good => n + 1 \in Good
    PROVE  \A n \in Nat : n \in Good
<1> SUFFICES ASSUME Nat \ Good # {} PROVE FALSE
  OBVIOUS
<1>1. PICK n \in Nat \ Good : \A m \in Nat \ Good : n <= m
  BY LeastNat
<1>2. n - 1 \in Nat /\ n - 1 \notin Nat \ Good
  BY <1>1
<1> QED BY <1>1, <1>2

\* A function on 1..n is a sequence.
LEMMA FunctionIsSeq ==
    ASSUME NEW S, NEW n \in Nat, NEW f \in [1..n -> S]
    PROVE  f \in Seq(S) /\ Len(f) = n
<1>1. f \in Seq(S)
  BY SeqDef
<1>2. Len(f) \in Nat /\ DOMAIN f = 1..Len(f)
  BY <1>1, LenProperties
<1> QED BY <1>1, <1>2

-----------------------------------------------------------------------------
(* Places in order                                                          *)

\* How many places of P are not behind k.
Rank(P, k) == Cardinality({j \in P : j <= k})

LEMMA RankFacts ==
    ASSUME NEW N \in Nat, NEW P \in SUBSET (1..N)
    PROVE  /\ IsFiniteSet(P) /\ Cardinality(P) \in 0..N
           /\ \A k \in P : Rank(P, k) \in 1..Cardinality(P)
           /\ \A j, k \in P : j < k => Rank(P, j) < Rank(P, k)
<1>1. IsFiniteSet(1..N) /\ Cardinality(1..N) = N
  BY FS_Interval
<1>2. IsFiniteSet(P) /\ Cardinality(P) \in 0..N
  <2>1. IsFiniteSet(P) /\ Cardinality(P) <= N
    BY <1>1, FS_Subset
  <2> QED BY <2>1, FS_CardinalityType
<1>3. ASSUME NEW k \in Nat
      PROVE  IsFiniteSet({j \in P : j <= k}) /\ Rank(P, k) \in Nat /\ Rank(P, k) <= Cardinality(P)
  <2>1. {j \in P : j <= k} \in SUBSET P
    OBVIOUS
  <2>2. IsFiniteSet({j \in P : j <= k}) /\ Cardinality({j \in P : j <= k}) <= Cardinality(P)
    BY <1>2, <2>1, FS_Subset
  <2> QED BY <2>2, FS_CardinalityType DEF Rank
<1>4. ASSUME NEW k \in P PROVE Rank(P, k) >= 1
  <2>1. {j \in P : j <= k} # {}
    OBVIOUS
  <2>2. IsFiniteSet({j \in P : j <= k}) /\ Rank(P, k) \in Nat
    BY <1>3
  <2> QED BY <2>1, <2>2, FS_EmptySet DEF Rank
<1>5. ASSUME NEW j \in P, NEW k \in P, j < k PROVE Rank(P, j) < Rank(P, k)
  <2> DEFINE A == {i \in P : i <= j}
             B == {i \in P : i <= k}
  <2>1. A \in SUBSET B /\ A # B
    <3>1. k \in B /\ k \notin A
      BY <1>5
    <3>2. \A i \in P : i <= j => i <= k
      BY <1>5
    <3> QED BY <3>1, <3>2
  <2>2. IsFiniteSet(B) /\ Rank(P, j) = Cardinality(A) /\ Rank(P, k) = Cardinality(B)
    <3>1. j \in Nat /\ k \in Nat
      OBVIOUS
    <3> QED BY <1>3, <3>1 DEF Rank
  <2>3. Rank(P, j) \in Nat /\ Rank(P, k) \in Nat
    <3>1. j \in Nat /\ k \in Nat
      OBVIOUS
    <3> HIDE DEF A, B
    <3> QED BY <1>3, <3>1
  <2> HIDE DEF A, B
  <2>4. Cardinality(A) <= Cardinality(B) /\ Cardinality(A) # Cardinality(B)
    BY <2>1, <2>2, FS_Subset
  <2> QED BY <2>2, <2>3, <2>4
<1>6. ASSUME NEW k \in P PROVE Rank(P, k) \in 1..Cardinality(P)
  <2>1. k \in Nat
    OBVIOUS
  <2>2. Rank(P, k) \in Nat /\ Rank(P, k) <= Cardinality(P)
    BY <1>3, <2>1
  <2>3. Rank(P, k) >= 1 /\ Cardinality(P) \in Nat
    BY <1>2, <1>4
  <2> QED BY <2>2, <2>3
<1> QED BY <1>2, <1>5, <1>6

\* The place with that rank is the only one.
LEMMA NthIs ==
    ASSUME NEW N \in Nat, NEW P \in SUBSET (1..N), NEW k \in P
    PROVE  Nth(P, Rank(P, k)) = k
<1>1. \A j \in P : Rank(P, j) = Rank(P, k) => j = k
  <2> SUFFICES ASSUME NEW j \in P, Rank(P, j) = Rank(P, k), j # k PROVE FALSE
    OBVIOUS
  <2>1. j < k \/ k < j
    OBVIOUS
  <2>2. Rank(P, j) \in 1..Cardinality(P) /\ Rank(P, k) \in 1..Cardinality(P) /\ Cardinality(P) \in Nat
    BY RankFacts
  <2>3. Rank(P, j) < Rank(P, k) \/ Rank(P, k) < Rank(P, j)
    BY <2>1, RankFacts
  <2> QED BY <2>2, <2>3
<1> QED BY <1>1 DEF Nth, Rank

\* Every number up to how many there are is a rank.
LEMMA NthFacts ==
    ASSUME NEW N \in Nat
    PROVE  \A P \in SUBSET (1..N) : \A n \in 1..Cardinality(P) :
             Nth(P, n) \in P /\ Rank(P, Nth(P, n)) = n
<1> DEFINE Good == {M \in Nat : \A P \in SUBSET (1..M) : \A n \in 1..Cardinality(P) :
                      \E k \in P : Rank(P, k) = n}
<1>1. 0 \in Good
  <2>1. \A P \in SUBSET (1..0) : P = {}
    OBVIOUS
  <2>2. 1..Cardinality({}) = {}
    BY FS_EmptySet
  <2> QED BY <2>1, <2>2
<1>2. ASSUME NEW M \in Nat, M \in Good PROVE M + 1 \in Good
  <2> SUFFICES ASSUME NEW P \in SUBSET (1..(M + 1)), NEW n \in 1..Cardinality(P)
               PROVE  \E k \in P : Rank(P, k) = n
    OBVIOUS
  <2> DEFINE Q == P \ {M + 1}
  <2>1. Q \in SUBSET (1..M)
    OBVIOUS
  <2>2. IsFiniteSet(P) /\ Cardinality(P) \in Nat
    BY RankFacts
  <2>3. Cardinality(Q) = IF M + 1 \in P THEN Cardinality(P) - 1 ELSE Cardinality(P)
    BY <2>2, FS_RemoveElement
  <2>4. CASE n \in 1..Cardinality(Q)
    <3>1. PICK k \in Q : Rank(Q, k) = n
      BY <1>2, <2>1, <2>4
    <3>2. {j \in P : j <= k} = {j \in Q : j <= k}
      <4>1. k \in 1..M
        BY <2>1
      <4>2. \A j \in P : j <= k => j # M + 1
        BY <4>1
      <4> QED BY <4>2
    <3> QED BY <3>1, <3>2 DEF Rank
  <2>5. CASE n \notin 1..Cardinality(Q)
    <3>1. M + 1 \in P /\ n = Cardinality(P)
      BY <2>2, <2>3, <2>5
    <3>2. {j \in P : j <= M + 1} = P
      <4>1. \A j \in P : j <= M + 1
        OBVIOUS
      <4> QED BY <4>1
    <3> QED BY <3>1, <3>2 DEF Rank
  <2> QED BY <2>4, <2>5
<1>3. N \in Good
  <2> HIDE DEF Good
  <2> QED BY <1>1, <1>2, NatsByInduction
<1> SUFFICES ASSUME NEW P \in SUBSET (1..N), NEW n \in 1..Cardinality(P)
             PROVE  Nth(P, n) \in P /\ Rank(P, Nth(P, n)) = n
  OBVIOUS
<1>4. PICK k \in P : Rank(P, k) = n
  BY <1>3
<1>5. Nth(P, n) = k
  BY <1>4, NthIs
<1> QED BY <1>4, <1>5

\* What was picked is a sequence of what is at the places.
LEMMA PickedFacts ==
    ASSUME NEW S, NEW w \in Seq(S), NEW P \in SUBSET (1..Len(w))
    PROVE  /\ Picked(w, P) \in Seq(S) /\ Len(Picked(w, P)) = Cardinality(P)
           /\ Cardinality(P) \in 0..Len(w)
           /\ DOMAIN Picked(w, P) = 1..Cardinality(P)
           /\ \A n \in 1..Cardinality(P) : Picked(w, P)[n] = w[Nth(P, n)]
<1>1. Len(w) \in Nat /\ \A k \in 1..Len(w) : w[k] \in S
  BY LenProperties, ElementOfSeq
<1>2. Cardinality(P) \in 0..Len(w)
  BY <1>1, RankFacts
<1>3. \A n \in 1..Cardinality(P) : Nth(P, n) \in P
  BY <1>1, NthFacts
<1>4. Picked(w, P) \in [1..Cardinality(P) -> S]
  BY <1>1, <1>3 DEF Picked
<1>5. Picked(w, P) \in Seq(S) /\ Len(Picked(w, P)) = Cardinality(P)
  BY <1>2, <1>4, FunctionIsSeq
<1> QED BY <1>2, <1>5 DEF Picked

\* A place behind all others comes last.
LEMMA NthGrows ==
    ASSUME NEW N \in Nat, NEW P \in SUBSET (1..N)
    PROVE  /\ Cardinality(P \cup {N + 1}) = Cardinality(P) + 1
           /\ \A n \in 1..Cardinality(P) : Nth(P \cup {N + 1}, n) = Nth(P, n)
           /\ Nth(P \cup {N + 1}, Cardinality(P) + 1) = N + 1
<1> DEFINE R == P \cup {N + 1}
<1>1. N + 1 \in Nat /\ R \in SUBSET (1..(N + 1)) /\ N + 1 \notin P
  OBVIOUS
<1>2. IsFiniteSet(P) /\ Cardinality(P) \in Nat
  BY RankFacts
<1>3. Cardinality(R) = Cardinality(P) + 1
  BY <1>1, <1>2, FS_AddElement
<1>4. ASSUME NEW n \in 1..Cardinality(P) PROVE Nth(R, n) = Nth(P, n)
  <2>1. PICK k \in P : k = Nth(P, n) /\ Rank(P, k) = n
    BY NthFacts
  <2>2. {j \in R : j <= k} = {j \in P : j <= k}
    <3>1. k \in 1..N
      OBVIOUS
    <3>2. \A j \in R : j <= k => j # N + 1
      BY <3>1
    <3> QED BY <3>2
  <2>3. Rank(R, k) = n
    BY <2>1, <2>2 DEF Rank
  <2> HIDE DEF R
  <2>4. k \in R
    BY <2>1 DEF R
  <2> QED BY <1>1, <2>1, <2>3, <2>4, NthIs
<1>5. Nth(R, Cardinality(P) + 1) = N + 1
  <2>1. {j \in R : j <= N + 1} = R
    <3>1. \A j \in R : j <= N + 1
      OBVIOUS
    <3> QED BY <3>1
  <2>2. Rank(R, N + 1) = Cardinality(P) + 1
    BY <1>3, <2>1 DEF Rank
  <2>3. N + 1 \in R
    OBVIOUS
  <2> HIDE DEF R
  <2> QED BY <1>1, <2>2, <2>3, NthIs
<1> QED BY <1>3, <1>4, <1>5

\* An element more: it is picked, and comes last, or it is not.
LEMMA PickedAppend ==
    ASSUME NEW S, NEW w \in Seq(S), NEW e \in S, NEW P \in SUBSET (1..Len(w))
    PROVE  /\ Picked(Append(w, e), P) = Picked(w, P)
           /\ Picked(Append(w, e), P \cup {Len(w) + 1}) = Append(Picked(w, P), e)
<1> DEFINE v == Append(w, e)
           R == P \cup {Len(w) + 1}
<1>1. /\ Len(w) \in Nat
      /\ v \in Seq(S) /\ Len(v) = Len(w) + 1
      /\ \A i \in 1..Len(w) : v[i] = w[i]
      /\ v[Len(w) + 1] = e
  BY LenProperties, AppendProperties
<1>2. P \in SUBSET (1..Len(v)) /\ R \in SUBSET (1..Len(v))
  <2>1. 1..Len(w) \subseteq 1..Len(v) /\ Len(w) + 1 \in 1..Len(v)
    <3> HIDE DEF v
    <3> QED BY <1>1
  <2> HIDE DEF v
  <2> QED BY <2>1
<1>3. /\ Picked(w, P) \in Seq(S) /\ Len(Picked(w, P)) = Cardinality(P)
      /\ \A n \in 1..Cardinality(P) : Picked(w, P)[n] = w[Nth(P, n)]
  BY PickedFacts
<1>4. \A n \in 1..Cardinality(P) : Nth(P, n) \in 1..Len(w)
  BY <1>1, NthFacts
<1>5. Picked(v, P) = Picked(w, P)
  <2> HIDE DEF v, R
  <2>1. /\ Picked(v, P) \in Seq(S) /\ Len(Picked(v, P)) = Cardinality(P)
        /\ \A n \in 1..Cardinality(P) : Picked(v, P)[n] = v[Nth(P, n)]
    BY <1>1, <1>2, PickedFacts
  <2>2. \A n \in 1..Len(Picked(v, P)) : Picked(v, P)[n] = Picked(w, P)[n]
    BY <1>1, <1>3, <1>4, <2>1
  <2> QED BY <1>3, <2>1, <2>2, SeqEqual
<1>6. Picked(v, R) = Append(Picked(w, P), e)
  <2> DEFINE u == Append(Picked(w, P), e)
  <2>1. /\ u \in Seq(S) /\ Len(u) = Cardinality(P) + 1
        /\ \A n \in 1..Cardinality(P) : u[n] = w[Nth(P, n)]
        /\ u[Cardinality(P) + 1] = e
    BY <1>3, AppendProperties
  <2>2. /\ Cardinality(R) = Cardinality(P) + 1
        /\ \A n \in 1..Cardinality(P) : Nth(R, n) = Nth(P, n)
        /\ Nth(R, Cardinality(P) + 1) = Len(w) + 1
    BY <1>1, NthGrows
  <2> HIDE DEF v, R, u
  <2>3. /\ Picked(v, R) \in Seq(S) /\ Len(Picked(v, R)) = Cardinality(R)
        /\ \A n \in 1..Cardinality(R) : Picked(v, R)[n] = v[Nth(R, n)]
    BY <1>1, <1>2, PickedFacts
  <2>4. Cardinality(P) \in Nat
    BY <1>1, RankFacts
  <2>5. \A n \in 1..Len(Picked(v, R)) : Picked(v, R)[n] = u[n]
    <3> SUFFICES ASSUME NEW n \in 1..(Cardinality(P) + 1) PROVE Picked(v, R)[n] = u[n]
      BY <2>2, <2>3
    <3>1. CASE n \in 1..Cardinality(P)
      BY <3>1, <1>1, <1>4, <2>1, <2>2, <2>3
    <3>2. CASE n = Cardinality(P) + 1
      BY <3>2, <1>1, <2>1, <2>2, <2>3, <2>4
    <3> QED BY <2>4, <3>1, <3>2
  <2> QED BY <2>1, <2>2, <2>3, <2>5, SeqEqual DEF u
<1> QED BY <1>5, <1>6

\* The elements of a sequence that are in T, in order.
Those(w, T) == Picked(w, {k \in DOMAIN w : w[k] \in T})

LEMMA ThoseFacts ==
    ASSUME NEW S, NEW T
    PROVE  /\ \A w \in Seq(S) : Those(w, T) \in Seq(S) /\ Len(Those(w, T)) \in 0..Len(w)
           /\ Those(<<>>, T) = <<>>
           /\ \A w \in Seq(S) : \A e \in S :
                Those(Append(w, e), T) = IF e \in T THEN Append(Those(w, T), e) ELSE Those(w, T)
<1>1. ASSUME NEW w \in Seq(S)
      PROVE  Those(w, T) \in Seq(S) /\ Len(Those(w, T)) \in 0..Len(w)
  <2>1. {k \in DOMAIN w : w[k] \in T} \in SUBSET (1..Len(w))
    BY LenProperties
  <2> QED BY <2>1, PickedFacts DEF Those
<1>2. Those(<<>>, T) = <<>>
  <2>1. <<>> \in Seq(S) /\ Len(<<>>) = 0
    BY EmptySeq
  <2>2. Len(Those(<<>>, T)) \in 0..Len(<<>>) /\ Those(<<>>, T) \in Seq(S)
    BY <1>1, <2>1
  <2>3. 0..Len(<<>>) = {0}
    BY <2>1
  <2>4. Len(Those(<<>>, T)) = 0
    BY <2>2, <2>3, Zenon
  <2>5. Those(<<>>, T) # <<>> => Len(Those(<<>>, T)) \in Nat \ {0}
    BY <2>2, EmptySeq
  <2> QED BY <2>4, <2>5
<1>3. ASSUME NEW w \in Seq(S), NEW e \in S
      PROVE  Those(Append(w, e), T) = IF e \in T THEN Append(Those(w, T), e) ELSE Those(w, T)
  <2> DEFINE P == {k \in DOMAIN w : w[k] \in T}
             v == Append(w, e)
             R == {k \in DOMAIN v : v[k] \in T}
  <2>1. /\ Len(w) \in Nat /\ DOMAIN w = 1..Len(w)
        /\ v \in Seq(S) /\ Len(v) = Len(w) + 1 /\ DOMAIN v = 1..Len(v)
        /\ \A i \in 1..Len(w) : v[i] = w[i]
        /\ v[Len(w) + 1] = e
    BY LenProperties, AppendProperties
  <2>2. P \in SUBSET (1..Len(w))
    BY <2>1
  <2>3. DOMAIN v = (DOMAIN w) \cup {Len(w) + 1} /\ \A i \in DOMAIN w : v[i] = w[i]
    BY <2>1
  <2> HIDE DEF v
  <2>4. R = IF e \in T THEN P \cup {Len(w) + 1} ELSE P
    BY <2>1, <2>3
  <2> HIDE DEF P, R
  <2>5. Picked(v, P) = Picked(w, P) /\ Picked(v, P \cup {Len(w) + 1}) = Append(Picked(w, P), e)
    BY <2>2, PickedAppend DEF v
  <2> QED BY <2>4, <2>5 DEF Those, P, R, v
<1> QED BY <1>1, <1>2, <1>3

\* Induction over sequences.
LEMMA SeqByInduction ==
    ASSUME NEW S, NEW Good, <<>> \in Good,
           \A w \in Seq(S) : \A e \in S : w \in Good => Append(w, e) \in Good
    PROVE  \A w \in Seq(S) : w \in Good
<1> DEFINE Long == {n \in Nat : \A w \in Seq(S) : Len(w) = n => w \in Good}
<1>1. 0 \in Long
  BY EmptySeq
<1>2. ASSUME NEW n \in Nat, n \in Long PROVE n + 1 \in Long
  <2> SUFFICES ASSUME NEW w \in Seq(S), Len(w) = n + 1 PROVE w \in Good
    OBVIOUS
  <2>1. w # <<>>
    BY EmptySeq
  <2>2. PICK v \in Seq(S), e \in S : w = Append(v, e)
    BY <2>1, SequenceEmptyOrAppend
  <2>3. Len(v) \in Nat /\ Len(w) = Len(v) + 1
    BY <2>2, LenProperties, AppendProperties
  <2>4. v \in Good
    BY <1>2, <2>3
  <2> QED BY <2>2, <2>4
<1>3. \A n \in Nat : n \in Long
  <2> HIDE DEF Long
  <2> QED BY <1>1, <1>2, NatsByInduction
<1> QED BY <1>3, LenProperties

LEMMA ConcatAppend ==
    ASSUME NEW S, NEW u \in Seq(S), NEW v \in Seq(S), NEW e \in S
    PROVE  u \o Append(v, e) = Append(u \o v, e)
<1>1. <<e>> \in Seq(S) /\ u \o v \in Seq(S)
  BY ConcatProperties
<1>2. Append(v, e) = v \o <<e>> /\ Append(u \o v, e) = (u \o v) \o <<e>>
  BY <1>1, AppendIsConcat
<1> QED BY <1>1, <1>2, ConcatAssociative

LEMMA ThoseConcat ==
    ASSUME NEW S, NEW T, NEW u \in Seq(S)
    PROVE  \A v \in Seq(S) : Those(u \o v, T) = Those(u, T) \o Those(v, T)
<1> DEFINE Good == {v \in Seq(S) : Those(u \o v, T) = Those(u, T) \o Those(v, T)}
<1>a. /\ \A w \in Seq(S) : Those(w, T) \in Seq(S)
      /\ \A w \in Seq(S) : \A e \in S :
           Those(Append(w, e), T) = IF e \in T THEN Append(Those(w, T), e) ELSE Those(w, T)
  BY ThoseFacts
<1>0. Those(u, T) \in Seq(S)
  BY <1>a
<1>1. <<>> \in Good
  <2>1. <<>> \in Seq(S) /\ u \o <<>> = u /\ Those(u, T) \o <<>> = Those(u, T)
    BY <1>0, EmptySeq, ConcatEmptySeq
  <2> QED BY <2>1, ThoseFacts
<1>2. ASSUME NEW v \in Seq(S), NEW e \in S, v \in Good PROVE Append(v, e) \in Good
  <2>1. u \o v \in Seq(S) /\ Append(v, e) \in Seq(S) /\ u \o Append(v, e) = Append(u \o v, e)
    BY ConcatProperties, ConcatAppend, AppendProperties
  <2>2. Those(v, T) \in Seq(S)
    BY ThoseFacts
  <2>3. Those(Append(u \o v, e), T) =
          IF e \in T THEN Append(Those(u \o v, T), e) ELSE Those(u \o v, T)
    BY <2>1, <1>a
  <2>4. Those(Append(v, e), T) = IF e \in T THEN Append(Those(v, T), e) ELSE Those(v, T)
    BY <1>a
  <2>5. Those(u, T) \o Append(Those(v, T), e) = Append(Those(u, T) \o Those(v, T), e)
    BY <1>0, <2>2, ConcatAppend
  <2> QED BY <1>2, <2>1, <2>3, <2>4, <2>5
<1>3. \A v \in Seq(S) : v \in Good
  <2> HIDE DEF Good
  <2> QED BY <1>1, <1>2, SeqByInduction
<1> QED BY <1>3

\* All of them, or none.
LEMMA ThoseAll ==
    ASSUME NEW S, NEW T
    PROVE  \A w \in Seq(S) : /\ (\A k \in 1..Len(w) : w[k] \in T) => Those(w, T) = w
                             /\ (\A k \in 1..Len(w) : w[k] \notin T) => Those(w, T) = <<>>
<1> DEFINE Good == {w \in Seq(S) : /\ (\A k \in 1..Len(w) : w[k] \in T) => Those(w, T) = w
                                   /\ (\A k \in 1..Len(w) : w[k] \notin T) => Those(w, T) = <<>>}
<1>a. /\ \A w \in Seq(S) : Those(w, T) \in Seq(S)
      /\ \A w \in Seq(S) : \A e \in S :
           Those(Append(w, e), T) = IF e \in T THEN Append(Those(w, T), e) ELSE Those(w, T)
  BY ThoseFacts
<1>1. <<>> \in Good
  BY EmptySeq, ThoseFacts
<1>2. ASSUME NEW w \in Seq(S), NEW e \in S, w \in Good PROVE Append(w, e) \in Good
  <2>1. /\ Len(w) \in Nat /\ Append(w, e) \in Seq(S) /\ Len(Append(w, e)) = Len(w) + 1
        /\ \A i \in 1..Len(w) : Append(w, e)[i] = w[i]
        /\ Append(w, e)[Len(w) + 1] = e
    BY LenProperties, AppendProperties
  <2>2. Those(Append(w, e), T) = IF e \in T THEN Append(Those(w, T), e) ELSE Those(w, T)
    BY <1>a
  <2>3. \A i \in 1..Len(w) : i \in 1..Len(Append(w, e))
    BY <2>1
  <2>4. Len(w) + 1 \in 1..Len(Append(w, e))
    BY <2>1
  <2>5. ASSUME \A k \in 1..Len(Append(w, e)) : Append(w, e)[k] \in T
        PROVE  Those(Append(w, e), T) = Append(w, e)
    <3>1. e \in T /\ \A k \in 1..Len(w) : w[k] \in T
      BY <2>1, <2>3, <2>4, <2>5
    <3> QED BY <1>2, <2>2, <3>1
  <2>6. ASSUME \A k \in 1..Len(Append(w, e)) : Append(w, e)[k] \notin T
        PROVE  Those(Append(w, e), T) = <<>>
    <3>1. e \notin T /\ \A k \in 1..Len(w) : w[k] \notin T
      BY <2>1, <2>3, <2>4, <2>6
    <3> QED BY <1>2, <2>2, <3>1
  <2> QED BY <2>1, <2>5, <2>6
<1>3. \A w \in Seq(S) : w \in Good
  <2> HIDE DEF Good
  <2> QED BY <1>1, <1>2, SeqByInduction
<1> QED BY <1>3

-----------------------------------------------------------------------------
(* FlattenSeq, and the sums of Messages                                     *)

\* f is what the recursion of FlattenSeq goes through.
Flattens(f, B, S) ==
    /\ f \in [0..Len(B) -> Seq(S)] /\ f[0] = <<>>
    /\ \A i \in 1..Len(B) : f[i] = f[i - 1] \o B[i]

LEMMA FlattensExist ==
    ASSUME NEW S
    PROVE  \A B \in Seq(Seq(S)) : \E f : Flattens(f, B, S)
<1> DEFINE Good == {B \in Seq(Seq(S)) : \E f : Flattens(f, B, S)}
<1>1. <<>> \in Good
  <2>1. <<>> \in Seq(Seq(S)) /\ Len(<<>>) = 0 /\ <<>> \in Seq(S)
    BY EmptySeq
  <2> DEFINE f == [i \in 0..0 |-> <<>>]
  <2>2. f \in [0..0 -> Seq(S)] /\ f[0] = <<>>
    BY <2>1
  <2> HIDE DEF f
  <2>3. Flattens(f, <<>>, S)
    BY <2>1, <2>2 DEF Flattens
  <2> QED BY <2>1, <2>3
<1>2. ASSUME NEW B \in Seq(Seq(S)), NEW e \in Seq(S), B \in Good PROVE Append(B, e) \in Good
  <2>1. PICK f : Flattens(f, B, S)
    BY <1>2
  <2>2. /\ Len(B) \in Nat /\ Append(B, e) \in Seq(Seq(S)) /\ Len(Append(B, e)) = Len(B) + 1
        /\ \A i \in 1..Len(B) : Append(B, e)[i] = B[i]
        /\ Append(B, e)[Len(B) + 1] = e
    BY LenProperties, AppendProperties
  <2>a. PICK n \in Nat : n = Len(B)
    BY <2>2
  <2> DEFINE g == [i \in 0..(n + 1) |-> IF i = n + 1 THEN f[n] \o e ELSE f[i]]
  <2>b. f \in [0..n -> Seq(S)] /\ f[0] = <<>> /\ \A i \in 1..n : f[i] = f[i - 1] \o B[i]
    <3> HIDE DEF g
    <3> QED BY <2>1, <2>a DEF Flattens
  <2>3. f[n] \o e \in Seq(S) /\ \A i \in 0..n : f[i] \in Seq(S)
    <3>1. f[n] \in Seq(S) /\ \A i \in 0..n : f[i] \in Seq(S)
      <4> HIDE DEF g
      <4>1. n \in 0..n
        OBVIOUS
      <4> QED BY <2>b, <4>1
    <3>2. e \in Seq(S)
      OBVIOUS
    <3> QED BY <3>1, <3>2, ConcatProperties
  <2>4. g \in [0..(n + 1) -> Seq(S)] /\ g[0] = <<>>
    <3>1. \A i \in 0..(n + 1) : i = n + 1 \/ i \in 0..n
      OBVIOUS
    <3>2. f[0] = <<>> /\ 0 # n + 1 /\ 0 \in 0..(n + 1)
      BY <2>b
    <3> QED BY <2>3, <3>1, <3>2
  <2>5. ASSUME NEW i \in 1..(n + 1) PROVE g[i] = g[i - 1] \o Append(B, e)[i]
    <3>1. CASE i = n + 1
      <4>1. g[n + 1] = f[n] \o e /\ g[n] = f[n]
        OBVIOUS
      <4> HIDE DEF g
      <4>2. i - 1 = n /\ Append(B, e)[i] = e
        BY <2>2, <2>a, <3>1
      <4> QED BY <3>1, <4>1, <4>2
    <3>2. CASE i \in 1..n
      <4>1. i # n + 1 /\ i - 1 # n + 1 /\ i - 1 \in 0..(n + 1)
        BY <3>2
      <4>2. f[i] = f[i - 1] \o B[i] /\ Append(B, e)[i] = B[i]
        BY <2>2, <2>a, <2>b, <3>2
      <4>3. g[i] = f[i] /\ g[i - 1] = f[i - 1]
        BY <4>1
      <4> HIDE DEF g
      <4> QED BY <4>2, <4>3
    <3>3. i = n + 1 \/ i \in 1..n
      OBVIOUS
    <3> HIDE DEF g
    <3> QED BY <3>1, <3>2, <3>3
  <2> HIDE DEF g
  <2>6. Flattens(g, Append(B, e), S)
    BY <2>2, <2>4, <2>5, <2>a DEF Flattens
  <2> QED BY <2>2, <2>6
<1>3. \A B \in Seq(Seq(S)) : B \in Good
  <2> HIDE DEF Good
  <2> QED BY <1>1, <1>2, SeqByInduction
<1> QED BY <1>3

\* Such a recursion has one solution, and its last value is the flat sequence.
LEMMA FlattenIs ==
    ASSUME NEW S, NEW B \in Seq(Seq(S)), NEW f, Flattens(f, B, S)
    PROVE  FlattenSeq(B) = f[Len(B)]
<1>0. Len(B) \in Nat
  BY LenProperties
<1>1. CASE Len(B) = 0
  BY <1>1, EmptySeq DEF FlattenSeq, Flattens
<1>2. CASE Len(B) # 0
  <2> DEFINE IsIt(g) == g = [i \in 1..Len(B) |-> IF i = 1 THEN B[i] ELSE g[i - 1] \o B[i]]
             g == CHOOSE g : IsIt(g)
             h == [i \in 1..Len(B) |-> f[i]]
  <2>1. FlattenSeq(B) = g[Len(B)]
    BY <1>2 DEF FlattenSeq
  <2>2. IsIt(h)
    <3>1. ASSUME NEW i \in 1..Len(B) PROVE h[i] = IF i = 1 THEN B[i] ELSE h[i - 1] \o B[i]
      <4>1. f[i] = f[i - 1] \o B[i] /\ B[i] \in Seq(S)
        BY ElementOfSeq DEF Flattens
      <4>2. CASE i = 1
        <5>1. <<>> \o B[i] = B[i]
          BY <4>1, ConcatEmptySeq
        <5>2. f[0] = <<>> /\ i - 1 = 0
          BY <4>2 DEF Flattens
        <5> QED BY <4>1, <4>2, <5>1, <5>2
      <4>3. CASE i # 1
        <5>1. i - 1 \in 1..Len(B)
          BY <1>0, <4>3
        <5> QED BY <4>1, <4>3, <5>1
      <4> QED BY <4>2, <4>3
    <3> QED BY <3>1
  <2> HIDE DEF h
  <2>3. IsIt(g)
    BY <2>2
  <2> HIDE DEF g
  <2> DEFINE Good == {i \in Nat : i + 1 \in 1..Len(B) => g[i + 1] = h[i + 1]}
  <2>4. 0 \in Good
    BY <2>2, <2>3
  <2>5. ASSUME NEW i \in Nat, i \in Good PROVE i + 1 \in Good
    <3> SUFFICES ASSUME i + 2 \in 1..Len(B) PROVE g[i + 2] = h[i + 2]
      OBVIOUS
    <3>1. i + 1 \in 1..Len(B) /\ i + 2 # 1 /\ (i + 2) - 1 = i + 1
      BY <1>0
    <3>2. g[i + 2] = g[i + 1] \o B[i + 2] /\ h[i + 2] = h[i + 1] \o B[i + 2]
      BY <2>2, <2>3, <3>1
    <3> QED BY <2>5, <3>1, <3>2
  <2>6. \A i \in Nat : i \in Good
    <3> HIDE DEF Good
    <3> QED BY <2>4, <2>5, NatsByInduction
  <2>7. g[Len(B)] = h[Len(B)]
    <3>1. Len(B) - 1 \in Good /\ (Len(B) - 1) + 1 = Len(B)
      <4>1. Len(B) - 1 \in Nat
        BY <1>0, <1>2
      <4> HIDE DEF Good
      <4> QED BY <1>0, <2>6, <4>1
    <3> QED BY <1>0, <1>2, <3>1
  <2> QED BY <1>0, <1>2, <2>1, <2>7 DEF h
<1> QED BY <1>1, <1>2

\* Of blocks laid end to end, T picks the k-th whole and nothing of the others.
LEMMA BlockPicked ==
    ASSUME NEW S, NEW B \in Seq(Seq(S)), NEW T, NEW k \in 0..Len(B),
           \A i \in 1..Len(B) : Those(B[i], T) = IF i = k THEN B[i] ELSE <<>>
    PROVE  /\ FlattenSeq(B) \in Seq(S)
           /\ Those(FlattenSeq(B), T) = IF k = 0 THEN <<>> ELSE B[k]
<1>1. PICK f : Flattens(f, B, S)
  BY FlattensExist
<1>2. Len(B) \in Nat /\ \A i \in 1..Len(B) : B[i] \in Seq(S)
  BY LenProperties, ElementOfSeq
<1>3. FlattenSeq(B) = f[Len(B)] /\ \A i \in 0..Len(B) : f[i] \in Seq(S)
  BY <1>1, FlattenIs DEF Flattens
<1> DEFINE Good == {i \in Nat : i <= Len(B) =>
                      Those(f[i], T) = IF k # 0 /\ k <= i THEN B[k] ELSE <<>>}
<1>4. 0 \in Good
  <2>1. f[0] = <<>> /\ ~(k # 0 /\ k <= 0)
    BY <1>1, <1>2 DEF Flattens
  <2> QED BY <2>1, ThoseFacts
<1>5. ASSUME NEW i \in Nat, i \in Good PROVE i + 1 \in Good
  <2> SUFFICES ASSUME i + 1 <= Len(B)
               PROVE  Those(f[i + 1], T) = IF k # 0 /\ k <= i + 1 THEN B[k] ELSE <<>>
    OBVIOUS
  <2>1. i + 1 \in 1..Len(B) /\ i \in 0..Len(B) /\ i <= Len(B) /\ (i + 1) - 1 = i
    BY <1>2
  <2>2. f[i + 1] = f[i] \o B[i + 1]
    BY <1>1, <2>1 DEF Flattens
  <2>3. f[i] \in Seq(S) /\ B[i + 1] \in Seq(S)
    BY <1>2, <1>3, <2>1
  <2>4. Those(f[i] \o B[i + 1], T) = Those(f[i], T) \o Those(B[i + 1], T)
    BY <2>3, ThoseConcat, ZenonT(60)
  <2>5. Those(f[i], T) = IF k # 0 /\ k <= i THEN B[k] ELSE <<>>
    BY <1>5, <2>1
  <2>6. Those(B[i + 1], T) = IF i + 1 = k THEN B[i + 1] ELSE <<>>
    BY <2>1
  <2>7. CASE i + 1 = k
    <3>1. Those(f[i], T) = <<>> /\ Those(B[i + 1], T) = B[k]
      BY <2>5, <2>6, <2>7
    <3>2. <<>> \o B[k] = B[k]
      BY <2>3, <2>7, ConcatEmptySeq
    <3> QED BY <2>2, <2>4, <2>7, <3>1, <3>2
  <2>8. CASE i + 1 # k
    <3>1. Those(B[i + 1], T) = <<>> /\ (k <= i + 1 <=> k <= i)
      BY <2>6, <2>8
    <3>2. Those(f[i], T) \in Seq(S)
      BY <2>3, ThoseFacts
    <3>3. Those(f[i], T) \o <<>> = Those(f[i], T)
      BY <3>2, ConcatEmptySeq
    <3> QED BY <2>2, <2>4, <2>5, <3>1, <3>3
  <2> QED BY <2>7, <2>8
<1>6. Len(B) \in Good
  <2> HIDE DEF Good
  <2> QED BY <1>2, <1>4, <1>5, NatsByInduction
<1>7. Those(f[Len(B)], T) = IF k # 0 /\ k <= Len(B) THEN B[k] ELSE <<>>
  BY <1>2, <1>6
<1> QED BY <1>2, <1>3, <1>7

\* Whatever holds of the elements of all blocks holds of the whole.
LEMMA FlatElements ==
    ASSUME NEW S, NEW B \in Seq(Seq(S)), NEW T, \A i \in 1..Len(B) : B[i] \in Seq(T)
    PROVE  FlattenSeq(B) \in Seq(T)
<1>1. Len(B) \in Nat /\ DOMAIN B = 1..Len(B) /\ B \in [1..Len(B) -> Seq(S)]
  BY LenProperties
<1>2. B \in [1..Len(B) -> Seq(T)]
  BY <1>1
<1>3. B \in Seq(Seq(T))
  BY <1>1, <1>2, FunctionIsSeq
<1>4. PICK f : Flattens(f, B, T)
  BY <1>3, FlattensExist
<1>5. FlattenSeq(B) = f[Len(B)]
  BY <1>3, <1>4, FlattenIs
<1> QED BY <1>1, <1>4, <1>5 DEF Flattens

\* f is what the recursion of SumOf goes through.
SumsUp(f, s) ==
    /\ f \in [0..Len(s) -> Nat] /\ f[0] = 0
    /\ \A i \in 1..Len(s) : f[i] = f[i - 1] + s[i]

LEMMA SumIs ==
    ASSUME NEW s \in Seq(Nat), NEW f, SumsUp(f, s)
    PROVE  SumOf(s) = f[Len(s)]
<1>0. Len(s) \in Nat /\ \A i \in 1..Len(s) : s[i] \in Nat
  BY LenProperties, ElementOfSeq
<1> DEFINE IsIt(g) == g = [k \in 0..Len(s) |-> IF k = 0 THEN 0 ELSE g[k - 1] + s[k]]
           g == CHOOSE g : IsIt(g)
<1>1. SumOf(s) = g[Len(s)]
  BY DEF SumOf
<1>2. IsIt(f)
  <2>1. \A k \in 0..Len(s) : f[k] = IF k = 0 THEN 0 ELSE f[k - 1] + s[k]
    BY <1>0 DEF SumsUp
  <2> QED BY <2>1 DEF SumsUp
<1>3. IsIt(g)
  BY <1>2
<1> HIDE DEF g
<1> DEFINE Good == {i \in Nat : i <= Len(s) => g[i] = f[i]}
<1>4. 0 \in Good
  BY <1>0, <1>2, <1>3
<1>5. ASSUME NEW i \in Nat, i \in Good PROVE i + 1 \in Good
  <2> SUFFICES ASSUME i + 1 <= Len(s) PROVE g[i + 1] = f[i + 1]
    OBVIOUS
  <2>1. i + 1 \in 0..Len(s) /\ i + 1 # 0 /\ (i + 1) - 1 = i /\ i <= Len(s)
    BY <1>0
  <2>2. g[i + 1] = g[i] + s[i + 1] /\ f[i + 1] = f[i] + s[i + 1]
    BY <1>2, <1>3, <2>1
  <2> QED BY <1>5, <2>1, <2>2
<1>6. Len(s) \in Good
  <2> HIDE DEF Good
  <2> QED BY <1>0, <1>4, <1>5, NatsByInduction
<1> QED BY <1>0, <1>1, <1>6

LEMMA SumFacts ==
    /\ SumOf(<<>>) = 0
    /\ \A s \in Seq(Nat) : SumOf(s) \in Nat /\ \E f : SumsUp(f, s) /\ SumOf(s) = f[Len(s)]
    /\ \A s \in Seq(Nat) : \A x \in Nat : SumOf(Append(s, x)) = SumOf(s) + x
<1> DEFINE Good == {s \in Seq(Nat) : \E f : SumsUp(f, s)}
<1>1. <<>> \in Good /\ SumOf(<<>>) = 0
  <2>1. <<>> \in Seq(Nat) /\ Len(<<>>) = 0
    BY EmptySeq
  <2> DEFINE f == [i \in 0..0 |-> 0]
  <2>2. f \in [0..0 -> Nat] /\ f[0] = 0
    OBVIOUS
  <2> HIDE DEF f
  <2>3. SumsUp(f, <<>>)
    BY <2>1, <2>2 DEF SumsUp
  <2>4. SumOf(<<>>) = f[Len(<<>>)]
    BY <2>1, <2>3, SumIs
  <2> QED BY <2>1, <2>2, <2>3, <2>4
<1>2. ASSUME NEW s \in Seq(Nat), NEW x \in Nat, s \in Good
      PROVE  Append(s, x) \in Good /\ SumOf(Append(s, x)) = SumOf(s) + x
  <2>1. PICK f : SumsUp(f, s)
    BY <1>2
  <2>2. /\ Len(s) \in Nat /\ Append(s, x) \in Seq(Nat) /\ Len(Append(s, x)) = Len(s) + 1
        /\ \A i \in 1..Len(s) : Append(s, x)[i] = s[i]
        /\ Append(s, x)[Len(s) + 1] = x
    BY LenProperties, AppendProperties
  <2>3. PICK n \in Nat : n = Len(s)
    BY <2>2
  <2> DEFINE g == [i \in 0..(n + 1) |-> IF i = n + 1 THEN f[n] + x ELSE f[i]]
  <2>4. f \in [0..n -> Nat] /\ f[0] = 0 /\ \A i \in 1..n : f[i] = f[i - 1] + s[i]
    BY <2>1, <2>3 DEF SumsUp
  <2>5. \A i \in 0..(n + 1) : i = n + 1 \/ i \in 0..n
    OBVIOUS
  <2>6. g \in [0..(n + 1) -> Nat] /\ g[0] = 0
    BY <2>4, <2>5
  <2>7. ASSUME NEW i \in 1..(n + 1) PROVE g[i] = g[i - 1] + Append(s, x)[i]
    <3>1. CASE i = n + 1
      <4>1. g[i] = f[n] + x /\ g[n] = f[n] /\ i - 1 = n /\ Append(s, x)[i] = x
        BY <2>2, <2>3, <3>1
      <4> QED BY <4>1
    <3>2. CASE i \in 1..n
      <4>1. i # n + 1 /\ i - 1 # n + 1 /\ i - 1 \in 0..(n + 1)
        BY <3>2
      <4>2. f[i] = f[i - 1] + s[i] /\ Append(s, x)[i] = s[i]
        BY <2>2, <2>3, <2>4, <3>2
      <4>3. g[i] = f[i] /\ g[i - 1] = f[i - 1]
        BY <4>1
      <4> HIDE DEF g
      <4> QED BY <4>2, <4>3
    <3>3. i = n + 1 \/ i \in 1..n
      OBVIOUS
    <3> HIDE DEF g
    <3> QED BY <3>1, <3>2, <3>3
  <2>8. g[n + 1] = f[n] + x
    OBVIOUS
  <2> HIDE DEF g
  <2>9. SumsUp(g, Append(s, x))
    BY <2>2, <2>3, <2>6, <2>7 DEF SumsUp
  <2>10. SumOf(s) = f[n] /\ SumOf(Append(s, x)) = g[n + 1]
    <3>1. SumOf(s) = f[Len(s)]
      BY <2>1, SumIs
    <3>2. SumOf(Append(s, x)) = g[Len(Append(s, x))]
      BY <2>2, <2>9, SumIs
    <3> QED BY <2>2, <2>3, <3>1, <3>2
  <2> QED BY <2>2, <2>8, <2>9, <2>10
<1>3. \A s \in Seq(Nat) : s \in Good
  <2>1. <<>> \in Good /\ \A s \in Seq(Nat) : \A x \in Nat : s \in Good => Append(s, x) \in Good
    BY <1>1, <1>2
  <2> HIDE DEF Good
  <2> QED BY <2>1, SeqByInduction
<1>4. ASSUME NEW s \in Seq(Nat)
      PROVE  SumOf(s) \in Nat /\ \E f : SumsUp(f, s) /\ SumOf(s) = f[Len(s)]
  <2>1. PICK f : SumsUp(f, s)
    BY <1>3
  <2>2. SumOf(s) = f[Len(s)] /\ Len(s) \in Nat
    BY <2>1, SumIs, LenProperties
  <2>3. SumOf(s) \in Nat
    BY <2>1, <2>2 DEF SumsUp
  <2> QED BY <2>1, <2>2, <2>3
<1> QED BY <1>1, <1>2, <1>3, <1>4

\* A sum of larger numbers is larger, and one number more counts once.
LEMMA SumsCompare ==
    ASSUME NEW n \in Nat, NEW s \in [1..n -> Nat], NEW t \in [1..n -> Nat],
           \A k \in 1..n : s[k] <= t[k]
    PROVE  SumOf(s) \in Nat /\ SumOf(t) \in Nat /\ SumOf(s) <= SumOf(t)
<1>1. s \in Seq(Nat) /\ Len(s) = n /\ t \in Seq(Nat) /\ Len(t) = n
  BY FunctionIsSeq
<1>2. PICK f : SumsUp(f, s) /\ SumOf(s) = f[n]
  BY <1>1, SumFacts
<1>3. PICK g : SumsUp(g, t) /\ SumOf(t) = g[n]
  BY <1>1, SumFacts
<1>4. /\ f \in [0..n -> Nat] /\ f[0] = 0 /\ \A i \in 1..n : f[i] = f[i - 1] + s[i]
      /\ g \in [0..n -> Nat] /\ g[0] = 0 /\ \A i \in 1..n : g[i] = g[i - 1] + t[i]
  BY <1>1, <1>2, <1>3 DEF SumsUp
<1> DEFINE Good == {i \in Nat : i <= n => f[i] <= g[i]}
<1>5. 0 \in Good
  BY <1>4
<1>6. ASSUME NEW i \in Nat, i \in Good PROVE i + 1 \in Good
  <2> SUFFICES ASSUME i + 1 <= n PROVE f[i + 1] <= g[i + 1]
    OBVIOUS
  <2>1. i + 1 \in 1..n /\ (i + 1) - 1 = i /\ i \in 0..n /\ f[i] <= g[i]
    BY <1>6
  <2>2. f[i + 1] = f[i] + s[i + 1] /\ g[i + 1] = g[i] + t[i + 1] /\ s[i + 1] <= t[i + 1]
    BY <1>4, <2>1
  <2>3. f[i] \in Nat /\ g[i] \in Nat /\ s[i + 1] \in Nat /\ t[i + 1] \in Nat
    BY <1>4, <2>1
  <2> QED BY <2>1, <2>2, <2>3
<1>7. n \in Good
  <2> HIDE DEF Good
  <2> QED BY <1>5, <1>6, NatsByInduction
<1>8. g[n] >= f[n]
  BY <1>7
<1>9. SumOf(s) \in Nat /\ SumOf(t) \in Nat
  BY <1>1, SumFacts
<1> HIDE DEF Good
<1> QED BY <1>2, <1>3, <1>8, <1>9

LEMMA SumBumped ==
    ASSUME NEW n \in Nat, NEW s \in [1..n -> Nat], NEW t \in [1..n -> Nat], NEW p \in 1..n,
           NEW x \in Nat, t[p] = s[p] + x, \A k \in 1..n : k # p => t[k] = s[k]
    PROVE  SumOf(s) \in Nat /\ SumOf(t) = SumOf(s) + x
<1>1. s \in Seq(Nat) /\ Len(s) = n /\ t \in Seq(Nat) /\ Len(t) = n
  BY FunctionIsSeq
<1>2. PICK f : SumsUp(f, s) /\ SumOf(s) = f[n]
  BY <1>1, SumFacts
<1>3. PICK g : SumsUp(g, t) /\ SumOf(t) = g[n]
  BY <1>1, SumFacts
<1>4. /\ f \in [0..n -> Nat] /\ f[0] = 0 /\ \A i \in 1..n : f[i] = f[i - 1] + s[i]
      /\ g \in [0..n -> Nat] /\ g[0] = 0 /\ \A i \in 1..n : g[i] = g[i - 1] + t[i]
  BY <1>1, <1>2, <1>3 DEF SumsUp
<1> DEFINE Good == {i \in Nat : i <= n => g[i] = IF p <= i THEN f[i] + x ELSE f[i]}
<1>5. 0 \in Good
  BY <1>4
<1>6. ASSUME NEW i \in Nat, i \in Good PROVE i + 1 \in Good
  <2> SUFFICES ASSUME i + 1 <= n PROVE g[i + 1] = IF p <= i + 1 THEN f[i + 1] + x ELSE f[i + 1]
    OBVIOUS
  <2>1. i + 1 \in 1..n /\ (i + 1) - 1 = i /\ i \in 0..n
        /\ g[i] = IF p <= i THEN f[i] + x ELSE f[i]
    BY <1>6
  <2>2. f[i + 1] = f[i] + s[i + 1] /\ g[i + 1] = g[i] + t[i + 1]
    BY <1>4, <2>1
  <2>3. f[i] \in Nat /\ g[i] \in Nat /\ s[i + 1] \in Nat /\ t[i + 1] \in Nat
    BY <1>4, <2>1
  <2>4. t[i + 1] = IF i + 1 = p THEN s[i + 1] + x ELSE s[i + 1]
    BY <2>1
  <2>5. CASE i + 1 = p
    <3>1. ~(p <= i) /\ p <= i + 1
      BY <2>5
    <3> HIDE DEF Good
    <3>2. g[i] = f[i] /\ t[i + 1] = s[i + 1] + x
      BY <2>1, <2>4, <2>5, <3>1
    <3>3. g[i + 1] = f[i] + (s[i + 1] + x) /\ f[i + 1] = f[i] + s[i + 1]
      BY <2>2, <3>2
    <3>4. g[i + 1] = f[i + 1] + x
      BY <2>3, <3>3, SMTT(30)
    <3> QED BY <3>1, <3>4
  <2>6. CASE i + 1 # p
    <3>1. p <= i <=> p <= i + 1
      BY <2>6
    <3> HIDE DEF Good
    <3>2. t[i + 1] = s[i + 1]
      BY <2>4, <2>6
    <3>3. CASE p <= i
      <4>1. g[i] = f[i] + x
        BY <2>1, <3>3
      <4>2. g[i + 1] = f[i + 1] + x
        BY <2>2, <2>3, <3>2, <4>1, SMTT(30)
      <4> QED BY <3>1, <3>3, <4>2
    <3>4. CASE ~(p <= i)
      <4>1. g[i] = f[i]
        BY <2>1, <3>4
      <4>2. g[i + 1] = f[i + 1]
        BY <2>2, <3>2, <4>1
      <4> QED BY <3>1, <3>4, <4>2
    <3> QED BY <3>3, <3>4
  <2> QED BY <2>5, <2>6
<1>7. n \in Good
  <2> HIDE DEF Good
  <2> QED BY <1>5, <1>6, NatsByInduction
<1>8. g[n] = f[n] + x
  BY <1>7
<1>9. SumOf(s) \in Nat
  BY <1>1, SumFacts
<1> HIDE DEF Good
<1> QED BY <1>2, <1>3, <1>8, <1>9

-----------------------------------------------------------------------------
(* Messages                                                                 *)

Scalars == {"uint64", "uint32", "int64", "int32", "bool", "float", "bytes", "string"}
Nested  == {"SearchResult", "ShardInfo"}

\* What the tables of fields have in common.
IsFields(fields) ==
    /\ Len(fields) \in Nat /\ DOMAIN fields = 1..Len(fields)
    /\ \A k \in DOMAIN fields :
         /\ fields[k].num = k /\ fields[k].name # "unknown" /\ fields[k].repeated \in BOOLEAN
         /\ IF fields[k].repeated THEN fields[k].type \in Nested ELSE fields[k].type \in Scalars
    /\ \A j, k \in DOMAIN fields : fields[j].name = fields[k].name => j = k

\* The tokens of one field.
Block(fields, m, k)  == TokensOf(fields[k], m[fields[k].name], EncodeNested)
Blocks(fields, m)    == [k \in DOMAIN fields |-> Block(fields, m, k)]

LEMMA SerializeIs ==
    \A fields, m : Serialize(fields, m) = FlattenSeq(Blocks(fields, m)) \o m.unknown
BY DEF Serialize, SerializeWith, Blocks, Block

LEMMA BlockIs ==
    ASSUME NEW fields, NEW m, NEW k
    PROVE  Block(fields, m, k) =
             LET f == fields[k]
                 v == m[fields[k].name]
             IN  IF f.repeated THEN [j \in DOMAIN v |-> Token(f.num, Delimited, EncodeNested(f.type, v[j]))]
                 ELSE IF v # Default(f) THEN << Token(f.num, WireType(f.type), EncodeNested(f.type, v)) >>
                 ELSE <<>>
BY DEF Block, TokensOf

\* Where a parse stops, and what it then stores.
Failing(fields, w) ==
    {k \in DOMAIN w :
       \/ w[k] = Malformed
       \/ \E i \in DOMAIN fields :
            Carries(w[k], fields[i]) /\ ~DecodeNested(fields[i].type, w[k].val).ok}
Carrying(fields, w, i) == Picked(w, {k \in DOMAIN w : Carries(w[k], fields[i])})
Unknown(fields, w)     == Picked(w, {k \in DOMAIN w : ~IsKnown(fields, w[k])})

FieldAfter(fields, m, w, i) ==
    Stored(fields[i], m[fields[i].name],
           [k \in DOMAIN Carrying(fields, w, i) |->
              DecodeNested(fields[i].type, Carrying(fields, w, i)[k].val).val])

MessageAfter(fields, m, w) ==
    [name \in DOMAIN m |->
        IF name = "unknown" THEN m.unknown \o Unknown(fields, w)
        ELSE FieldAfter(fields, m, w, CHOOSE k \in DOMAIN fields : fields[k].name = name)]

LEMMA ParseIs ==
    ASSUME NEW fields, NEW m, NEW w, Failing(fields, w) = {}
    PROVE  Parse(fields, m, w) = [ok |-> TRUE, msg |-> MessageAfter(fields, m, w)]
<1>1. Parse(fields, m, w) =
        [ok  |-> Failing(fields, w) = {},
         msg |-> MessageAfter(fields, m, IF Failing(fields, w) = {} THEN w
                                         ELSE SubSeq(w, 1, Min(Failing(fields, w)) - 1))]
  BY Zenon DEF Parse, ParseWith, Fails, Failing, Unknown, FieldAfter, Carrying, MessageAfter
<1> QED BY <1>1

\* The values of a scalar field that come back as they were sent.
Values(type) ==
    CASE type = "uint32" -> UInt32
      [] type = "int64" -> Int64
      [] type = "int32" -> Int32
      [] type = "bool" -> BOOLEAN
      [] type = "bytes" -> Bytes
      [] type = "string" -> Texts
      [] type = "uint64" -> UInt64
      [] type = "float" -> Nat

LEMMA ModIs ==
    ASSUME NEW a \in Int, NEW b \in Nat \ {0}, NEW q \in Int, NEW r \in 0..(b - 1), a = q * b + r
    PROVE  a % b = r
OBVIOUS

LEMMA Widths ==
    \E h \in Nat, q \in Nat :
        /\ h > 0 /\ q > 0 /\ Narrow = 2 * h /\ Narrow \div 2 = h
        /\ Wide = q * Narrow /\ Wide = 2 * (q * h) /\ Wide \div 2 = q * h /\ q * h \in Nat
        /\ Narrow <= Wide /\ h <= q * h
<1>1. Narrow \in Nat \ {0} /\ Wide \in Nat \ {0} /\ Narrow % 2 = 0 /\ Wide % Narrow = 0
  BY MessagesAssumption
<1>2. PICK h \in Nat : Narrow = 2 * h /\ h > 0 /\ Narrow \div 2 = h
  BY <1>1
<1>3. PICK q \in Int : Wide = q * Narrow
  BY <1>1
<1>4. q > 0
  BY <1>1, <1>3
<1>5. PICK x \in Nat : x = q * h
  BY <1>2, <1>3, <1>4
<1>6. q * (2 * h) = 2 * (q * h)
  BY <1>2, <1>3
<1>7. Wide = 2 * x /\ Wide \div 2 = x
  BY <1>2, <1>3, <1>5, <1>6
<1>8. h <= x
  BY <1>2, <1>4, <1>5
<1> QED BY <1>2, <1>3, <1>4, <1>5, <1>7, <1>8

\* A scalar comes back as it was sent, a negative one by its sign extension.
LEMMA ScalarTrip ==
    ASSUME NEW type \in Scalars, NEW v \in Values(type)
    PROVE  DecodeScalar(type, EncodeScalar(type, v)) = v
<1>0. PICK h \in Nat, q \in Nat :
        /\ h > 0 /\ q > 0 /\ Narrow = 2 * h /\ Narrow \div 2 = h
        /\ Wide = q * Narrow /\ Wide = 2 * (q * h) /\ Wide \div 2 = q * h /\ q * h \in Nat
        /\ Narrow <= Wide /\ h <= q * h
  BY Widths
<1>1. PICK x \in Nat : x = q * h /\ Wide = 2 * x /\ Wide \div 2 = x /\ h <= x
  BY <1>0
<1>2. Wide \in Nat \ {0} /\ Narrow \in Nat \ {0}
  BY MessagesAssumption
<1>3. CASE type = "uint32"
  <2>1. v \in 0..(Narrow - 1)
    BY <1>3 DEF Values, UInt32
  <2>2. v % Narrow = v
    BY <1>2, <2>1
  <2> QED BY <1>3, <2>2 DEF DecodeScalar, EncodeScalar
<1>4. CASE type = "int64"
  <2>1. v \in Int /\ -x <= v /\ v < x
    BY <1>1, <1>4 DEF Values, Int64
  <2>2. v % Wide = IF v >= 0 THEN v ELSE v + Wide
    BY <1>1, <1>2, <2>1
  <2>3. Signed(v % Wide, Wide) = v
    BY <1>1, <2>1, <2>2 DEF Signed
  <2> QED BY <1>4, <2>3 DEF DecodeScalar, EncodeScalar
<1>5. CASE type = "int32"
  <2>1. v \in Int /\ -h <= v /\ v < h
    BY <1>0, <1>5 DEF Values, Int32
  <2>2. v % Wide = IF v >= 0 THEN v ELSE v + Wide
    BY <1>0, <1>2, <2>1
  <2>3. (v % Wide) % Narrow = IF v >= 0 THEN v ELSE v + Narrow
    <3>1. CASE v >= 0
      BY <1>0, <1>2, <2>1, <2>2, <3>1
    <3>2. CASE v < 0
      <4>1. v + Wide = (q - 1) * Narrow + (v + Narrow)
        BY <1>0, <2>1
      <4>2. v + Narrow \in 0..(Narrow - 1) /\ v + Wide \in Int /\ q - 1 \in Int
        BY <1>0, <1>2, <2>1, <3>2
      <4>3. (v + Wide) % Narrow = v + Narrow
        BY <1>2, <4>1, <4>2, ModIs
      <4>4. v % Wide = v + Wide
        BY <2>1, <2>2, <3>2
      <4> QED BY <2>1, <3>2, <4>3, <4>4
    <3> QED BY <2>1, <3>1, <3>2
  <2>4. Signed((v % Wide) % Narrow, Narrow) = v
    <3>1. PICK y : y = (v % Wide) % Narrow
      OBVIOUS
    <3>2. Signed(y, Narrow) = v
      BY <1>0, <2>1, <2>3, <3>1 DEF Signed
    <3> QED BY <3>1, <3>2
  <2> QED BY <1>5, <2>4 DEF DecodeScalar, EncodeScalar
<1>6. CASE type = "bool"
  BY <1>6 DEF DecodeScalar, EncodeScalar, Values
<1>7. CASE type \in {"uint64", "float", "bytes", "string"}
  BY <1>7 DEF DecodeScalar, EncodeScalar
<1> QED BY <1>3, <1>4, <1>5, <1>6, <1>7 DEF Scalars

IsSeq(s) == s \in Seq(Range(s))

\* A value of a nested message comes back as it was sent.
Trips(type, x) == DecodeNested(type, EncodeNested(type, x)) = [ok |-> TRUE, val |-> x]

\* A message that can be sent: of its fields' values, and with unknown fields that are
\* well formed and not known.
Sendable(fields, m) ==
    /\ m = [name \in Names(fields) \cup {"unknown"} |-> m[name]]
    /\ \A k \in DOMAIN fields :
         LET v == m[fields[k].name]
         IN  IF fields[k].repeated
             THEN IsSeq(v) /\ \A j \in DOMAIN v : Trips(fields[k].type, v[j])
             ELSE v \in Values(fields[k].type)
    /\ IsSeq(m.unknown)
    /\ \A j \in DOMAIN m.unknown : m.unknown[j] # Malformed /\ ~IsKnown(fields, m.unknown[j])

LEMMA IsSeqFacts ==
    ASSUME NEW s, IsSeq(s)
    PROVE  Len(s) \in Nat /\ DOMAIN s = 1..Len(s) /\ s = [k \in 1..Len(s) |-> s[k]]
BY LenProperties DEF IsSeq

LEMMA FunctionSeq ==
    ASSUME NEW n \in Nat, NEW s, s = [k \in 1..n |-> s[k]]
    PROVE  IsSeq(s) /\ Len(s) = n
<1>1. s \in [1..n -> Range(s)]
  BY DEF Range
<1> QED BY <1>1, FunctionIsSeq DEF IsSeq

LEMMA TokenFacts ==
    ASSUME NEW n \in Nat \ {0}, NEW wt, NEW val
    PROVE  /\ Token(n, wt, val).num = n /\ Token(n, wt, val).wt = wt
           /\ Token(n, wt, val).val = val /\ Token(n, wt, val) # Malformed
BY DEF Token, Malformed

LEMMA FieldFacts ==
    ASSUME NEW fields, IsFields(fields)
    PROVE  /\ Len(fields) \in Nat /\ DOMAIN fields = 1..Len(fields)
           /\ \A k \in DOMAIN fields :
                /\ k \in Nat \ {0} /\ fields[k].num = k /\ fields[k].name # "unknown"
                /\ fields[k].repeated \in BOOLEAN
                /\ fields[k].repeated => fields[k].type \in Nested
                /\ ~fields[k].repeated => fields[k].type \in Scalars
BY DEF IsFields

\* The tokens of a repeated field carry it, and it is read back from them.
LEMMA RepeatedBlock ==
    ASSUME NEW fields, IsFields(fields), NEW m, Sendable(fields, m), NEW k \in DOMAIN fields,
           fields[k].repeated
    PROVE  LET B == Block(fields, m, k)
               type == fields[k].type
           IN  /\ IsSeq(B)
               /\ \A j \in DOMAIN B : /\ B[j].num = k /\ B[j].wt = WireType(type) /\ B[j] # Malformed
                                      /\ DecodeNested(type, B[j].val).ok
               /\ Stored(fields[k], Default(fields[k]),
                         [j \in DOMAIN B |-> DecodeNested(type, B[j].val).val]) = m[fields[k].name]
<1> DEFINE B == Block(fields, m, k)
           type == fields[k].type
           v == m[fields[k].name]
<1>1. k \in Nat \ {0} /\ fields[k].num = k /\ type \in Nested
  BY FieldFacts
<1>2. IsSeq(v) /\ \A j \in DOMAIN v : Trips(type, v[j])
  BY DEF Sendable
<1>3. Len(v) \in Nat /\ DOMAIN v = 1..Len(v) /\ v = [j \in 1..Len(v) |-> v[j]]
  BY <1>2, IsSeqFacts
<1>4. B = [j \in 1..Len(v) |-> Token(k, Delimited, EncodeNested(type, v[j]))]
  BY <1>1, <1>3, BlockIs
<1>5. WireType(type) = Delimited
  BY <1>1 DEF Nested, WireType
<1> HIDE DEF B, v, type
<1>6. IsSeq(B)
  <2>1. B = [j \in 1..Len(v) |-> B[j]]
    BY <1>4
  <2> QED BY <1>3, <2>1, FunctionSeq
<1>7. DOMAIN B = 1..Len(v)
  BY <1>4
<1>8. ASSUME NEW j \in DOMAIN B
      PROVE  /\ B[j].num = k /\ B[j].wt = WireType(type) /\ B[j] # Malformed
             /\ DecodeNested(type, B[j].val) = [ok |-> TRUE, val |-> v[j]]
  <2>1. B[j] = Token(k, Delimited, EncodeNested(type, v[j]))
    BY <1>4, <1>7
  <2>2. Trips(type, v[j])
    BY <1>2, <1>3, <1>7
  <2> QED BY <1>1, <1>5, <2>1, <2>2, TokenFacts DEF Trips
<1>9. [j \in DOMAIN B |-> DecodeNested(type, B[j].val).val] = v
  <2>1. \A j \in DOMAIN B : DecodeNested(type, B[j].val).val = v[j]
    <3> SUFFICES ASSUME NEW j \in DOMAIN B PROVE DecodeNested(type, B[j].val).val = v[j]
      OBVIOUS
    <3>1. DecodeNested(type, B[j].val) = [ok |-> TRUE, val |-> v[j]]
      BY <1>8
    <3> QED BY <3>1
  <2> QED BY <1>3, <1>7, <2>1
<1>10. Stored(fields[k], Default(fields[k]), v) = v
  <2>1. Default(fields[k]) = <<>> /\ fields[k].repeated
    <3>1. fields[k].repeated = TRUE /\ fields[k].type \in Nested
      BY FieldFacts
    <3>2. \A f : f.repeated = TRUE /\ f.type \in Nested => Default(f) = <<>>
      BY DEF Default, Nested
    <3> QED BY <3>1, <3>2
  <2>2. <<>> \o v = v
    BY <1>2, ConcatEmptySeq DEF IsSeq
  <2> QED BY <2>1, <2>2 DEF Stored
<1>11. \A j \in DOMAIN B : DecodeNested(type, B[j].val).ok
  <2> SUFFICES ASSUME NEW j \in DOMAIN B PROVE DecodeNested(type, B[j].val).ok
    OBVIOUS
  <2>1. DecodeNested(type, B[j].val) = [ok |-> TRUE, val |-> v[j]]
    BY <1>8
  <2> QED BY <2>1
<1>12. /\ IsSeq(B)
       /\ \A j \in DOMAIN B : /\ B[j].num = k /\ B[j].wt = WireType(type) /\ B[j] # Malformed
                              /\ DecodeNested(type, B[j].val).ok
       /\ Stored(fields[k], Default(fields[k]),
                 [j \in DOMAIN B |-> DecodeNested(type, B[j].val).val]) = v
  BY <1>6, <1>8, <1>9, <1>10, <1>11
<1> QED BY <1>12, Zenon DEF B, v, type

\* So do those of a scalar field; the default needs none.
LEMMA ScalarBlock ==
    ASSUME NEW fields, IsFields(fields), NEW m, Sendable(fields, m), NEW k \in DOMAIN fields,
           ~fields[k].repeated
    PROVE  LET B == Block(fields, m, k)
               type == fields[k].type
           IN  /\ IsSeq(B)
               /\ \A j \in DOMAIN B : /\ B[j].num = k /\ B[j].wt = WireType(type) /\ B[j] # Malformed
                                      /\ DecodeNested(type, B[j].val).ok
               /\ Stored(fields[k], Default(fields[k]),
                         [j \in DOMAIN B |-> DecodeNested(type, B[j].val).val]) = m[fields[k].name]
<1> DEFINE B == Block(fields, m, k)
           type == fields[k].type
           v == m[fields[k].name]
<1>1. k \in Nat \ {0} /\ fields[k].num = k /\ type \in Scalars /\ v \in Values(type)
  BY FieldFacts DEF Sendable
<1>2. type \notin Nested
  BY <1>1 DEF Scalars, Nested
<1>3. \A x : EncodeNested(type, x) = EncodeScalar(type, x)
  BY <1>2 DEF EncodeNested, Nested
<1>4. \A x : DecodeNested(type, x) = [ok |-> TRUE, val |-> DecodeScalar(type, x)]
  BY <1>2 DEF DecodeNested, DecodeFlat, Nested
<1>5. CASE v = Default(fields[k])
  <2>1. B = <<>>
    BY <1>5, BlockIs
  <2>2. IsSeq(B) /\ DOMAIN B = {}
    <3>1. <<>> \in Seq(Range(<<>>)) /\ DOMAIN <<>> = {}
      BY EmptySeq
    <3> HIDE DEF B
    <3> QED BY <2>1, <3>1 DEF IsSeq
  <2>3. [j \in DOMAIN B |-> DecodeNested(type, B[j].val).val] = <<>>
    BY <2>1, <2>2
  <2>4. Stored(fields[k], Default(fields[k]), <<>>) = v
    BY <1>5 DEF Stored
  <2> QED BY <2>2, <2>3, <2>4
<1>6. CASE v # Default(fields[k])
  <2>1. B = << Token(k, WireType(type), EncodeScalar(type, v)) >>
    BY <1>1, <1>3, <1>6, BlockIs
  <2> HIDE DEF B, v, type
  <2>2. DOMAIN B = {1} /\ B[1] = Token(k, WireType(type), EncodeScalar(type, v))
    BY <2>1
  <2>3. IsSeq(B)
    <3>1. B[1] \in Range(B)
      BY <2>2 DEF Range
    <3>2. <<B[1]>> \in Seq(Range(B))
      BY <3>1
    <3>3. B = <<B[1]>>
      BY <2>1, <2>2
    <3> QED BY <3>2, <3>3 DEF IsSeq
  <2>4. /\ B[1].num = k /\ B[1].wt = WireType(type) /\ B[1] # Malformed
        /\ DecodeNested(type, B[1].val) = [ok |-> TRUE, val |-> v]
    <3>1. /\ B[1].num = k /\ B[1].wt = WireType(type) /\ B[1] # Malformed
          /\ B[1].val = EncodeScalar(type, v)
      BY <1>1, <2>2, TokenFacts
    <3>2. DecodeScalar(type, EncodeScalar(type, v)) = v
      BY <1>1, ScalarTrip
    <3> QED BY <1>4, <3>1, <3>2
  <2>5. [j \in DOMAIN B |-> DecodeNested(type, B[j].val).val] = <<v>>
    BY <2>2, <2>4
  <2>6. Stored(fields[k], Default(fields[k]), <<v>>) = v
    BY DEF Stored, Last
  <2> QED BY <2>2, <2>3, <2>4, <2>5, <2>6 DEF B, v, type
<1> QED BY <1>5, <1>6

\* Either way, a field's block carries its value and no other field.
LEMMA BlockTrips ==
    ASSUME NEW fields, IsFields(fields), NEW m, Sendable(fields, m), NEW k \in DOMAIN fields
    PROVE  LET B == Block(fields, m, k)
               type == fields[k].type
           IN  /\ IsSeq(B)
               /\ \A j \in DOMAIN B : /\ B[j].num = k /\ B[j].wt = WireType(type) /\ B[j] # Malformed
                                      /\ DecodeNested(type, B[j].val).ok
               /\ Stored(fields[k], Default(fields[k]),
                         [j \in DOMAIN B |-> DecodeNested(type, B[j].val).val]) = m[fields[k].name]
<1>1. CASE fields[k].repeated
  BY <1>1, RepeatedBlock
<1>2. CASE ~fields[k].repeated
  BY <1>2, ScalarBlock
<1> QED BY <1>1, <1>2

\* The field with a name, and its value in a new message.
LEMMA NewIs ==
    ASSUME NEW fields, IsFields(fields)
    PROVE  /\ DOMAIN New(fields) = Names(fields) \cup {"unknown"}
           /\ New(fields).unknown = <<>>
           /\ \A k \in DOMAIN fields :
                /\ (CHOOSE j \in DOMAIN fields : fields[j].name = fields[k].name) = k
                /\ New(fields)[fields[k].name] = Default(fields[k])
<1>1. ASSUME NEW k \in DOMAIN fields
      PROVE  (CHOOSE j \in DOMAIN fields : fields[j].name = fields[k].name) = k
  BY DEF IsFields
<1>2. ASSUME NEW k \in DOMAIN fields
      PROVE  New(fields)[fields[k].name] = Default(fields[k])
  <2>1. fields[k].name \in Names(fields) /\ fields[k].name # "unknown"
    BY DEF Names, IsFields
  <2> QED BY <1>1, <2>1 DEF New
<1> QED BY <1>1, <1>2 DEF New

\* What is written is read back as it was: no field loses its value, and none gets
\* a value or an unknown field that was not there.
LEMMA Trip ==
    ASSUME NEW fields, IsFields(fields), NEW m, Sendable(fields, m)
    PROVE  Parse(fields, New(fields), Serialize(fields, m)) = [ok |-> TRUE, msg |-> m]
<1> DEFINE B == Blocks(fields, m)
           u == m.unknown
           S == (UNION {Range(B[k]) : k \in DOMAIN fields}) \cup Range(u)
           w == FlattenSeq(B) \o u
<1>1. Len(fields) \in Nat /\ DOMAIN fields = 1..Len(fields) /\ \A k \in DOMAIN fields : fields[k].num = k
  BY FieldFacts
<1>2. \A k \in DOMAIN fields :
        /\ B[k] = Block(fields, m, k)
        /\ IsSeq(B[k])
        /\ \A j \in DOMAIN B[k] :
             /\ B[k][j].num = k /\ B[k][j].wt = WireType(fields[k].type) /\ B[k][j] # Malformed
             /\ DecodeNested(fields[k].type, B[k][j].val).ok
        /\ Stored(fields[k], Default(fields[k]),
                  [j \in DOMAIN B[k] |-> DecodeNested(fields[k].type, B[k][j].val).val])
             = m[fields[k].name]
  BY BlockTrips DEF Blocks
<1>3. IsSeq(u) /\ \A j \in DOMAIN u : u[j] # Malformed /\ ~IsKnown(fields, u[j])
  BY DEF Sendable
<1>4. DOMAIN B = 1..Len(fields)
  BY <1>1 DEF Blocks
<1>5. u \in Seq(S) /\ \A k \in 1..Len(fields) : B[k] \in Seq(S)
  <2>1. ASSUME NEW s, IsSeq(s), Range(s) \subseteq S PROVE s \in Seq(S)
    <3>1. Len(s) \in Nat /\ DOMAIN s = 1..Len(s) /\ s = [k \in 1..Len(s) |-> s[k]]
      BY <2>1, IsSeqFacts
    <3>2. \A k \in 1..Len(s) : s[k] \in S
      BY <2>1, <3>1 DEF Range
    <3> HIDE DEF S
    <3>3. s \in [1..Len(s) -> S]
      BY <3>1, <3>2
    <3> QED BY <3>1, <3>3, FunctionIsSeq
  <2>2. Range(u) \subseteq S /\ \A k \in DOMAIN fields : Range(B[k]) \subseteq S
    <3> HIDE DEF B, u
    <3> QED BY DEF S
  <2> HIDE DEF B, u, S
  <2> QED BY <1>1, <1>2, <1>3, <2>1, <2>2
<1> HIDE DEF B, u, S
<1>6. B \in Seq(Seq(S)) /\ Len(B) = Len(fields)
  <2>1. B = [k \in 1..Len(fields) |-> B[k]]
    BY <1>4 DEF B, Blocks
  <2>2. B \in [1..Len(fields) -> Seq(S)]
    BY <1>5, <2>1
  <2> QED BY <1>1, <2>2, FunctionIsSeq
<1>a. Len(u) \in Nat /\ DOMAIN u = 1..Len(u) /\ \A j \in 1..Len(u) : u[j] \in S
  BY <1>5, LenProperties, ElementOfSeq
<1>b. \A k \in DOMAIN fields : /\ Len(B[k]) \in Nat /\ DOMAIN B[k] = 1..Len(B[k])
                               /\ \A j \in 1..Len(B[k]) : B[k][j] \in S
  BY <1>1, <1>5, LenProperties, ElementOfSeq
<1>d. ASSUME NEW k \in DOMAIN fields, NEW j \in 1..Len(B[k])
      PROVE  /\ B[k][j] \in S /\ B[k][j] # Malformed
             /\ DecodeNested(fields[k].type, B[k][j].val).ok
             /\ \A i \in DOMAIN fields : Carries(B[k][j], fields[i]) <=> i = k
  <2>1. j \in DOMAIN B[k] /\ B[k][j] \in S
    BY <1>b
  <2>2. /\ B[k][j].num = k /\ B[k][j].wt = WireType(fields[k].type) /\ B[k][j] # Malformed
        /\ DecodeNested(fields[k].type, B[k][j].val).ok
    BY <1>2, <2>1
  <2>3. \A i \in DOMAIN fields : Carries(B[k][j], fields[i]) <=> i = k
    BY <1>1, <2>2 DEF Carries
  <2> QED BY <2>1, <2>2, <2>3
<1>7. FlattenSeq(B) \in Seq(S) /\ w \in Seq(S)
  <2>1. FlattenSeq(B) \in Seq(S)
    <3>1. \A k \in 1..Len(B) : B[k] \in Seq(S)
      BY <1>5, <1>6
    <3> QED BY <1>6, <3>1, FlatElements
  <2> QED BY <1>5, <2>1, ConcatProperties
<1>c. ASSUME NEW T, NEW k \in 0..Len(fields),
             \A i \in DOMAIN fields : \A j \in 1..Len(B[i]) : B[i][j] \in T <=> i = k
      PROVE  Those(w, T) = (IF k = 0 THEN <<>> ELSE B[k]) \o Those(u, T)
  <2>1. \A i \in 1..Len(B) : Those(B[i], T) = IF i = k THEN B[i] ELSE <<>>
    <3> SUFFICES ASSUME NEW i \in DOMAIN fields PROVE Those(B[i], T) = IF i = k THEN B[i] ELSE <<>>
      BY <1>1, <1>6
    <3>1. B[i] \in Seq(S)
      BY <1>1, <1>5
    <3>2. CASE i = k
      <4>1. \A j \in 1..Len(B[i]) : B[i][j] \in T
        BY <1>c, <3>2
      <4> QED BY <3>1, <3>2, <4>1, ThoseAll
    <3>3. CASE i # k
      <4>1. \A j \in 1..Len(B[i]) : B[i][j] \notin T
        BY <1>c, <3>3
      <4> QED BY <3>1, <3>3, <4>1, ThoseAll
    <3> QED BY <3>2, <3>3
  <2>2. Those(FlattenSeq(B), T) = IF k = 0 THEN <<>> ELSE B[k]
    BY <1>6, <2>1, BlockPicked
  <2>3. Those(FlattenSeq(B) \o u, T) = Those(FlattenSeq(B), T) \o Those(u, T)
    BY <1>5, <1>7, ThoseConcat
  <2> QED BY <2>2, <2>3
<1>8. ASSUME NEW i \in DOMAIN fields PROVE Carrying(fields, w, i) = B[i]
  <2> DEFINE T == {t \in S : Carries(t, fields[i])}
  <2>1. \A k \in DOMAIN fields : \A j \in 1..Len(B[k]) : B[k][j] \in T <=> k = i
    BY <1>d
  <2>2. \A j \in 1..Len(u) : u[j] \notin T
    BY <1>3, <1>a DEF IsKnown
  <2>3. \A j \in DOMAIN w : w[j] \in S
    BY <1>7, LenProperties, ElementOfSeq
  <2>4. i \in 0..Len(fields) /\ i # 0
    BY <1>1
  <2>5. Carrying(fields, w, i) = Those(w, T)
    <3>1. \A j \in DOMAIN w : Carries(w[j], fields[i]) <=> w[j] \in T
      BY <2>3
    <3> HIDE DEF T
    <3>2. {j \in DOMAIN w : Carries(w[j], fields[i])} = {j \in DOMAIN w : w[j] \in T}
      BY <3>1
    <3> QED BY <3>2 DEF Carrying, Those
  <2> HIDE DEF T
  <2>6. Those(u, T) = <<>>
    BY <1>5, <2>2, ThoseAll
  <2>7. Those(w, T) = B[i] \o <<>>
    BY <1>c, <2>1, <2>4, <2>6
  <2>8. B[i] \o <<>> = B[i]
    BY <1>1, <1>5, ConcatEmptySeq
  <2> QED BY <2>5, <2>7, <2>8
<1>9. Unknown(fields, w) = u
  <2> DEFINE T == {t \in S : ~IsKnown(fields, t)}
  <2>1. \A k \in DOMAIN fields : \A j \in 1..Len(B[k]) : B[k][j] \notin T
    BY <1>d DEF IsKnown
  <2>2. \A j \in 1..Len(u) : u[j] \in T
    BY <1>3, <1>a
  <2>3. \A j \in DOMAIN w : w[j] \in S
    BY <1>7, LenProperties, ElementOfSeq
  <2>4. 0 \in 0..Len(fields) /\ \A k \in DOMAIN fields : k # 0
    BY <1>1
  <2>5. Unknown(fields, w) = Those(w, T)
    <3>1. \A j \in DOMAIN w : ~IsKnown(fields, w[j]) <=> w[j] \in T
      BY <2>3
    <3> HIDE DEF T
    <3>2. {j \in DOMAIN w : ~IsKnown(fields, w[j])} = {j \in DOMAIN w : w[j] \in T}
      BY <3>1
    <3> QED BY <3>2 DEF Unknown, Those
  <2> HIDE DEF T
  <2>6. Those(u, T) = u
    BY <1>5, <2>2, ThoseAll
  <2>7. Those(w, T) = <<>> \o u
    BY <1>c, <2>1, <2>4, <2>6
  <2>8. <<>> \o u = u
    BY <1>5, ConcatEmptySeq
  <2> QED BY <2>5, <2>7, <2>8
<1>10. Failing(fields, w) = {}
  <2> DEFINE Reads(t) == /\ t # Malformed
                         /\ \A i \in DOMAIN fields :
                              Carries(t, fields[i]) => DecodeNested(fields[i].type, t.val).ok
             T == {t \in S : Reads(t)}
  <2>1. \A k \in DOMAIN fields : \A j \in 1..Len(B[k]) : B[k][j] \in T
    <3> SUFFICES ASSUME NEW k \in DOMAIN fields, NEW j \in 1..Len(B[k]) PROVE Reads(B[k][j])
      BY <1>b
    <3> QED BY <1>d
  <2>2. \A j \in 1..Len(u) : u[j] \in T
    BY <1>3, <1>a DEF IsKnown
  <2> HIDE DEF Reads
  <2>3. \A t \in T : Reads(t)
    OBVIOUS
  <2> HIDE DEF T
  <2>4. ASSUME NEW s \in Seq(S), \A j \in 1..Len(s) : s[j] \in T PROVE s \in Seq(T)
    <3>1. Len(s) \in Nat /\ s \in [1..Len(s) -> S]
      BY LenProperties
    <3>2. s \in [1..Len(s) -> T]
      BY <2>4, <3>1
    <3> QED BY <3>1, <3>2, FunctionIsSeq
  <2>5. u \in Seq(T) /\ \A k \in 1..Len(B) : B[k] \in Seq(T)
    BY <1>1, <1>5, <1>6, <2>1, <2>2, <2>4
  <2>6. FlattenSeq(B) \in Seq(T)
    BY <1>6, <2>5, FlatElements
  <2>7. w \in Seq(T)
    BY <2>5, <2>6, ConcatProperties
  <2>8. \A j \in DOMAIN w : Reads(w[j])
    BY <2>3, <2>7, LenProperties, ElementOfSeq
  <2> QED BY <2>8 DEF Failing, Reads
<1>11. Serialize(fields, m) = w
  BY SerializeIs DEF B, u
<1>12. Parse(fields, New(fields), w) = [ok |-> TRUE, msg |-> MessageAfter(fields, New(fields), w)]
  BY <1>10, ParseIs
<1>13. MessageAfter(fields, New(fields), w) = m
  <2>1. m = [name \in Names(fields) \cup {"unknown"} |-> m[name]]
    BY DEF Sendable
  <2> DEFINE after(name) ==
               IF name = "unknown" THEN New(fields).unknown \o Unknown(fields, w)
               ELSE FieldAfter(fields, New(fields), w, CHOOSE k \in DOMAIN fields : fields[k].name = name)
  <2>2. after("unknown") = m["unknown"]
    <3>1. New(fields).unknown = <<>>
      BY NewIs
    <3>2. <<>> \o Unknown(fields, w) = Unknown(fields, w)
      BY <1>5, <1>9, ConcatEmptySeq
    <3> HIDE DEF w
    <3> QED BY <1>9, <3>1, <3>2 DEF u
  <2>3. ASSUME NEW k \in DOMAIN fields PROVE after(fields[k].name) = m[fields[k].name]
    <3>1. fields[k].name # "unknown"
      BY FieldFacts
    <3>2. (CHOOSE j \in DOMAIN fields : fields[j].name = fields[k].name) = k
      BY NewIs
    <3>3. FieldAfter(fields, New(fields), w, k) = m[fields[k].name]
      <4>1. Carrying(fields, w, k) = B[k] /\ New(fields)[fields[k].name] = Default(fields[k])
        BY <1>8, NewIs
      <4> HIDE DEF w
      <4> QED BY <1>2, <4>1 DEF FieldAfter
    <3> QED BY <3>1, <3>2, <3>3
  <2>4. \A name \in Names(fields) \cup {"unknown"} : after(name) = m[name]
    <3> HIDE DEF after
    <3> QED BY <2>2, <2>3 DEF Names
  <2>5. MessageAfter(fields, New(fields), w) = [name \in Names(fields) \cup {"unknown"} |-> after(name)]
    BY NewIs DEF MessageAfter
  <2> HIDE DEF after
  <2> QED BY <2>1, <2>4, <2>5
<1> QED BY <1>11, <1>12, <1>13

\* Each table of fields, entry by entry.
LEMMA InsertRequestTable ==
    /\ IsFields(InsertRequestFields) /\ DOMAIN InsertRequestFields = 1..3
    /\ InsertRequestFields[1].name = "vector_id" /\ InsertRequestFields[1].type = "uint64"
    /\ InsertRequestFields[1].repeated = FALSE
    /\ InsertRequestFields[2].name = "vector" /\ InsertRequestFields[2].type = "bytes"
    /\ InsertRequestFields[2].repeated = FALSE
    /\ InsertRequestFields[3].name = "metadata" /\ InsertRequestFields[3].type = "bytes"
    /\ InsertRequestFields[3].repeated = FALSE
    /\ Names(InsertRequestFields) = {"vector_id", "vector", "metadata"}
<1>1. Len(InsertRequestFields) = 3 /\ DOMAIN InsertRequestFields = 1..3
  BY DEF InsertRequestFields
<1>2. /\ InsertRequestFields[1].num = 1 /\ InsertRequestFields[1].name = "vector_id" /\ InsertRequestFields[1].type = "uint64"
      /\ InsertRequestFields[1].repeated = FALSE /\ InsertRequestFields[1].repeated \in BOOLEAN
  BY DEF Field, Repeated, InsertRequestFields
<1>3. /\ InsertRequestFields[2].num = 2 /\ InsertRequestFields[2].name = "vector" /\ InsertRequestFields[2].type = "bytes"
      /\ InsertRequestFields[2].repeated = FALSE /\ InsertRequestFields[2].repeated \in BOOLEAN
  BY DEF Field, Repeated, InsertRequestFields
<1>4. /\ InsertRequestFields[3].num = 3 /\ InsertRequestFields[3].name = "metadata" /\ InsertRequestFields[3].type = "bytes"
      /\ InsertRequestFields[3].repeated = FALSE /\ InsertRequestFields[3].repeated \in BOOLEAN
  BY DEF Field, Repeated, InsertRequestFields
<1>5. IsFields(InsertRequestFields)
  BY <1>1, <1>2, <1>3, <1>4 DEF IsFields, Scalars
<1>6. Names(InsertRequestFields) = {"vector_id", "vector", "metadata"}
  BY <1>1, <1>2, <1>3, <1>4 DEF Names
<1> QED BY <1>1, <1>2, <1>3, <1>4, <1>5, <1>6

LEMMA InsertResponseTable ==
    /\ IsFields(InsertResponseFields) /\ DOMAIN InsertResponseFields = 1..3
    /\ InsertResponseFields[1].name = "shard_id" /\ InsertResponseFields[1].type = "uint32"
    /\ InsertResponseFields[1].repeated = FALSE
    /\ InsertResponseFields[2].name = "node_id" /\ InsertResponseFields[2].type = "uint32"
    /\ InsertResponseFields[2].repeated = FALSE
    /\ InsertResponseFields[3].name = "latency_us" /\ InsertResponseFields[3].type = "int64"
    /\ InsertResponseFields[3].repeated = FALSE
    /\ Names(InsertResponseFields) = {"shard_id", "node_id", "latency_us"}
<1>1. Len(InsertResponseFields) = 3 /\ DOMAIN InsertResponseFields = 1..3
  BY DEF InsertResponseFields
<1>2. /\ InsertResponseFields[1].num = 1 /\ InsertResponseFields[1].name = "shard_id" /\ InsertResponseFields[1].type = "uint32"
      /\ InsertResponseFields[1].repeated = FALSE /\ InsertResponseFields[1].repeated \in BOOLEAN
  BY DEF Field, Repeated, InsertResponseFields
<1>3. /\ InsertResponseFields[2].num = 2 /\ InsertResponseFields[2].name = "node_id" /\ InsertResponseFields[2].type = "uint32"
      /\ InsertResponseFields[2].repeated = FALSE /\ InsertResponseFields[2].repeated \in BOOLEAN
  BY DEF Field, Repeated, InsertResponseFields
<1>4. /\ InsertResponseFields[3].num = 3 /\ InsertResponseFields[3].name = "latency_us" /\ InsertResponseFields[3].type = "int64"
      /\ InsertResponseFields[3].repeated = FALSE /\ InsertResponseFields[3].repeated \in BOOLEAN
  BY DEF Field, Repeated, InsertResponseFields
<1>5. IsFields(InsertResponseFields)
  BY <1>1, <1>2, <1>3, <1>4 DEF IsFields, Scalars
<1>6. Names(InsertResponseFields) = {"shard_id", "node_id", "latency_us"}
  BY <1>1, <1>2, <1>3, <1>4 DEF Names
<1> QED BY <1>1, <1>2, <1>3, <1>4, <1>5, <1>6

LEMMA BulkInsertResponseTable ==
    /\ IsFields(BulkInsertResponseFields) /\ DOMAIN BulkInsertResponseFields = 1..3
    /\ BulkInsertResponseFields[1].name = "inserted" /\ BulkInsertResponseFields[1].type = "uint64"
    /\ BulkInsertResponseFields[1].repeated = FALSE
    /\ BulkInsertResponseFields[2].name = "failed" /\ BulkInsertResponseFields[2].type = "uint64"
    /\ BulkInsertResponseFields[2].repeated = FALSE
    /\ BulkInsertResponseFields[3].name = "latency_us" /\ BulkInsertResponseFields[3].type = "int64"
    /\ BulkInsertResponseFields[3].repeated = FALSE
    /\ Names(BulkInsertResponseFields) = {"inserted", "failed", "latency_us"}
<1>1. Len(BulkInsertResponseFields) = 3 /\ DOMAIN BulkInsertResponseFields = 1..3
  BY DEF BulkInsertResponseFields
<1>2. /\ BulkInsertResponseFields[1].num = 1 /\ BulkInsertResponseFields[1].name = "inserted" /\ BulkInsertResponseFields[1].type = "uint64"
      /\ BulkInsertResponseFields[1].repeated = FALSE /\ BulkInsertResponseFields[1].repeated \in BOOLEAN
  BY DEF Field, Repeated, BulkInsertResponseFields
<1>3. /\ BulkInsertResponseFields[2].num = 2 /\ BulkInsertResponseFields[2].name = "failed" /\ BulkInsertResponseFields[2].type = "uint64"
      /\ BulkInsertResponseFields[2].repeated = FALSE /\ BulkInsertResponseFields[2].repeated \in BOOLEAN
  BY DEF Field, Repeated, BulkInsertResponseFields
<1>4. /\ BulkInsertResponseFields[3].num = 3 /\ BulkInsertResponseFields[3].name = "latency_us" /\ BulkInsertResponseFields[3].type = "int64"
      /\ BulkInsertResponseFields[3].repeated = FALSE /\ BulkInsertResponseFields[3].repeated \in BOOLEAN
  BY DEF Field, Repeated, BulkInsertResponseFields
<1>5. IsFields(BulkInsertResponseFields)
  BY <1>1, <1>2, <1>3, <1>4 DEF IsFields, Scalars
<1>6. Names(BulkInsertResponseFields) = {"inserted", "failed", "latency_us"}
  BY <1>1, <1>2, <1>3, <1>4 DEF Names
<1> QED BY <1>1, <1>2, <1>3, <1>4, <1>5, <1>6

LEMMA SearchRequestTable ==
    /\ IsFields(SearchRequestFields) /\ DOMAIN SearchRequestFields = 1..3
    /\ SearchRequestFields[1].name = "query" /\ SearchRequestFields[1].type = "bytes"
    /\ SearchRequestFields[1].repeated = FALSE
    /\ SearchRequestFields[2].name = "top_k" /\ SearchRequestFields[2].type = "int32"
    /\ SearchRequestFields[2].repeated = FALSE
    /\ SearchRequestFields[3].name = "ef_search" /\ SearchRequestFields[3].type = "int32"
    /\ SearchRequestFields[3].repeated = FALSE
    /\ Names(SearchRequestFields) = {"query", "top_k", "ef_search"}
<1>1. Len(SearchRequestFields) = 3 /\ DOMAIN SearchRequestFields = 1..3
  BY DEF SearchRequestFields
<1>2. /\ SearchRequestFields[1].num = 1 /\ SearchRequestFields[1].name = "query" /\ SearchRequestFields[1].type = "bytes"
      /\ SearchRequestFields[1].repeated = FALSE /\ SearchRequestFields[1].repeated \in BOOLEAN
  BY DEF Field, Repeated, SearchRequestFields
<1>3. /\ SearchRequestFields[2].num = 2 /\ SearchRequestFields[2].name = "top_k" /\ SearchRequestFields[2].type = "int32"
      /\ SearchRequestFields[2].repeated = FALSE /\ SearchRequestFields[2].repeated \in BOOLEAN
  BY DEF Field, Repeated, SearchRequestFields
<1>4. /\ SearchRequestFields[3].num = 3 /\ SearchRequestFields[3].name = "ef_search" /\ SearchRequestFields[3].type = "int32"
      /\ SearchRequestFields[3].repeated = FALSE /\ SearchRequestFields[3].repeated \in BOOLEAN
  BY DEF Field, Repeated, SearchRequestFields
<1>5. IsFields(SearchRequestFields)
  BY <1>1, <1>2, <1>3, <1>4 DEF IsFields, Scalars
<1>6. Names(SearchRequestFields) = {"query", "top_k", "ef_search"}
  BY <1>1, <1>2, <1>3, <1>4 DEF Names
<1> QED BY <1>1, <1>2, <1>3, <1>4, <1>5, <1>6

LEMMA SearchResultTable ==
    /\ IsFields(SearchResultFields) /\ DOMAIN SearchResultFields = 1..4
    /\ SearchResultFields[1].name = "shard_id" /\ SearchResultFields[1].type = "uint32"
    /\ SearchResultFields[1].repeated = FALSE
    /\ SearchResultFields[2].name = "node_id" /\ SearchResultFields[2].type = "uint32"
    /\ SearchResultFields[2].repeated = FALSE
    /\ SearchResultFields[3].name = "distance" /\ SearchResultFields[3].type = "float"
    /\ SearchResultFields[3].repeated = FALSE
    /\ SearchResultFields[4].name = "metadata" /\ SearchResultFields[4].type = "bytes"
    /\ SearchResultFields[4].repeated = FALSE
    /\ Names(SearchResultFields) = {"shard_id", "node_id", "distance", "metadata"}
<1>1. Len(SearchResultFields) = 4 /\ DOMAIN SearchResultFields = 1..4
  BY DEF SearchResultFields
<1>2. /\ SearchResultFields[1].num = 1 /\ SearchResultFields[1].name = "shard_id" /\ SearchResultFields[1].type = "uint32"
      /\ SearchResultFields[1].repeated = FALSE /\ SearchResultFields[1].repeated \in BOOLEAN
  BY DEF Field, Repeated, SearchResultFields
<1>3. /\ SearchResultFields[2].num = 2 /\ SearchResultFields[2].name = "node_id" /\ SearchResultFields[2].type = "uint32"
      /\ SearchResultFields[2].repeated = FALSE /\ SearchResultFields[2].repeated \in BOOLEAN
  BY DEF Field, Repeated, SearchResultFields
<1>4. /\ SearchResultFields[3].num = 3 /\ SearchResultFields[3].name = "distance" /\ SearchResultFields[3].type = "float"
      /\ SearchResultFields[3].repeated = FALSE /\ SearchResultFields[3].repeated \in BOOLEAN
  BY DEF Field, Repeated, SearchResultFields
<1>5. /\ SearchResultFields[4].num = 4 /\ SearchResultFields[4].name = "metadata" /\ SearchResultFields[4].type = "bytes"
      /\ SearchResultFields[4].repeated = FALSE /\ SearchResultFields[4].repeated \in BOOLEAN
  BY DEF Field, Repeated, SearchResultFields
<1>6. IsFields(SearchResultFields)
  BY <1>1, <1>2, <1>3, <1>4, <1>5 DEF IsFields, Scalars
<1>7. Names(SearchResultFields) = {"shard_id", "node_id", "distance", "metadata"}
  BY <1>1, <1>2, <1>3, <1>4, <1>5 DEF Names
<1> QED BY <1>1, <1>2, <1>3, <1>4, <1>5, <1>6, <1>7

LEMMA SearchResponseTable ==
    /\ IsFields(SearchResponseFields) /\ DOMAIN SearchResponseFields = 1..5
    /\ SearchResponseFields[1].name = "results" /\ SearchResponseFields[1].type = "SearchResult"
    /\ SearchResponseFields[1].repeated = TRUE
    /\ SearchResponseFields[2].name = "latency_us" /\ SearchResponseFields[2].type = "int64"
    /\ SearchResponseFields[2].repeated = FALSE
    /\ SearchResponseFields[3].name = "degraded" /\ SearchResponseFields[3].type = "bool"
    /\ SearchResponseFields[3].repeated = FALSE
    /\ SearchResponseFields[4].name = "shards_ok" /\ SearchResponseFields[4].type = "uint32"
    /\ SearchResponseFields[4].repeated = FALSE
    /\ SearchResponseFields[5].name = "shards_err" /\ SearchResponseFields[5].type = "uint32"
    /\ SearchResponseFields[5].repeated = FALSE
    /\ Names(SearchResponseFields) = {"results", "latency_us", "degraded", "shards_ok", "shards_err"}
<1>1. Len(SearchResponseFields) = 5 /\ DOMAIN SearchResponseFields = 1..5
  BY DEF SearchResponseFields
<1>2. /\ SearchResponseFields[1].num = 1 /\ SearchResponseFields[1].name = "results" /\ SearchResponseFields[1].type = "SearchResult"
      /\ SearchResponseFields[1].repeated = TRUE /\ SearchResponseFields[1].repeated \in BOOLEAN
  BY DEF Field, Repeated, SearchResponseFields
<1>3. /\ SearchResponseFields[2].num = 2 /\ SearchResponseFields[2].name = "latency_us" /\ SearchResponseFields[2].type = "int64"
      /\ SearchResponseFields[2].repeated = FALSE /\ SearchResponseFields[2].repeated \in BOOLEAN
  BY DEF Field, Repeated, SearchResponseFields
<1>4. /\ SearchResponseFields[3].num = 3 /\ SearchResponseFields[3].name = "degraded" /\ SearchResponseFields[3].type = "bool"
      /\ SearchResponseFields[3].repeated = FALSE /\ SearchResponseFields[3].repeated \in BOOLEAN
  BY DEF Field, Repeated, SearchResponseFields
<1>5. /\ SearchResponseFields[4].num = 4 /\ SearchResponseFields[4].name = "shards_ok" /\ SearchResponseFields[4].type = "uint32"
      /\ SearchResponseFields[4].repeated = FALSE /\ SearchResponseFields[4].repeated \in BOOLEAN
  BY DEF Field, Repeated, SearchResponseFields
<1>6. /\ SearchResponseFields[5].num = 5 /\ SearchResponseFields[5].name = "shards_err" /\ SearchResponseFields[5].type = "uint32"
      /\ SearchResponseFields[5].repeated = FALSE /\ SearchResponseFields[5].repeated \in BOOLEAN
  BY DEF Field, Repeated, SearchResponseFields
<1>7. IsFields(SearchResponseFields)
  BY <1>1, <1>2, <1>3, <1>4, <1>5, <1>6 DEF IsFields, Scalars, Nested
<1>8. Names(SearchResponseFields) = {"results", "latency_us", "degraded", "shards_ok", "shards_err"}
  BY <1>1, <1>2, <1>3, <1>4, <1>5, <1>6 DEF Names
<1> QED BY <1>1, <1>2, <1>3, <1>4, <1>5, <1>6, <1>7, <1>8

LEMMA DeleteRequestTable ==
    /\ IsFields(DeleteRequestFields) /\ DOMAIN DeleteRequestFields = 1..1
    /\ DeleteRequestFields[1].name = "vector_id" /\ DeleteRequestFields[1].type = "uint64"
    /\ DeleteRequestFields[1].repeated = FALSE
    /\ Names(DeleteRequestFields) = {"vector_id"}
<1>1. Len(DeleteRequestFields) = 1 /\ DOMAIN DeleteRequestFields = 1..1
  BY DEF DeleteRequestFields
<1>2. /\ DeleteRequestFields[1].num = 1 /\ DeleteRequestFields[1].name = "vector_id" /\ DeleteRequestFields[1].type = "uint64"
      /\ DeleteRequestFields[1].repeated = FALSE /\ DeleteRequestFields[1].repeated \in BOOLEAN
  BY DEF Field, Repeated, DeleteRequestFields
<1>3. IsFields(DeleteRequestFields)
  BY <1>1, <1>2 DEF IsFields, Scalars
<1>4. Names(DeleteRequestFields) = {"vector_id"}
  BY <1>1, <1>2 DEF Names
<1> QED BY <1>1, <1>2, <1>3, <1>4

LEMMA DeleteResponseTable ==
    /\ IsFields(DeleteResponseFields) /\ DOMAIN DeleteResponseFields = 1..2
    /\ DeleteResponseFields[1].name = "found" /\ DeleteResponseFields[1].type = "bool"
    /\ DeleteResponseFields[1].repeated = FALSE
    /\ DeleteResponseFields[2].name = "latency_us" /\ DeleteResponseFields[2].type = "int64"
    /\ DeleteResponseFields[2].repeated = FALSE
    /\ Names(DeleteResponseFields) = {"found", "latency_us"}
<1>1. Len(DeleteResponseFields) = 2 /\ DOMAIN DeleteResponseFields = 1..2
  BY DEF DeleteResponseFields
<1>2. /\ DeleteResponseFields[1].num = 1 /\ DeleteResponseFields[1].name = "found" /\ DeleteResponseFields[1].type = "bool"
      /\ DeleteResponseFields[1].repeated = FALSE /\ DeleteResponseFields[1].repeated \in BOOLEAN
  BY DEF Field, Repeated, DeleteResponseFields
<1>3. /\ DeleteResponseFields[2].num = 2 /\ DeleteResponseFields[2].name = "latency_us" /\ DeleteResponseFields[2].type = "int64"
      /\ DeleteResponseFields[2].repeated = FALSE /\ DeleteResponseFields[2].repeated \in BOOLEAN
  BY DEF Field, Repeated, DeleteResponseFields
<1>4. IsFields(DeleteResponseFields)
  BY <1>1, <1>2, <1>3 DEF IsFields, Scalars
<1>5. Names(DeleteResponseFields) = {"found", "latency_us"}
  BY <1>1, <1>2, <1>3 DEF Names
<1> QED BY <1>1, <1>2, <1>3, <1>4, <1>5

LEMMA InfoRequestTable ==
    /\ IsFields(InfoRequestFields) /\ DOMAIN InfoRequestFields = 1..0
    /\ Names(InfoRequestFields) = {}
BY DEF InfoRequestFields, IsFields, Names

LEMMA ShardInfoTable ==
    /\ IsFields(ShardInfoFields) /\ DOMAIN ShardInfoFields = 1..3
    /\ ShardInfoFields[1].name = "shard_id" /\ ShardInfoFields[1].type = "uint32"
    /\ ShardInfoFields[1].repeated = FALSE
    /\ ShardInfoFields[2].name = "vector_count" /\ ShardInfoFields[2].type = "uint64"
    /\ ShardInfoFields[2].repeated = FALSE
    /\ ShardInfoFields[3].name = "status" /\ ShardInfoFields[3].type = "string"
    /\ ShardInfoFields[3].repeated = FALSE
    /\ Names(ShardInfoFields) = {"shard_id", "vector_count", "status"}
<1>1. Len(ShardInfoFields) = 3 /\ DOMAIN ShardInfoFields = 1..3
  BY DEF ShardInfoFields
<1>2. /\ ShardInfoFields[1].num = 1 /\ ShardInfoFields[1].name = "shard_id" /\ ShardInfoFields[1].type = "uint32"
      /\ ShardInfoFields[1].repeated = FALSE /\ ShardInfoFields[1].repeated \in BOOLEAN
  BY DEF Field, Repeated, ShardInfoFields
<1>3. /\ ShardInfoFields[2].num = 2 /\ ShardInfoFields[2].name = "vector_count" /\ ShardInfoFields[2].type = "uint64"
      /\ ShardInfoFields[2].repeated = FALSE /\ ShardInfoFields[2].repeated \in BOOLEAN
  BY DEF Field, Repeated, ShardInfoFields
<1>4. /\ ShardInfoFields[3].num = 3 /\ ShardInfoFields[3].name = "status" /\ ShardInfoFields[3].type = "string"
      /\ ShardInfoFields[3].repeated = FALSE /\ ShardInfoFields[3].repeated \in BOOLEAN
  BY DEF Field, Repeated, ShardInfoFields
<1>5. IsFields(ShardInfoFields)
  BY <1>1, <1>2, <1>3, <1>4 DEF IsFields, Scalars
<1>6. Names(ShardInfoFields) = {"shard_id", "vector_count", "status"}
  BY <1>1, <1>2, <1>3, <1>4 DEF Names
<1> QED BY <1>1, <1>2, <1>3, <1>4, <1>5, <1>6

LEMMA InfoResponseTable ==
    /\ IsFields(InfoResponseFields) /\ DOMAIN InfoResponseFields = 1..4
    /\ InfoResponseFields[1].name = "total_vectors" /\ InfoResponseFields[1].type = "uint64"
    /\ InfoResponseFields[1].repeated = FALSE
    /\ InfoResponseFields[2].name = "shard_count" /\ InfoResponseFields[2].type = "uint32"
    /\ InfoResponseFields[2].repeated = FALSE
    /\ InfoResponseFields[3].name = "dim" /\ InfoResponseFields[3].type = "int32"
    /\ InfoResponseFields[3].repeated = FALSE
    /\ InfoResponseFields[4].name = "shards" /\ InfoResponseFields[4].type = "ShardInfo"
    /\ InfoResponseFields[4].repeated = TRUE
    /\ Names(InfoResponseFields) = {"total_vectors", "shard_count", "dim", "shards"}
<1>1. Len(InfoResponseFields) = 4 /\ DOMAIN InfoResponseFields = 1..4
  BY DEF InfoResponseFields
<1>2. /\ InfoResponseFields[1].num = 1 /\ InfoResponseFields[1].name = "total_vectors" /\ InfoResponseFields[1].type = "uint64"
      /\ InfoResponseFields[1].repeated = FALSE /\ InfoResponseFields[1].repeated \in BOOLEAN
  BY DEF Field, Repeated, InfoResponseFields
<1>3. /\ InfoResponseFields[2].num = 2 /\ InfoResponseFields[2].name = "shard_count" /\ InfoResponseFields[2].type = "uint32"
      /\ InfoResponseFields[2].repeated = FALSE /\ InfoResponseFields[2].repeated \in BOOLEAN
  BY DEF Field, Repeated, InfoResponseFields
<1>4. /\ InfoResponseFields[3].num = 3 /\ InfoResponseFields[3].name = "dim" /\ InfoResponseFields[3].type = "int32"
      /\ InfoResponseFields[3].repeated = FALSE /\ InfoResponseFields[3].repeated \in BOOLEAN
  BY DEF Field, Repeated, InfoResponseFields
<1>5. /\ InfoResponseFields[4].num = 4 /\ InfoResponseFields[4].name = "shards" /\ InfoResponseFields[4].type = "ShardInfo"
      /\ InfoResponseFields[4].repeated = TRUE /\ InfoResponseFields[4].repeated \in BOOLEAN
  BY DEF Field, Repeated, InfoResponseFields
<1>6. IsFields(InfoResponseFields)
  BY <1>1, <1>2, <1>3, <1>4, <1>5 DEF IsFields, Scalars, Nested
<1>7. Names(InfoResponseFields) = {"total_vectors", "shard_count", "dim", "shards"}
  BY <1>1, <1>2, <1>3, <1>4, <1>5 DEF Names
<1> QED BY <1>1, <1>2, <1>3, <1>4, <1>5, <1>6, <1>7

\* A message without nested ones is written and read the same way inside another.
LEMMA FlatIs ==
    ASSUME NEW fields, IsFields(fields), \A k \in DOMAIN fields : ~fields[k].repeated
    PROVE  /\ \A x : SerializeWith(fields, x, EncodeScalar) = Serialize(fields, x)
           /\ \A w : ParseWith(fields, New(fields), w, DecodeFlat) = Parse(fields, New(fields), w)
<1>1. \A k \in DOMAIN fields : fields[k].type \notin {"SearchResult", "ShardInfo"}
  BY FieldFacts DEF Scalars
<1>2. ASSUME NEW k \in DOMAIN fields
      PROVE  /\ \A v : EncodeNested(fields[k].type, v) = EncodeScalar(fields[k].type, v)
             /\ \A v : DecodeNested(fields[k].type, v) = DecodeFlat(fields[k].type, v)
  BY <1>1 DEF EncodeNested, DecodeNested
<1>3. ASSUME NEW x PROVE SerializeWith(fields, x, EncodeScalar) = Serialize(fields, x)
  <2>1. ASSUME NEW k \in DOMAIN fields
        PROVE  TokensOf(fields[k], x[fields[k].name], EncodeScalar) =
                 TokensOf(fields[k], x[fields[k].name], EncodeNested)
    BY <1>2, <2>1 DEF TokensOf
  <2> QED BY <2>1, Zenon DEF SerializeWith, Serialize
<1>4. ASSUME NEW w
      PROVE  ParseWith(fields, New(fields), w, DecodeFlat) = Parse(fields, New(fields), w)
  <2> DEFINE m == New(fields)
             failing(Decode(_, _)) == {k \in DOMAIN w : Fails(fields, w[k], Decode)}
             good(X) == IF X = {} THEN w ELSE SubSeq(w, 1, Min(X) - 1)
             sent(X, f) == Picked(good(X), {k \in DOMAIN good(X) : Carries(good(X)[k], f)})
             after(X, f, Decode(_, _)) ==
               Stored(f, m[f.name], [k \in DOMAIN sent(X, f) |-> Decode(f.type, sent(X, f)[k].val).val])
             other(X) == m.unknown \o Picked(good(X), {k \in DOMAIN good(X) : ~IsKnown(fields, good(X)[k])})
             F(name) == fields[CHOOSE k \in DOMAIN fields : fields[k].name = name]
             X == failing(DecodeNested)
  <2>1. failing(DecodeFlat) = X
    <3>1. \A t : Fails(fields, t, DecodeFlat) <=> Fails(fields, t, DecodeNested)
      BY <1>2 DEF Fails
    <3> QED BY <3>1
  <2>2. ASSUME NEW k \in DOMAIN fields
        PROVE  after(X, fields[k], DecodeFlat) = after(X, fields[k], DecodeNested)
    <3> HIDE DEF m, sent, X
    <3>1. \A v : DecodeNested(fields[k].type, v) = DecodeFlat(fields[k].type, v)
      BY <1>2
    <3> QED BY <3>1, Zenon
  <2>3. \A name \in DOMAIN m : name # "unknown" =>
          after(X, F(name), DecodeFlat) = after(X, F(name), DecodeNested)
    <3> SUFFICES ASSUME NEW name \in DOMAIN m, name # "unknown"
                 PROVE  after(X, F(name), DecodeFlat) = after(X, F(name), DecodeNested)
      OBVIOUS
    <3> HIDE DEF after, X
    <3>1. PICK k \in DOMAIN fields : fields[k].name = name
      <4>1. DOMAIN m = Names(fields) \cup {"unknown"}
        BY NewIs
      <4> HIDE DEF m
      <4> QED BY <4>1 DEF Names
    <3>2. F(name) = fields[k]
      <4>1. (CHOOSE j \in DOMAIN fields : fields[j].name = fields[k].name) = k
        BY NewIs
      <4> QED BY <3>1, <4>1, Zenon
    <3> HIDE DEF F
    <3> QED BY <2>2, <3>2
  <2>4. [name \in DOMAIN m |-> IF name = "unknown" THEN other(X) ELSE after(X, F(name), DecodeFlat)]
          = [name \in DOMAIN m |-> IF name = "unknown" THEN other(X) ELSE after(X, F(name), DecodeNested)]
    <3> HIDE DEF after, F, other, m, X
    <3> QED BY <2>3, Zenon
  <2>5. ParseWith(fields, m, w, DecodeFlat) =
          [ok |-> failing(DecodeFlat) = {},
           msg |-> [name \in DOMAIN m |-> IF name = "unknown" THEN other(failing(DecodeFlat))
                                          ELSE after(failing(DecodeFlat), F(name), DecodeFlat)]]
    BY Zenon DEF ParseWith
  <2>6. Parse(fields, m, w) =
          [ok |-> X = {},
           msg |-> [name \in DOMAIN m |-> IF name = "unknown" THEN other(X)
                                          ELSE after(X, F(name), DecodeNested)]]
    BY Zenon DEF ParseWith, Parse
  <2> HIDE DEF after, F, other, failing, X, m
  <2>7. ParseWith(fields, m, w, DecodeFlat) = Parse(fields, m, w)
    BY <2>1, <2>4, <2>5, <2>6, Zenon
  <2> QED BY <2>7 DEF m
<1> QED BY <1>3, <1>4

\* Unknown fields as a parse leaves them, and a message as the service makes it.
Foreign(fields) == Seq({t \in Tokens : ~IsKnown(fields, t)})

LEMMA NoneUnknown ==
    ASSUME NEW fields, IsFields(fields)
    PROVE  /\ <<>> \in Foreign(fields)
           /\ \A u \in Foreign(fields) :
                IsSeq(u) /\ \A j \in DOMAIN u : u[j] # Malformed /\ ~IsKnown(fields, u[j])
<1> DEFINE S == {t \in Tokens : ~IsKnown(fields, t)}
<1>1. \A t \in S : t # Malformed /\ ~IsKnown(fields, t)
  <2>1. \A t \in Tokens : t.num \in 1..15
    BY DEF Tokens
  <2>2. Malformed.num = 0
    BY DEF Malformed, Token
  <2> QED BY <2>1, <2>2
<1> HIDE DEF S
<1>2. ASSUME NEW u \in Seq(S)
      PROVE  IsSeq(u) /\ \A j \in DOMAIN u : u[j] # Malformed /\ ~IsKnown(fields, u[j])
  <2>1. Len(u) \in Nat /\ DOMAIN u = 1..Len(u) /\ \A j \in 1..Len(u) : u[j] \in S
    BY LenProperties, ElementOfSeq
  <2>2. u = [j \in 1..Len(u) |-> u[j]]
    BY LenProperties
  <2> QED BY <1>1, <2>1, <2>2, FunctionSeq
<1> QED BY <1>2, EmptySeq DEF S, Foreign

LEMMA SendableIf ==
    ASSUME NEW fields, IsFields(fields),
           NEW m, m = [name \in Names(fields) \cup {"unknown"} |-> m[name]],
           m.unknown \in Foreign(fields),
           \A k \in DOMAIN fields :
             ~fields[k].repeated => m[fields[k].name] \in Values(fields[k].type),
           \A k \in DOMAIN fields :
             fields[k].repeated =>
               /\ IsSeq(m[fields[k].name])
               /\ \A j \in DOMAIN m[fields[k].name] : Trips(fields[k].type, m[fields[k].name][j])
    PROVE  Sendable(fields, m)
BY NoneUnknown DEF Sendable

InsertRequests == [vector_id : UInt64, vector : Bytes, metadata : Bytes,
                   unknown : Foreign(InsertRequestFields)]
SearchRequests == [query : Bytes, top_k : Int32, ef_search : Int32,
                   unknown : Foreign(SearchRequestFields)]
DeleteRequests == [vector_id : UInt64, unknown : Foreign(DeleteRequestFields)]
InfoRequests   == [unknown : Foreign(InfoRequestFields)]


\* The messages that the service writes, each without unknown fields.
SearchResults == [shard_id : UInt32, node_id : UInt32, distance : Nat, metadata : Bytes,
                  unknown : {<<>>}]
ShardInfos    == [shard_id : UInt32, vector_count : UInt64, status : Texts, unknown : {<<>>}]

InsertResponses     == [shard_id : UInt32, node_id : UInt32, latency_us : Int64, unknown : {<<>>}]
BulkInsertResponses == [inserted : UInt64, failed : UInt64, latency_us : Int64, unknown : {<<>>}]
SearchResponses     == [results : Seq(SearchResults), latency_us : Int64, degraded : BOOLEAN,
                        shards_ok : UInt32, shards_err : UInt32, unknown : {<<>>}]
DeleteResponses     == [found : BOOLEAN, latency_us : Int64, unknown : {<<>>}]
InfoResponses       == [total_vectors : UInt64, shard_count : UInt32, dim : Int32,
                        shards : Seq(ShardInfos), unknown : {<<>>}]

LEMMA SearchResultSend == ASSUME NEW m \in SearchResults PROVE Sendable(SearchResultFields, m)
<1>1. m = [name \in Names(SearchResultFields) \cup {"unknown"} |-> m[name]]
  <2>1. m = [name \in {"shard_id", "node_id", "distance", "metadata", "unknown"} |-> m[name]]
    BY DEF SearchResults
  <2>2. Names(SearchResultFields) \cup {"unknown"} = {"shard_id", "node_id", "distance", "metadata", "unknown"}
    BY SearchResultTable
  <2> QED BY <2>1, <2>2
<1>2. /\ m.shard_id \in Values("uint32")
      /\ m.node_id \in Values("uint32")
      /\ m.distance \in Values("float")
      /\ m.metadata \in Values("bytes")
  BY DEF SearchResults, Values
<1>3. m.unknown \in Foreign(SearchResultFields)
  BY SearchResultTable, NoneUnknown DEF SearchResults
<1> QED BY <1>1, <1>2, <1>3, SearchResultTable, SendableIf

LEMMA ShardInfoSend == ASSUME NEW m \in ShardInfos PROVE Sendable(ShardInfoFields, m)
<1>1. m = [name \in Names(ShardInfoFields) \cup {"unknown"} |-> m[name]]
  <2>1. m = [name \in {"shard_id", "vector_count", "status", "unknown"} |-> m[name]]
    BY DEF ShardInfos
  <2>2. Names(ShardInfoFields) \cup {"unknown"} = {"shard_id", "vector_count", "status", "unknown"}
    BY ShardInfoTable
  <2> QED BY <2>1, <2>2
<1>2. /\ m.shard_id \in Values("uint32")
      /\ m.vector_count \in Values("uint64")
      /\ m.status \in Values("string")
  BY DEF ShardInfos, Values
<1>3. m.unknown \in Foreign(ShardInfoFields)
  BY ShardInfoTable, NoneUnknown DEF ShardInfos
<1> QED BY <1>1, <1>2, <1>3, ShardInfoTable, SendableIf

\* A nested message comes back as it was sent.
LEMMA NestedTrips ==
    ASSUME NEW type \in Nested, NEW x, Sendable(FieldsOfNested(type), x)
    PROVE  Trips(type, x)
<1> DEFINE F == FieldsOfNested(type)
<1>1. IsFields(F) /\ \A k \in DOMAIN F : ~F[k].repeated
  <2>1. CASE type = "SearchResult"
    <3>1. F = SearchResultFields
      BY <2>1 DEF FieldsOfNested
    <3> HIDE DEF F
    <3> QED BY <3>1, SearchResultTable
  <2>2. CASE type = "ShardInfo"
    <3>1. F = ShardInfoFields
      BY <2>2 DEF FieldsOfNested
    <3> HIDE DEF F
    <3> QED BY <3>1, ShardInfoTable
  <2> QED BY <2>1, <2>2 DEF Nested
<1>2. EncodeNested(type, x) = SerializeWith(F, x, EncodeScalar)
  BY DEF Nested, EncodeNested, SerializeNested
<1>3. \A w : DecodeNested(type, w) = LET p == ParseWith(F, New(F), w, DecodeFlat)
                                     IN  [ok |-> p.ok, val |-> p.msg]
  BY DEF Nested, DecodeNested, ParseNested
<1> HIDE DEF F
<1>4. Parse(F, New(F), Serialize(F, x)) = [ok |-> TRUE, msg |-> x]
  BY <1>1, Trip DEF F
<1>5. SerializeWith(F, x, EncodeScalar) = Serialize(F, x)
  BY <1>1, FlatIs
<1>6. ParseWith(F, New(F), Serialize(F, x), DecodeFlat) = [ok |-> TRUE, msg |-> x]
  BY <1>1, <1>4, FlatIs
<1>7. DecodeNested(type, Serialize(F, x)) = [ok |-> TRUE, val |-> x]
  BY <1>3, <1>6
<1> QED BY <1>2, <1>5, <1>7 DEF Trips

LEMMA SearchResultTrips == \A x \in SearchResults : Trips("SearchResult", x)
BY SearchResultSend, NestedTrips DEF Nested, FieldsOfNested

LEMMA ShardInfoTrips == \A x \in ShardInfos : Trips("ShardInfo", x)
BY ShardInfoSend, NestedTrips DEF Nested, FieldsOfNested

LEMMA InsertRequestSend == ASSUME NEW m \in InsertRequests PROVE Sendable(InsertRequestFields, m)
<1>1. m = [name \in Names(InsertRequestFields) \cup {"unknown"} |-> m[name]]
  <2>1. m = [name \in {"vector_id", "vector", "metadata", "unknown"} |-> m[name]]
    BY DEF InsertRequests
  <2>2. Names(InsertRequestFields) \cup {"unknown"} = {"vector_id", "vector", "metadata", "unknown"}
    BY InsertRequestTable
  <2> QED BY <2>1, <2>2
<1>2. /\ m.vector_id \in Values("uint64")
      /\ m.vector \in Values("bytes")
      /\ m.metadata \in Values("bytes")
  BY DEF InsertRequests, Values
<1>3. m.unknown \in Foreign(InsertRequestFields)
  BY InsertRequestTable, NoneUnknown DEF InsertRequests
<1> QED BY <1>1, <1>2, <1>3, InsertRequestTable, SendableIf

LEMMA SearchRequestSend == ASSUME NEW m \in SearchRequests PROVE Sendable(SearchRequestFields, m)
<1>1. m = [name \in Names(SearchRequestFields) \cup {"unknown"} |-> m[name]]
  <2>1. m = [name \in {"query", "top_k", "ef_search", "unknown"} |-> m[name]]
    BY DEF SearchRequests
  <2>2. Names(SearchRequestFields) \cup {"unknown"} = {"query", "top_k", "ef_search", "unknown"}
    BY SearchRequestTable
  <2> QED BY <2>1, <2>2
<1>2. /\ m.query \in Values("bytes")
      /\ m.top_k \in Values("int32")
      /\ m.ef_search \in Values("int32")
  BY DEF SearchRequests, Values
<1>3. m.unknown \in Foreign(SearchRequestFields)
  BY SearchRequestTable, NoneUnknown DEF SearchRequests
<1> QED BY <1>1, <1>2, <1>3, SearchRequestTable, SendableIf

LEMMA DeleteRequestSend == ASSUME NEW m \in DeleteRequests PROVE Sendable(DeleteRequestFields, m)
<1>1. m = [name \in Names(DeleteRequestFields) \cup {"unknown"} |-> m[name]]
  <2>1. m = [name \in {"vector_id", "unknown"} |-> m[name]]
    BY DEF DeleteRequests
  <2>2. Names(DeleteRequestFields) \cup {"unknown"} = {"vector_id", "unknown"}
    BY DeleteRequestTable
  <2> QED BY <2>1, <2>2
<1>2. /\ m.vector_id \in Values("uint64")
  BY DEF DeleteRequests, Values
<1>3. m.unknown \in Foreign(DeleteRequestFields)
  BY DeleteRequestTable, NoneUnknown DEF DeleteRequests
<1> QED BY <1>1, <1>2, <1>3, DeleteRequestTable, SendableIf

LEMMA InfoRequestSend == ASSUME NEW m \in InfoRequests PROVE Sendable(InfoRequestFields, m)
<1>1. m = [name \in Names(InfoRequestFields) \cup {"unknown"} |-> m[name]]
  <2>1. m = [name \in {"unknown"} |-> m[name]]
    BY DEF InfoRequests
  <2>2. Names(InfoRequestFields) \cup {"unknown"} = {"unknown"}
    BY InfoRequestTable
  <2> QED BY <2>1, <2>2
<1>3. m.unknown \in Foreign(InfoRequestFields)
  BY InfoRequestTable, NoneUnknown DEF InfoRequests
<1>4. DOMAIN InfoRequestFields = {} /\ IsFields(InfoRequestFields)
  BY InfoRequestTable
<1> QED BY <1>1, <1>3, <1>4, SendableIf

LEMMA InsertResponseSend == ASSUME NEW m \in InsertResponses PROVE Sendable(InsertResponseFields, m)
<1>1. m = [name \in Names(InsertResponseFields) \cup {"unknown"} |-> m[name]]
  <2>1. m = [name \in {"shard_id", "node_id", "latency_us", "unknown"} |-> m[name]]
    BY DEF InsertResponses
  <2>2. Names(InsertResponseFields) \cup {"unknown"} = {"shard_id", "node_id", "latency_us", "unknown"}
    BY InsertResponseTable
  <2> QED BY <2>1, <2>2
<1>2. /\ m.shard_id \in Values("uint32")
      /\ m.node_id \in Values("uint32")
      /\ m.latency_us \in Values("int64")
  BY DEF InsertResponses, Values
<1>3. m.unknown \in Foreign(InsertResponseFields)
  BY InsertResponseTable, NoneUnknown DEF InsertResponses
<1> QED BY <1>1, <1>2, <1>3, InsertResponseTable, SendableIf

LEMMA BulkInsertResponseSend == ASSUME NEW m \in BulkInsertResponses PROVE Sendable(BulkInsertResponseFields, m)
<1>1. m = [name \in Names(BulkInsertResponseFields) \cup {"unknown"} |-> m[name]]
  <2>1. m = [name \in {"inserted", "failed", "latency_us", "unknown"} |-> m[name]]
    BY DEF BulkInsertResponses
  <2>2. Names(BulkInsertResponseFields) \cup {"unknown"} = {"inserted", "failed", "latency_us", "unknown"}
    BY BulkInsertResponseTable
  <2> QED BY <2>1, <2>2
<1>2. /\ m.inserted \in Values("uint64")
      /\ m.failed \in Values("uint64")
      /\ m.latency_us \in Values("int64")
  BY DEF BulkInsertResponses, Values
<1>3. m.unknown \in Foreign(BulkInsertResponseFields)
  BY BulkInsertResponseTable, NoneUnknown DEF BulkInsertResponses
<1> QED BY <1>1, <1>2, <1>3, BulkInsertResponseTable, SendableIf

LEMMA SearchResponseSend == ASSUME NEW m \in SearchResponses PROVE Sendable(SearchResponseFields, m)
<1>1. m = [name \in Names(SearchResponseFields) \cup {"unknown"} |-> m[name]]
  <2>1. m = [name \in {"results", "latency_us", "degraded", "shards_ok", "shards_err", "unknown"} |-> m[name]]
    BY DEF SearchResponses
  <2>2. Names(SearchResponseFields) \cup {"unknown"} = {"results", "latency_us", "degraded", "shards_ok", "shards_err", "unknown"}
    BY SearchResponseTable
  <2> QED BY <2>1, <2>2
<1>2. /\ m.latency_us \in Values("int64")
      /\ m.degraded \in Values("bool")
      /\ m.shards_ok \in Values("uint32")
      /\ m.shards_err \in Values("uint32")
  BY DEF SearchResponses, Values
<1>3. m.unknown \in Foreign(SearchResponseFields)
  BY SearchResponseTable, NoneUnknown DEF SearchResponses
<1>4. IsSeq(m.results) /\ \A j \in DOMAIN m.results : Trips("SearchResult", m.results[j])
  <2>1. m.results \in Seq(SearchResults)
    BY DEF SearchResponses
  <2>2. Len(m.results) \in Nat /\ DOMAIN m.results = 1..Len(m.results)
        /\ \A j \in 1..Len(m.results) : m.results[j] \in SearchResults
    BY <2>1, LenProperties, ElementOfSeq
  <2>3. m.results = [j \in 1..Len(m.results) |-> m.results[j]]
    BY <2>1, LenProperties
  <2> QED BY <2>2, <2>3, FunctionSeq, SearchResultTrips
<1> QED BY <1>1, <1>2, <1>4, <1>3, SearchResponseTable, SendableIf

LEMMA DeleteResponseSend == ASSUME NEW m \in DeleteResponses PROVE Sendable(DeleteResponseFields, m)
<1>1. m = [name \in Names(DeleteResponseFields) \cup {"unknown"} |-> m[name]]
  <2>1. m = [name \in {"found", "latency_us", "unknown"} |-> m[name]]
    BY DEF DeleteResponses
  <2>2. Names(DeleteResponseFields) \cup {"unknown"} = {"found", "latency_us", "unknown"}
    BY DeleteResponseTable
  <2> QED BY <2>1, <2>2
<1>2. /\ m.found \in Values("bool")
      /\ m.latency_us \in Values("int64")
  BY DEF DeleteResponses, Values
<1>3. m.unknown \in Foreign(DeleteResponseFields)
  BY DeleteResponseTable, NoneUnknown DEF DeleteResponses
<1> QED BY <1>1, <1>2, <1>3, DeleteResponseTable, SendableIf

LEMMA InfoResponseSend == ASSUME NEW m \in InfoResponses PROVE Sendable(InfoResponseFields, m)
<1>1. m = [name \in Names(InfoResponseFields) \cup {"unknown"} |-> m[name]]
  <2>1. m = [name \in {"total_vectors", "shard_count", "dim", "shards", "unknown"} |-> m[name]]
    BY DEF InfoResponses
  <2>2. Names(InfoResponseFields) \cup {"unknown"} = {"total_vectors", "shard_count", "dim", "shards", "unknown"}
    BY InfoResponseTable
  <2> QED BY <2>1, <2>2
<1>2. /\ m.total_vectors \in Values("uint64")
      /\ m.shard_count \in Values("uint32")
      /\ m.dim \in Values("int32")
  BY DEF InfoResponses, Values
<1>3. m.unknown \in Foreign(InfoResponseFields)
  BY InfoResponseTable, NoneUnknown DEF InfoResponses
<1>4. IsSeq(m.shards) /\ \A j \in DOMAIN m.shards : Trips("ShardInfo", m.shards[j])
  <2>1. m.shards \in Seq(ShardInfos)
    BY DEF InfoResponses
  <2>2. Len(m.shards) \in Nat /\ DOMAIN m.shards = 1..Len(m.shards)
        /\ \A j \in 1..Len(m.shards) : m.shards[j] \in ShardInfos
    BY <2>1, LenProperties, ElementOfSeq
  <2>3. m.shards = [j \in 1..Len(m.shards) |-> m.shards[j]]
    BY <2>1, LenProperties
  <2> QED BY <2>2, <2>3, FunctionSeq, ShardInfoTrips
<1> QED BY <1>1, <1>2, <1>4, <1>3, InfoResponseTable, SendableIf

\* What a parse makes of any bytes: as if it had got the tokens before the first that
\* is malformed, each of which then has the type of its field.
LEMMA ParsedIs ==
    ASSUME NEW fields, IsFields(fields), \A k \in DOMAIN fields : ~fields[k].repeated,
           NEW w \in Seq(Tokens \cup {Malformed})
    PROVE  \E g \in Seq(Tokens) : /\ Parse(fields, New(fields), w).ok \in BOOLEAN
                                  /\ Parse(fields, New(fields), w).msg = MessageAfter(fields, New(fields), g)
<1> DEFINE X == Failing(fields, w)
           g == IF X = {} THEN w ELSE SubSeq(w, 1, Min(X) - 1)
<1>1. \A k \in DOMAIN fields : \A v : DecodeNested(fields[k].type, v).ok
  <2> SUFFICES ASSUME NEW k \in DOMAIN fields, NEW v PROVE DecodeNested(fields[k].type, v).ok
    OBVIOUS
  <2>1. fields[k].type \notin {"SearchResult", "ShardInfo"}
    BY FieldFacts DEF Scalars
  <2>2. DecodeNested(fields[k].type, v) = DecodeFlat(fields[k].type, v)
    BY <2>1 DEF DecodeNested
  <2> QED BY <2>2 DEF DecodeFlat
<1>2. X = {k \in DOMAIN w : w[k] = Malformed}
  BY <1>1 DEF Failing
<1>3. Parse(fields, New(fields), w) = [ok |-> X = {}, msg |-> MessageAfter(fields, New(fields), g)]
  BY Zenon DEF Parse, ParseWith, Fails, Failing, Unknown, FieldAfter, Carrying, MessageAfter
<1> HIDE DEF X
<1>4. Len(w) \in Nat /\ DOMAIN w = 1..Len(w) /\ \A k \in 1..Len(w) : w[k] \in Tokens \cup {Malformed}
  BY LenProperties, ElementOfSeq
<1>5. g \in Seq(Tokens)
  <2>1. CASE X = {}
    <3>1. \A k \in 1..Len(w) : w[k] \in Tokens
      BY <1>2, <1>4, <2>1
    <3>2. w \in [1..Len(w) -> Tokens]
      BY <1>4, <3>1, LenProperties
    <3> QED BY <1>4, <2>1, <3>2, FunctionIsSeq
  <2>2. CASE X # {}
    <3>1. PICK n \in X : \A j \in X : n <= j
      <4>1. X \in SUBSET Nat
        BY <1>2, <1>4
      <4> QED BY <2>2, <4>1, LeastNat
    <3>2. n \in 1..Len(w) /\ Min(X) \in X /\ (\A j \in X : Min(X) <= j) /\ X \subseteq 1..Len(w)
      BY <1>2, <1>4, <3>1 DEF Min
    <3>3. Min(X) = n
      <4>1. Min(X) \in 1..Len(w) /\ n <= Min(X) /\ Min(X) <= n
        BY <3>1, <3>2
      <4> QED BY <1>4, <3>2, <4>1
    <3>4. \A k \in 1..(n - 1) : w[k] \in Tokens
      <4> SUFFICES ASSUME NEW k \in 1..(n - 1) PROVE w[k] \in Tokens
        OBVIOUS
      <4>1. k \in 1..Len(w) /\ k \notin X
        BY <1>4, <3>1, <3>2
      <4> QED BY <1>2, <1>4, <4>1
    <3>7. SubSeq(w, 1, n - 1) \in Seq(Tokens)
      <4>1. 1 \in Int /\ n - 1 \in Int
        BY <3>2
      <4> QED BY <3>4, <4>1, SubSeqProperties
    <3> QED BY <2>2, <3>3, <3>7
  <2> QED BY <2>1, <2>2
<1> HIDE DEF g
<1>6. Parse(fields, New(fields), w).ok = (X = {}) /\ Parse(fields, New(fields), w).msg = MessageAfter(fields, New(fields), g)
  BY <1>3
<1> QED BY <1>5, <1>6

LEMMA SignedType == ASSUME NEW n \in Nat PROVE Signed(n % Narrow, Narrow) \in Int32
<1>1. PICK h \in Nat : h > 0 /\ Narrow = 2 * h /\ Narrow \div 2 = h
  BY Widths
<1>2. PICK y \in Nat : y = n % Narrow /\ y < Narrow
  BY MessagesAssumption
<1>3. Signed(y, Narrow) \in Int32
  BY <1>1, <1>2 DEF Signed, Int32
<1> QED BY <1>2, <1>3

\* Whatever was sent for a field, it holds one of its values.
LEMMA DecodedValue ==
    ASSUME NEW type \in {"uint64", "int32", "bytes"}, NEW t \in Tokens, t.wt = WireType(type)
    PROVE  DecodeNested(type, t.val).val \in Values(type)
<1>1. DecodeNested(type, t.val).val = DecodeScalar(type, t.val)
  BY DEF DecodeNested, DecodeFlat
<1>2. t.wt = Varint => t.val \in UInt64
  BY DEF Tokens, Varint, Delimited, Fixed32
<1>3. t.wt = Delimited => t.val \in Bytes
  BY DEF Tokens, Varint, Delimited, Fixed32
<1>4. CASE type = "uint64"
  <2>1. t.val \in UInt64
    BY <1>2, <1>4 DEF WireType
  <2> QED BY <1>1, <1>4, <2>1 DEF DecodeScalar, Values
<1>5. CASE type = "int32"
  <2>1. t.val \in Nat
    <3>1. t.val \in UInt64
      BY <1>2, <1>5 DEF WireType
    <3> QED BY <3>1 DEF UInt64
  <2>2. DecodeScalar(type, t.val) \in Int32
    BY <1>5, <2>1, SignedType DEF DecodeScalar
  <2> QED BY <1>1, <1>5, <2>2 DEF Values
<1>6. CASE type = "bytes"
  <2>1. t.val \in Bytes
    BY <1>3, <1>6 DEF WireType
  <2> QED BY <1>1, <1>6, <2>1 DEF DecodeScalar, Values
<1> QED BY <1>4, <1>5, <1>6

LEMMA DefaultValue ==
    ASSUME NEW fields, IsFields(fields), NEW k \in DOMAIN fields, ~fields[k].repeated,
           fields[k].type \in {"uint64", "int32", "bytes"}
    PROVE  Default(fields[k]) \in Values(fields[k].type)
<1>1. Wide \in Nat \ {0}
  BY MessagesAssumption
<1>2. 0 \in UInt64
  BY <1>1 DEF UInt64
<1>3. 0 \in Int32
  <2>1. PICK h \in Nat : h > 0 /\ Narrow \div 2 = h
    BY Widths
  <2> QED BY <2>1 DEF Int32
<1>4. <<>> \in Bytes
  BY EmptySeq DEF Bytes
<1>5. CASE fields[k].type = "bytes"
  <2>1. Default(fields[k]) = <<>>
    BY <1>5 DEF Default
  <2> QED BY <1>4, <1>5, <2>1 DEF Values
<1>6. CASE fields[k].type # "bytes"
  <2>1. Default(fields[k]) = 0
    BY <1>6 DEF Default
  <2> QED BY <1>2, <1>3, <1>6, <2>1 DEF Values
<1> QED BY <1>5, <1>6

LEMMA RequestAfter ==
    ASSUME NEW fields, IsFields(fields), NEW g \in Seq(Tokens),
           \A k \in DOMAIN fields :
             ~fields[k].repeated /\ fields[k].type \in {"uint64", "int32", "bytes"}
    PROVE  LET m == MessageAfter(fields, New(fields), g)
           IN  /\ m = [name \in Names(fields) \cup {"unknown"} |-> m[name]]
               /\ \A k \in DOMAIN fields : m[fields[k].name] \in Values(fields[k].type)
               /\ m.unknown \in Foreign(fields)
<1> DEFINE m == MessageAfter(fields, New(fields), g)
<1>1. DOMAIN New(fields) = Names(fields) \cup {"unknown"}
  BY NewIs
<1>2. m = [name \in Names(fields) \cup {"unknown"} |-> m[name]]
  BY <1>1 DEF MessageAfter
<1>3. Len(g) \in Nat /\ DOMAIN g = 1..Len(g) /\ \A j \in 1..Len(g) : g[j] \in Tokens
  BY LenProperties, ElementOfSeq
<1>4. ASSUME NEW k \in DOMAIN fields PROVE m[fields[k].name] \in Values(fields[k].type)
  <2> DEFINE f == fields[k]
             P == {j \in DOMAIN g : Carries(g[j], f)}
             C == Carrying(fields, g, k)
             values == [j \in DOMAIN C |-> DecodeNested(f.type, C[j].val).val]
  <2>1. m[f.name] = FieldAfter(fields, New(fields), g, k)
    <3>1. f.name # "unknown" /\ f.name \in DOMAIN New(fields)
      BY <1>1, FieldFacts DEF Names
    <3>2. (CHOOSE j \in DOMAIN fields : fields[j].name = f.name) = k
      BY NewIs
    <3> QED BY <3>1, <3>2 DEF MessageAfter
  <2>2. FieldAfter(fields, New(fields), g, k) = Stored(f, Default(f), values)
    BY NewIs DEF FieldAfter
  <2>3. P \in SUBSET (1..Len(g)) /\ C = Picked(g, P)
    BY <1>3 DEF Carrying
  <2>4. /\ C \in Seq(Tokens) /\ Len(C) = Cardinality(P) /\ Cardinality(P) \in 0..Len(g)
        /\ DOMAIN C = 1..Cardinality(P)
        /\ \A n \in 1..Cardinality(P) : C[n] = g[Nth(P, n)] /\ Nth(P, n) \in P
    <3> HIDE DEF C, P
    <3>1. /\ C \in Seq(Tokens) /\ Len(C) = Cardinality(P) /\ Cardinality(P) \in 0..Len(g)
          /\ DOMAIN C = 1..Cardinality(P)
          /\ \A n \in 1..Cardinality(P) : C[n] = g[Nth(P, n)]
      BY <2>3, PickedFacts
    <3>2. \A n \in 1..Cardinality(P) : Nth(P, n) \in P
      BY <1>3, <2>3, NthFacts
    <3> QED BY <3>1, <3>2
  <2>5. \A n \in 1..Cardinality(P) : C[n] \in Tokens /\ C[n].wt = WireType(f.type)
    <3>1. \A j \in P : g[j] \in Tokens /\ g[j].wt = WireType(f.type)
      BY <1>3 DEF Carries
    <3> HIDE DEF P, C, f
    <3> QED BY <2>4, <3>1
  <2>6. \A n \in 1..Cardinality(P) : DecodeNested(f.type, C[n].val).val \in Values(f.type)
    <3> HIDE DEF P, C
    <3> QED BY <2>5, DecodedValue
  <2>7. CASE Cardinality(P) = 0
    <3>1. values = <<>>
      <4>1. DOMAIN C = {}
        <5>1. DOMAIN C = 1..Cardinality(P)
          BY <2>4
        <5> HIDE DEF P, C
        <5> QED BY <2>7, <5>1
      <4> HIDE DEF C
      <4> QED BY <4>1
    <3>2. Stored(f, Default(f), values) = Default(f)
      BY <3>1 DEF Stored
    <3> QED BY <2>1, <2>2, <3>2, DefaultValue
  <2>8. CASE Cardinality(P) # 0
    <3> HIDE DEF P, C, m
    <3>1. PICK n \in Nat \ {0} : n = Cardinality(P)
      BY <2>4, <2>8
    <3>2. values \in [1..n -> Values(f.type)]
      BY <2>4, <2>6, <3>1
    <3>3. values \in Seq(Values(f.type)) /\ Len(values) = n
      BY <3>2, FunctionIsSeq
    <3>4. values # <<>> /\ Last(values) = values[n] /\ values[n] \in Values(f.type)
      <4> HIDE DEF values
      <4> QED BY <3>1, <3>2, <3>3, EmptySeq DEF Last
    <3> HIDE DEF values
    <3>5. Stored(f, Default(f), values) = Last(values)
      BY <3>4 DEF Stored
    <3> QED BY <2>1, <2>2, <3>4, <3>5
  <2> QED BY <2>7, <2>8
<1>5. m.unknown \in Foreign(fields)
  <2> DEFINE P == {j \in DOMAIN g : ~IsKnown(fields, g[j])}
             U == Picked(g, P)
             S == {t \in Tokens : ~IsKnown(fields, t)}
  <2>1. m.unknown = <<>> \o U
    BY <1>1, NewIs DEF MessageAfter, Unknown
  <2>2. P \in SUBSET (1..Len(g)) /\ \A j \in P : g[j] \in S
    BY <1>3
  <2> HIDE DEF P, S
  <2>3. /\ Len(U) = Cardinality(P) /\ Cardinality(P) \in Nat
        /\ \A n \in 1..Cardinality(P) : U[n] = g[Nth(P, n)] /\ Nth(P, n) \in P
    <3>1. P \in SUBSET (1..Len(g))
      BY <2>2
    <3>2. \A n \in 1..Cardinality(P) : Nth(P, n) \in P
      BY <1>3, <3>1, NthFacts
    <3>3. Len(U) = Cardinality(P) /\ Cardinality(P) \in 0..Len(g) /\ \A n \in 1..Cardinality(P) : U[n] = g[Nth(P, n)]
      BY <3>1, PickedFacts
    <3> HIDE DEF U
    <3> QED BY <1>3, <3>2, <3>3
  <2>4. U \in [1..Cardinality(P) -> S]
    BY <2>2, <2>3 DEF Picked
  <2> HIDE DEF U
  <2>5. U \in Seq(S)
    BY <2>3, <2>4, FunctionIsSeq
  <2>6. <<>> \o U = U
    BY <2>5, ConcatEmptySeq
  <2> QED BY <2>1, <2>5, <2>6 DEF Foreign, S
<1> QED BY <1>2, <1>4, <1>5

\* What comes over a connection.
Wires == Seq(Tokens \cup {Malformed})

LEMMA ParseFromIs ==
    \A fields, m, w : ParseFrom(fields, m, w) = Parse(fields, New(fields), w)
BY DEF ParseFrom, Cleared

LEMMA InsertRequestParsed ==
    ASSUME NEW w \in Wires
    PROVE  /\ Parse(InsertRequestFields, New(InsertRequestFields), w).ok \in BOOLEAN
           /\ Parse(InsertRequestFields, New(InsertRequestFields), w).msg \in InsertRequests
<1>1. /\ IsFields(InsertRequestFields)
      /\ \A k \in DOMAIN InsertRequestFields :
           ~InsertRequestFields[k].repeated /\ InsertRequestFields[k].type \in {"uint64", "int32", "bytes"}
  BY InsertRequestTable
<1>2. PICK g \in Seq(Tokens) :
        /\ Parse(InsertRequestFields, New(InsertRequestFields), w).ok \in BOOLEAN
        /\ Parse(InsertRequestFields, New(InsertRequestFields), w).msg = MessageAfter(InsertRequestFields, New(InsertRequestFields), g)
  BY <1>1, ParsedIs DEF Wires
<1>3. PICK m : m = MessageAfter(InsertRequestFields, New(InsertRequestFields), g)
  OBVIOUS
<1>4. /\ m = [name \in Names(InsertRequestFields) \cup {"unknown"} |-> m[name]]
      /\ \A k \in DOMAIN InsertRequestFields : m[InsertRequestFields[k].name] \in Values(InsertRequestFields[k].type)
      /\ m.unknown \in Foreign(InsertRequestFields)
  BY <1>1, <1>3, RequestAfter
<1>5. m = [name \in {"vector_id", "vector", "metadata", "unknown"} |-> m[name]]
  <2>1. Names(InsertRequestFields) \cup {"unknown"} = {"vector_id", "vector", "metadata", "unknown"}
    BY InsertRequestTable
  <2> QED BY <1>4, <2>1
<1>6. m.vector_id \in UInt64 /\ m.vector \in Bytes /\ m.metadata \in Bytes
  <2>1. m.vector_id \in Values("uint64") /\ m.vector \in Values("bytes") /\ m.metadata \in Values("bytes")
    BY <1>4, InsertRequestTable
  <2> QED BY <2>1 DEF Values
<1>7. m \in InsertRequests
  BY <1>4, <1>5, <1>6 DEF InsertRequests
<1> QED BY <1>2, <1>3, <1>7

LEMMA SearchRequestParsed ==
    ASSUME NEW w \in Wires
    PROVE  /\ Parse(SearchRequestFields, New(SearchRequestFields), w).ok \in BOOLEAN
           /\ Parse(SearchRequestFields, New(SearchRequestFields), w).msg \in SearchRequests
<1>1. /\ IsFields(SearchRequestFields)
      /\ \A k \in DOMAIN SearchRequestFields :
           ~SearchRequestFields[k].repeated /\ SearchRequestFields[k].type \in {"uint64", "int32", "bytes"}
  BY SearchRequestTable
<1>2. PICK g \in Seq(Tokens) :
        /\ Parse(SearchRequestFields, New(SearchRequestFields), w).ok \in BOOLEAN
        /\ Parse(SearchRequestFields, New(SearchRequestFields), w).msg = MessageAfter(SearchRequestFields, New(SearchRequestFields), g)
  BY <1>1, ParsedIs DEF Wires
<1>3. PICK m : m = MessageAfter(SearchRequestFields, New(SearchRequestFields), g)
  OBVIOUS
<1>4. /\ m = [name \in Names(SearchRequestFields) \cup {"unknown"} |-> m[name]]
      /\ \A k \in DOMAIN SearchRequestFields : m[SearchRequestFields[k].name] \in Values(SearchRequestFields[k].type)
      /\ m.unknown \in Foreign(SearchRequestFields)
  BY <1>1, <1>3, RequestAfter
<1>5. m = [name \in {"query", "top_k", "ef_search", "unknown"} |-> m[name]]
  <2>1. Names(SearchRequestFields) \cup {"unknown"} = {"query", "top_k", "ef_search", "unknown"}
    BY SearchRequestTable
  <2> QED BY <1>4, <2>1
<1>6. m.query \in Bytes /\ m.top_k \in Int32 /\ m.ef_search \in Int32
  <2>1. m.query \in Values("bytes") /\ m.top_k \in Values("int32") /\ m.ef_search \in Values("int32")
    BY <1>4, SearchRequestTable
  <2> QED BY <2>1 DEF Values
<1>7. m \in SearchRequests
  BY <1>4, <1>5, <1>6 DEF SearchRequests
<1> QED BY <1>2, <1>3, <1>7

LEMMA DeleteRequestParsed ==
    ASSUME NEW w \in Wires
    PROVE  /\ Parse(DeleteRequestFields, New(DeleteRequestFields), w).ok \in BOOLEAN
           /\ Parse(DeleteRequestFields, New(DeleteRequestFields), w).msg \in DeleteRequests
<1>1. /\ IsFields(DeleteRequestFields)
      /\ \A k \in DOMAIN DeleteRequestFields :
           ~DeleteRequestFields[k].repeated /\ DeleteRequestFields[k].type \in {"uint64", "int32", "bytes"}
  BY DeleteRequestTable
<1>2. PICK g \in Seq(Tokens) :
        /\ Parse(DeleteRequestFields, New(DeleteRequestFields), w).ok \in BOOLEAN
        /\ Parse(DeleteRequestFields, New(DeleteRequestFields), w).msg = MessageAfter(DeleteRequestFields, New(DeleteRequestFields), g)
  BY <1>1, ParsedIs DEF Wires
<1>3. PICK m : m = MessageAfter(DeleteRequestFields, New(DeleteRequestFields), g)
  OBVIOUS
<1>4. /\ m = [name \in Names(DeleteRequestFields) \cup {"unknown"} |-> m[name]]
      /\ \A k \in DOMAIN DeleteRequestFields : m[DeleteRequestFields[k].name] \in Values(DeleteRequestFields[k].type)
      /\ m.unknown \in Foreign(DeleteRequestFields)
  BY <1>1, <1>3, RequestAfter
<1>5. m = [name \in {"vector_id", "unknown"} |-> m[name]]
  <2>1. Names(DeleteRequestFields) \cup {"unknown"} = {"vector_id", "unknown"}
    BY DeleteRequestTable
  <2> QED BY <1>4, <2>1
<1>6. m.vector_id \in UInt64
  <2>1. m.vector_id \in Values("uint64")
    BY <1>4, DeleteRequestTable
  <2> QED BY <2>1 DEF Values
<1>7. m \in DeleteRequests
  BY <1>4, <1>5, <1>6 DEF DeleteRequests
<1> QED BY <1>2, <1>3, <1>7

LEMMA InfoRequestParsed ==
    ASSUME NEW w \in Wires
    PROVE  /\ Parse(InfoRequestFields, New(InfoRequestFields), w).ok \in BOOLEAN
           /\ Parse(InfoRequestFields, New(InfoRequestFields), w).msg \in InfoRequests
<1>1. IsFields(InfoRequestFields) /\ DOMAIN InfoRequestFields = {}
  BY InfoRequestTable
<1>2. PICK g \in Seq(Tokens) :
        /\ Parse(InfoRequestFields, New(InfoRequestFields), w).ok \in BOOLEAN
        /\ Parse(InfoRequestFields, New(InfoRequestFields), w).msg = MessageAfter(InfoRequestFields, New(InfoRequestFields), g)
  BY <1>1, ParsedIs DEF Wires
<1>3. PICK m : m = MessageAfter(InfoRequestFields, New(InfoRequestFields), g)
  OBVIOUS
<1>4. /\ m = [name \in Names(InfoRequestFields) \cup {"unknown"} |-> m[name]]
      /\ \A k \in DOMAIN InfoRequestFields : m[InfoRequestFields[k].name] \in Values(InfoRequestFields[k].type)
      /\ m.unknown \in Foreign(InfoRequestFields)
  BY <1>1, <1>3, RequestAfter
<1>5. m = [name \in {"unknown"} |-> m[name]]
  <2>1. Names(InfoRequestFields) \cup {"unknown"} = {"unknown"}
    BY InfoRequestTable
  <2> QED BY <1>4, <2>1
<1>7. m \in InfoRequests
  BY <1>4, <1>5 DEF InfoRequests
<1> QED BY <1>2, <1>3, <1>7

\* A new message of each kind that the service makes itself.
LEMMA Zeros == 0 \in UInt64 /\ 0 \in UInt32 /\ 0 \in Int64 /\ 0 \in Int32
<1>1. PICK h \in Nat, x \in Nat : h > 0 /\ x > 0 /\ Narrow \div 2 = h /\ Wide \div 2 = x
  BY Widths
<1>2. Narrow \in Nat \ {0} /\ Wide \in Nat \ {0}
  BY MessagesAssumption
<1> QED BY <1>1, <1>2 DEF UInt64, UInt32, Int64, Int32

LEMMA NewInsertRequest == New(InsertRequestFields) \in InsertRequests
<1> DEFINE m == New(InsertRequestFields)
<1>1. DOMAIN m = {"vector_id", "vector", "metadata", "unknown"} /\ m.unknown = <<>>
  BY InsertRequestTable, NewIs
<1>2. m = [name \in {"vector_id", "vector", "metadata", "unknown"} |-> m[name]]
  BY <1>1 DEF New
<1>3. 1 \in DOMAIN InsertRequestFields /\ 2 \in DOMAIN InsertRequestFields /\ 3 \in DOMAIN InsertRequestFields
  BY InsertRequestTable
<1>4. \A k \in DOMAIN InsertRequestFields : m[InsertRequestFields[k].name] = Default(InsertRequestFields[k])
  BY InsertRequestTable, NewIs
<1> HIDE DEF m
<1>5. /\ Default(InsertRequestFields[1]) = 0
      /\ Default(InsertRequestFields[2]) = <<>>
      /\ Default(InsertRequestFields[3]) = <<>>
  BY InsertRequestTable DEF Default
<1>6. m.vector_id = 0 /\ m.vector = <<>> /\ m.metadata = <<>>
  BY <1>3, <1>4, <1>5, InsertRequestTable
<1>7. m \in InsertRequests
  BY <1>1, <1>2, <1>6, EmptySeq, NoneUnknown, InsertRequestTable, Zeros, ZenonT(60) DEF InsertRequests, Bytes
<1> QED BY <1>7 DEF m

LEMMA NewInsertResponse == New(InsertResponseFields) \in InsertResponses
<1> DEFINE m == New(InsertResponseFields)
<1>1. DOMAIN m = {"shard_id", "node_id", "latency_us", "unknown"} /\ m.unknown = <<>>
  BY InsertResponseTable, NewIs
<1>2. m = [name \in {"shard_id", "node_id", "latency_us", "unknown"} |-> m[name]]
  BY <1>1 DEF New
<1>3. 1 \in DOMAIN InsertResponseFields /\ 2 \in DOMAIN InsertResponseFields /\ 3 \in DOMAIN InsertResponseFields
  BY InsertResponseTable
<1>4. \A k \in DOMAIN InsertResponseFields : m[InsertResponseFields[k].name] = Default(InsertResponseFields[k])
  BY InsertResponseTable, NewIs
<1> HIDE DEF m
<1>5. /\ Default(InsertResponseFields[1]) = 0
      /\ Default(InsertResponseFields[2]) = 0
      /\ Default(InsertResponseFields[3]) = 0
  BY InsertResponseTable DEF Default
<1>6. m.shard_id = 0 /\ m.node_id = 0 /\ m.latency_us = 0
  BY <1>3, <1>4, <1>5, InsertResponseTable
<1>7. m \in InsertResponses
  BY <1>1, <1>2, <1>6, Zeros DEF InsertResponses
<1> QED BY <1>7 DEF m

LEMMA NewBulkInsertResponse ==
    /\ New(BulkInsertResponseFields) \in BulkInsertResponses
    /\ New(BulkInsertResponseFields).inserted = 0 /\ New(BulkInsertResponseFields).failed = 0
<1> DEFINE m == New(BulkInsertResponseFields)
<1>1. DOMAIN m = {"inserted", "failed", "latency_us", "unknown"} /\ m.unknown = <<>>
  BY BulkInsertResponseTable, NewIs
<1>2. m = [name \in {"inserted", "failed", "latency_us", "unknown"} |-> m[name]]
  BY <1>1 DEF New
<1>3. 1 \in DOMAIN BulkInsertResponseFields /\ 2 \in DOMAIN BulkInsertResponseFields /\ 3 \in DOMAIN BulkInsertResponseFields
  BY BulkInsertResponseTable
<1>4. \A k \in DOMAIN BulkInsertResponseFields : m[BulkInsertResponseFields[k].name] = Default(BulkInsertResponseFields[k])
  BY BulkInsertResponseTable, NewIs
<1> HIDE DEF m
<1>5. /\ Default(BulkInsertResponseFields[1]) = 0
      /\ Default(BulkInsertResponseFields[2]) = 0
      /\ Default(BulkInsertResponseFields[3]) = 0
  BY BulkInsertResponseTable DEF Default
<1>6. m.inserted = 0 /\ m.failed = 0 /\ m.latency_us = 0
  BY <1>3, <1>4, <1>5, BulkInsertResponseTable
<1>7. m \in BulkInsertResponses
  BY <1>1, <1>2, <1>6, Zeros DEF BulkInsertResponses
<1> QED BY <1>6, <1>7 DEF m
LEMMA NewSearchResponse == New(SearchResponseFields) \in SearchResponses
<1> DEFINE m == New(SearchResponseFields)
<1>1. DOMAIN m = {"results", "latency_us", "degraded", "shards_ok", "shards_err", "unknown"} /\ m.unknown = <<>>
  BY SearchResponseTable, NewIs
<1>2. m = [name \in {"results", "latency_us", "degraded", "shards_ok", "shards_err", "unknown"} |-> m[name]]
  BY <1>1 DEF New
<1>3. 1 \in DOMAIN SearchResponseFields /\ 2 \in DOMAIN SearchResponseFields /\ 3 \in DOMAIN SearchResponseFields /\ 4 \in DOMAIN SearchResponseFields /\ 5 \in DOMAIN SearchResponseFields
  BY SearchResponseTable
<1>4. \A k \in DOMAIN SearchResponseFields : m[SearchResponseFields[k].name] = Default(SearchResponseFields[k])
  BY SearchResponseTable, NewIs
<1> HIDE DEF m
<1>5. /\ Default(SearchResponseFields[1]) = <<>>
      /\ Default(SearchResponseFields[2]) = 0
      /\ Default(SearchResponseFields[3]) = FALSE
      /\ Default(SearchResponseFields[4]) = 0
      /\ Default(SearchResponseFields[5]) = 0
  BY SearchResponseTable DEF Default
<1>6. m.results = <<>> /\ m.latency_us = 0 /\ m.degraded = FALSE /\ m.shards_ok = 0 /\ m.shards_err = 0
  BY <1>3, <1>4, <1>5, SearchResponseTable
<1>7. m \in SearchResponses
  BY <1>1, <1>2, <1>6, EmptySeq, Zeros DEF SearchResponses
<1> QED BY <1>7 DEF m

LEMMA NewDeleteResponse == New(DeleteResponseFields) \in DeleteResponses
<1> DEFINE m == New(DeleteResponseFields)
<1>1. DOMAIN m = {"found", "latency_us", "unknown"} /\ m.unknown = <<>>
  BY DeleteResponseTable, NewIs
<1>2. m = [name \in {"found", "latency_us", "unknown"} |-> m[name]]
  BY <1>1 DEF New
<1>3. 1 \in DOMAIN DeleteResponseFields /\ 2 \in DOMAIN DeleteResponseFields
  BY DeleteResponseTable
<1>4. \A k \in DOMAIN DeleteResponseFields : m[DeleteResponseFields[k].name] = Default(DeleteResponseFields[k])
  BY DeleteResponseTable, NewIs
<1> HIDE DEF m
<1>5. /\ Default(DeleteResponseFields[1]) = FALSE
      /\ Default(DeleteResponseFields[2]) = 0
  BY DeleteResponseTable DEF Default
<1>6. m.found = FALSE /\ m.latency_us = 0
  BY <1>3, <1>4, <1>5, DeleteResponseTable
<1>7. m \in DeleteResponses
  BY <1>1, <1>2, <1>6, Zeros DEF DeleteResponses
<1> QED BY <1>7 DEF m

LEMMA NewInfoResponse ==
    /\ New(InfoResponseFields) \in InfoResponses
    /\ New(InfoResponseFields).total_vectors = 0 /\ New(InfoResponseFields).shards = <<>>
<1> DEFINE m == New(InfoResponseFields)
<1>1. DOMAIN m = {"total_vectors", "shard_count", "dim", "shards", "unknown"} /\ m.unknown = <<>>
  BY InfoResponseTable, NewIs
<1>2. m = [name \in {"total_vectors", "shard_count", "dim", "shards", "unknown"} |-> m[name]]
  BY <1>1 DEF New
<1>3. 1 \in DOMAIN InfoResponseFields /\ 2 \in DOMAIN InfoResponseFields /\ 3 \in DOMAIN InfoResponseFields /\ 4 \in DOMAIN InfoResponseFields
  BY InfoResponseTable
<1>4. \A k \in DOMAIN InfoResponseFields : m[InfoResponseFields[k].name] = Default(InfoResponseFields[k])
  BY InfoResponseTable, NewIs
<1> HIDE DEF m
<1>5. /\ Default(InfoResponseFields[1]) = 0
      /\ Default(InfoResponseFields[2]) = 0
      /\ Default(InfoResponseFields[3]) = 0
      /\ Default(InfoResponseFields[4]) = <<>>
  BY InfoResponseTable DEF Default
<1>6. m.total_vectors = 0 /\ m.shard_count = 0 /\ m.dim = 0 /\ m.shards = <<>>
  BY <1>3, <1>4, <1>5, InfoResponseTable
<1>7. m \in InfoResponses
  BY <1>1, <1>2, <1>6, EmptySeq, Zeros DEF InfoResponses
<1> QED BY <1>6, <1>7 DEF m
-----------------------------------------------------------------------------
(* The service                                                              *)

Requests(method) ==
    CASE method \in {"Insert", "BulkInsert"} -> InsertRequests
      [] method = "Search" -> SearchRequests
      [] method = "Delete" -> DeleteRequests
      [] method = "GetInfo" -> InfoRequests
Responses(method) ==
    CASE method = "Insert" -> InsertResponses
      [] method = "BulkInsert" -> BulkInsertResponses
      [] method = "Search" -> SearchResponses
      [] method = "Delete" -> DeleteResponses
      [] method = "GetInfo" -> InfoResponses

\* What the codec gives the service.
LEMMA RequestsParsed ==
    ASSUME NEW method \in Methods, NEW w \in Wires
    PROVE  \A m : LET p == ParseFrom(RequestFields(method), m, w)
                  IN  p.ok \in BOOLEAN /\ p.msg \in Requests(method)
BY ParseFromIs, InsertRequestParsed, SearchRequestParsed, DeleteRequestParsed, InfoRequestParsed
   DEF Methods, RequestFields, Requests

LEMMA RequestsSendable ==
    \A method \in Methods : \A m \in Requests(method) : Sendable(RequestFields(method), m)
BY InsertRequestSend, SearchRequestSend, DeleteRequestSend, InfoRequestSend
   DEF Methods, RequestFields, Requests

LEMMA ResponsesSendable ==
    \A method \in Methods : \A m \in Responses(method) : Sendable(ResponseFields(method), m)
BY InsertResponseSend, BulkInsertResponseSend, SearchResponseSend, DeleteResponseSend,
   InfoResponseSend DEF Methods, ResponseFields, Responses

LEMMA FieldTables ==
    \A method \in Methods : IsFields(RequestFields(method)) /\ IsFields(ResponseFields(method))
BY InsertRequestTable, SearchRequestTable, DeleteRequestTable, InfoRequestTable,
   InsertResponseTable, BulkInsertResponseTable, SearchResponseTable, DeleteResponseTable,
   InfoResponseTable DEF Methods, RequestFields, ResponseFields

LEMMA NewResponses == \A method \in Methods : New(ResponseFields(method)) \in Responses(method)
BY NewInsertResponse, NewBulkInsertResponse, NewSearchResponse, NewDeleteResponse,
   NewInfoResponse DEF Methods, ResponseFields, Responses

\* What a client reads is what the handler set.
LEMMA ReadBack ==
    ASSUME NEW method \in Methods, NEW m \in Responses(method)
    PROVE  ClientReads(ResponseFields(method), m) = [ok |-> TRUE, msg |-> m]
BY ParseFromIs, ResponsesSendable, FieldTables, Trip DEF ClientReads

-----------------------------------------------------------------------------
(* The invariant: what holds of the service's data, and of each call.       *)

DataInv ==
    /\ valid_tokens \subseteq BearerTokens /\ disabled \in BOOLEAN /\ admin \in 0..MaxAdmin
    /\ index \in [Shards -> Seq(Nodes)]
    /\ \A s \in Shards : Len(index[s]) <= Narrow
    /\ healthy \in [Shards -> BOOLEAN]
    /\ phase \in [Calls -> {"idle", "arrived", "handler", "done"}]
    /\ status \in [Calls -> Statuses \cup {"none"}]
    /\ progress \in [Calls -> 0..(2 * ShardCount)]
    /\ outcome \in [Calls -> Seq(Outcomes)]
    /\ DOMAIN script = Calls /\ DOMAIN stream = Calls /\ DOMAIN req = Calls
    /\ DOMAIN resp = Calls /\ DOMAIN answer = Calls

\* A call that has arrived has a script and messages of its method's types.
CallTyped(c) ==
    phase[c] # "idle" =>
      script[c] \in Scripts /\ req[c] \in Requests(Method(c)) /\ resp[c] \in Responses(Method(c))

\* Before it is admitted a call has done nothing.
CallFresh(c) ==
    phase[c] \in {"idle", "arrived"} =>
      /\ outcome[c] = <<>> /\ progress[c] = 0 /\ status[c] = "none"
      /\ \A s \in Shards : \A k \in DOMAIN index[s] : index[s][k].call # c
      /\ phase[c] = "arrived" => resp[c] = New(OutFields(c))

\* The answer of a call that ended OK is the response as the handler left it.
CallAnswered(c) ==
    status[c] = "OK" => phase[c] = "done" /\ answer[c] = [ok |-> TRUE, msg |-> resp[c]]

\* A stream's call: how far it has read, what of that has a node, and its counters.
Sent(c)    == script[c].sent
Read(c)    == Len(outcome[c])
ReadAs(w)  == ParseFrom(InsertRequestFields, New(InsertRequestFields), w)
OfCall(w, c)   == {k \in DOMAIN w : w[k].call = c}
StoredOf(w, c) == {k \in OfCall(w, c) : w[k].state = "stored"}
Mine(c, s)   == OfCall(index[s], c)
KeptIn(c, s) == {k \in DOMAIN outcome[c] : /\ outcome[c][k] \in Kept
                                           /\ ShardOf[ReadAs(Sent(c)[k]).msg.vector_id] = s}
SentAs(c, k) == LET m == ReadAs(Sent(c)[k]).msg
                IN  [id |-> m.vector_id, vec |-> m.vector, call |-> c, state |-> outcome[c][k]]
Places(f)  == UNION {{s} \X f[s] : s \in Shards}
GrowsAt(f, g, s, a) == a \notin f[s] /\ g[s] = f[s] \cup {a} /\ \A t \in Shards \ {s} : g[t] = f[t]
InIndex(c) == Places([s \in Shards |-> StoredOf(index[s], c)])
Taken(c)   == Places([s \in Shards |-> OfCall(index[s], c)])

StreamRead(c) ==
    /\ Read(c) <= Len(Sent(c)) /\ stream[c] = SubSeq(Sent(c), Read(c) + 1, Len(Sent(c)))
    /\ \A k \in 1..Read(c) : ReadAs(Sent(c)[k]).ok
    /\ status[c] = "OK" => Read(c) = Len(Sent(c)) \/ ~ReadAs(Sent(c)[Read(c) + 1]).ok
StreamPlaced(c) ==
    \A s \in Shards : Picked(index[s], Mine(c, s)) =
                        [n \in 1..Cardinality(KeptIn(c, s)) |-> SentAs(c, Nth(KeptIn(c, s), n))]
StreamCounted(c) ==
    /\ IsFiniteSet(InIndex(c)) /\ resp[c].inserted = Cardinality(InIndex(c))
    /\ IsFiniteSet(Taken(c)) /\ Cardinality(Taken(c)) <= Read(c)
    /\ resp[c].inserted + resp[c].failed = Read(c)
CallStreams(c) ==
    phase[c] # "idle" /\ Method(c) = "BulkInsert" =>
      StreamRead(c) /\ StreamPlaced(c) /\ StreamCounted(c)

\* An insert and a search that ended OK told places that are in the indexes.
AskedBy(c) == [id |-> req[c].vector_id, vec |-> req[c].vector, call |-> c, state |-> "stored"]
CallPlaced(c) ==
    status[c] = "OK" /\ Method(c) = "Insert" =>
      /\ resp[c].shard_id \in Shards
      /\ LET s == resp[c].shard_id
             n == resp[c].node_id
         IN  n < Len(index[s]) /\ index[s][n + 1] = AskedBy(c)
CallFound(c) ==
    status[c] = "OK" /\ Method(c) = "Search" =>
      \A k \in DOMAIN resp[c].results :
        LET r == resp[c].results[k]
        IN  \E s \in Shards : /\ r.node_id < Len(index[s])
                              /\ index[s][r.node_id + 1].state # "threw_blank"
                              /\ Distance[index[s][r.node_id + 1].vec] = r.distance

\* The sizes a GetInfo has been told, or would now be told: its total is not more.
SizeTold(c, k) ==
    IF k <= Len(resp[c].shards) THEN resp[c].shards[k].vector_count
    ELSE IF k <= progress[c] THEN Len(index[k - 1]) ELSE 0
CallSums(c) ==
    phase[c] # "idle" /\ Method(c) = "GetInfo" =>
      /\ Len(resp[c].shards) = IF progress[c] <= ShardCount THEN 0 ELSE progress[c] - ShardCount
      /\ resp[c].total_vectors <= SumOf([k \in 1..ShardCount |-> SizeTold(c, k)])
      /\ resp[c].total_vectors <= progress[c] * Narrow
      /\ resp[c].total_vectors <= ShardCount * Narrow
      /\ status[c] = "OK" => progress[c] = 2 * ShardCount

CallInv(c) ==
    /\ CallTyped(c) /\ CallFresh(c) /\ CallAnswered(c) /\ CallStreams(c)
    /\ CallPlaced(c) /\ CallFound(c) /\ CallSums(c)

ServiceInv == DataInv /\ \A c \in Calls : CallInv(c)

LEMMA ConstantFacts ==
    /\ Narrow \in Nat \ {0} /\ Wide \in Nat \ {0} /\ Narrow < Wide /\ UInt32 \subseteq UInt64
    /\ ShardCount \in Nat \ {0} /\ ShardCount \in UInt32 /\ ShardCount * Narrow < Wide
    /\ Shards \subseteq UInt32 /\ Shards \subseteq Nat
    /\ MaxAdmin \in Nat /\ Dim \in Nat \ {0} /\ Dim \in Int32
    /\ ShardOf \in [UInt64 -> Shards] /\ Distance \in [Vectors -> Nat] /\ Latencies \subseteq Int64
<1>1. Narrow \in Nat \ {0} /\ Wide \in Nat \ {0}
  BY MessagesAssumption
<1>2. ShardCount \in UInt32 \ {0} /\ ShardCount * Narrow < Wide
  BY ServiceAssumption, Zenon
<1>3. ShardCount \in Nat \ {0} /\ ShardCount < Narrow
  BY <1>1, <1>2 DEF UInt32
<1>4. Narrow < Wide
  BY <1>1, <1>2, <1>3
<1>5. UInt32 \subseteq UInt64 /\ Shards \subseteq UInt32 /\ Shards \subseteq Nat
  BY <1>1, <1>3, <1>4 DEF UInt32, UInt64, Shards
<1>6. /\ MaxAdmin \in Nat /\ Dim \in Int32 /\ Dim > 0
      /\ ShardOf \in [UInt64 -> Shards] /\ Distance \in [Vectors -> Nat] /\ Latencies \subseteq Int64
  BY ServiceAssumption, Zenon
<1>7. Dim \in Nat \ {0}
  <2>1. PICK h \in Nat : Narrow \div 2 = h
    BY Widths
  <2> QED BY <1>6, <2>1 DEF Int32
<1> QED BY <1>1, <1>2, <1>3, <1>4, <1>5, <1>6, <1>7

LEMMA ScriptFacts ==
    ASSUME NEW s \in Scripts
    PROVE  /\ s.method \in Methods /\ s.peer \in Clients
           /\ s.sent \in Seq(Wires) /\ Len(s.sent) \in Nat /\ Len(s.sent) < Wide
           /\ DOMAIN s.sent = 1..Len(s.sent) /\ \A k \in 1..Len(s.sent) : s.sent[k] \in Wires
           /\ s.method # "BulkInsert" => s.sent[1] \in Wires
<1>1. /\ s.method \in Methods /\ s.peer \in Clients
      /\ s.sent \in Seq(Wires) /\ Len(s.sent) < Wide
      /\ s.method # "BulkInsert" => s.sent # <<>>
  BY ServiceAssumption, Zenon DEF Wires
<1>2. /\ Len(s.sent) \in Nat /\ DOMAIN s.sent = 1..Len(s.sent)
      /\ \A k \in 1..Len(s.sent) : s.sent[k] \in Wires
  BY <1>1, LenProperties, ElementOfSeq
<1>3. s.sent # <<>> => 1 \in 1..Len(s.sent)
  BY <1>1, <1>2, EmptySeq
<1> QED BY <1>1, <1>2, <1>3

LEMMA ServiceStart == Init => ServiceInv
<1> SUFFICES ASSUME Init PROVE ServiceInv
  OBVIOUS
<1>1. Len(<<>>) = 0 /\ Narrow \in Nat /\ ShardCount \in Nat /\ MaxAdmin \in Nat
  BY EmptySeq, ConstantFacts
<1>2. DataInv
  <2>1. \A S : [s \in Shards |-> <<>>] \in [Shards -> Seq(S)] /\ [c \in Calls |-> <<>>] \in [Calls -> Seq(S)]
    BY EmptySeq
  <2>2. 0 \in 0..MaxAdmin /\ 0 \in 0..(2 * ShardCount)
    BY <1>1
  <2>3. /\ index \in [Shards -> Seq(Nodes)]
        /\ outcome \in [Calls -> Seq(Outcomes)]
    BY <2>1, Zenon DEF Init
  <2>4. \A s \in Shards : Len(index[s]) <= Narrow
    BY <1>1 DEF Init
  <2>5. /\ healthy \in [Shards -> BOOLEAN]
        /\ phase \in [Calls -> {"idle", "arrived", "handler", "done"}]
        /\ status \in [Calls -> Statuses \cup {"none"}]
        /\ progress \in [Calls -> 0..(2 * ShardCount)]
    BY <2>2 DEF Init
  <2>6. /\ DOMAIN script = Calls /\ DOMAIN stream = Calls /\ DOMAIN req = Calls
        /\ DOMAIN resp = Calls /\ DOMAIN answer = Calls
    BY DEF Init
  <2>7. valid_tokens \subseteq BearerTokens /\ disabled \in BOOLEAN /\ admin \in 0..MaxAdmin
    BY <2>2 DEF Init
  <2> QED BY <2>3, <2>4, <2>5, <2>6, <2>7 DEF DataInv
<1>3. ASSUME NEW c \in Calls PROVE CallInv(c)
  <2>1. phase[c] = "idle" /\ status[c] = "none" /\ outcome[c] = <<>> /\ progress[c] = 0
    BY DEF Init
  <2>2. \A s \in Shards : DOMAIN index[s] = {}
    BY EmptySeq DEF Init
  <2> QED BY <2>1, <2>2 DEF CallInv, CallTyped, CallFresh, CallAnswered, CallStreams, CallPlaced,
                            CallFound, CallSums
<1> QED BY <1>2, <1>3 DEF ServiceInv

-----------------------------------------------------------------------------
(* A step of one call leaves what holds of another.                         *)

Untouched(c) ==
    /\ phase'[c] = phase[c] /\ script'[c] = script[c] /\ stream'[c] = stream[c]
    /\ req'[c] = req[c] /\ resp'[c] = resp[c] /\ status'[c] = status[c]
    /\ answer'[c] = answer[c] /\ progress'[c] = progress[c] /\ outcome'[c] = outcome[c]

\* The indexes are as they were, or have a node more that is not of c.
GrowsForOthers(c) ==
    \A s \in Shards :
      index'[s] = index[s] \/ \E e \in Nodes : e.call # c /\ index'[s] = Append(index[s], e)

LEMMA AppendOfOthers ==
    ASSUME NEW S, NEW w \in Seq(S), NEW e \in S, NEW c, e.call # c
    PROVE  /\ OfCall(Append(w, e), c) = OfCall(w, c) /\ StoredOf(Append(w, e), c) = StoredOf(w, c)
           /\ Picked(Append(w, e), OfCall(w, c)) = Picked(w, OfCall(w, c))
<1> DEFINE P == OfCall(w, c)
           v == Append(w, e)
<1>1. /\ Len(w) \in Nat /\ DOMAIN w = 1..Len(w)
      /\ v \in Seq(S) /\ Len(v) = Len(w) + 1 /\ DOMAIN v = 1..Len(v)
      /\ \A i \in 1..Len(w) : v[i] = w[i]
      /\ v[Len(w) + 1] = e
  BY LenProperties, AppendProperties
<1>2. DOMAIN v = DOMAIN w \cup {Len(w) + 1} /\ \A i \in DOMAIN w : v[i] = w[i]
  BY <1>1
<1>3. OfCall(v, c) = P
  <2> HIDE DEF v
  <2> QED BY <1>1, <1>2 DEF OfCall
<1>4. P \in SUBSET (1..Len(w))
  BY <1>1 DEF OfCall
<1>6. StoredOf(v, c) = StoredOf(w, c)
  <2> HIDE DEF v, P
  <2>1. \A k \in P : v[k] = w[k]
    BY <1>1, <1>4
  <2> QED BY <1>3, <2>1 DEF StoredOf, P
<1>5. Picked(v, P) = Picked(w, P)
  <2> HIDE DEF P
  <2> QED BY <1>4, PickedAppend, ZenonT(60)
<1> QED BY <1>3, <1>5, <1>6

LEMMA GrowsFacts ==
    ASSUME DataInv, NEW c, GrowsForOthers(c)
    PROVE  \A s \in Shards :
             /\ Picked(index[s], Mine(c, s))' = Picked(index[s], Mine(c, s))
             /\ OfCall(index'[s], c) = OfCall(index[s], c)
             /\ StoredOf(index'[s], c) = StoredOf(index[s], c)
             /\ Len(index[s]) \in Nat /\ Len(index'[s]) \in Nat /\ Len(index[s]) <= Len(index'[s])
             /\ \A k \in 1..Len(index[s]) : index'[s][k] = index[s][k]
<1> SUFFICES ASSUME NEW s \in Shards
             PROVE  /\ Picked(index[s], Mine(c, s))' = Picked(index[s], Mine(c, s))
                    /\ OfCall(index'[s], c) = OfCall(index[s], c)
                    /\ StoredOf(index'[s], c) = StoredOf(index[s], c)
                    /\ Len(index[s]) \in Nat /\ Len(index'[s]) \in Nat
                    /\ Len(index[s]) <= Len(index'[s])
                    /\ \A k \in 1..Len(index[s]) : index'[s][k] = index[s][k]
  OBVIOUS
<1>1. index[s] \in Seq(Nodes) /\ Len(index[s]) \in Nat
  BY LenProperties DEF DataInv
<1>2. CASE index'[s] = index[s]
  BY <1>1, <1>2 DEF Mine
<1>3. CASE \E e \in Nodes : e.call # c /\ index'[s] = Append(index[s], e)
  <2>1. PICK e \in Nodes : e.call # c /\ index'[s] = Append(index[s], e)
    BY <1>3
  <2>2. /\ OfCall(index'[s], c) = OfCall(index[s], c)
        /\ StoredOf(index'[s], c) = StoredOf(index[s], c)
        /\ Picked(index'[s], OfCall(index[s], c)) = Picked(index[s], OfCall(index[s], c))
    BY <1>1, <2>1, AppendOfOthers
  <2>3. Len(index'[s]) = Len(index[s]) + 1 /\ \A k \in 1..Len(index[s]) : index'[s][k] = index[s][k]
    BY <1>1, <2>1, AppendProperties
  <2> QED BY <1>1, <2>2, <2>3 DEF Mine
<1> QED BY <1>2, <1>3 DEF GrowsForOthers

LEMMA SameStream ==
    ASSUME NEW c, script'[c] = script[c], outcome'[c] = outcome[c]
    PROVE  /\ Sent(c)' = Sent(c) /\ Read(c)' = Read(c)
           /\ \A s : KeptIn(c, s)' = KeptIn(c, s)
           /\ \A k : SentAs(c, k)' = SentAs(c, k)
<1>1. Sent(c)' = Sent(c) /\ Read(c)' = Read(c)
  BY DEF Sent, Read
<1>2. \A k : SentAs(c, k)' = SentAs(c, k)
  BY <1>1 DEF SentAs, ReadAs
<1>3. \A s : KeptIn(c, s)' = KeptIn(c, s)
  BY <1>1 DEF KeptIn, ReadAs
<1> QED BY <1>1, <1>2, <1>3

LEMMA OtherCall ==
    ASSUME DataInv, NEW c \in Calls, CallInv(c), Untouched(c), GrowsForOthers(c)
    PROVE  CallInv(c)'
<1>1. \A s \in Shards :
        /\ Picked(index[s], Mine(c, s))' = Picked(index[s], Mine(c, s))
        /\ OfCall(index'[s], c) = OfCall(index[s], c)
        /\ StoredOf(index'[s], c) = StoredOf(index[s], c)
        /\ Len(index[s]) \in Nat /\ Len(index'[s]) \in Nat /\ Len(index[s]) <= Len(index'[s])
        /\ \A k \in 1..Len(index[s]) : index'[s][k] = index[s][k]
  BY GrowsFacts
<1>2. /\ Sent(c)' = Sent(c) /\ Read(c)' = Read(c)
      /\ \A s : KeptIn(c, s)' = KeptIn(c, s)
      /\ \A k : SentAs(c, k)' = SentAs(c, k)
      /\ Method(c)' = Method(c)
  BY SameStream DEF Untouched, Method
<1>3. CallTyped(c)'
  BY <1>2 DEF CallInv, CallTyped, Untouched
<1>4. CallFresh(c)'
  <2> SUFFICES ASSUME phase[c] \in {"idle", "arrived"}
               PROVE  /\ outcome'[c] = <<>> /\ progress'[c] = 0 /\ status'[c] = "none"
                      /\ \A s \in Shards : \A k \in DOMAIN index'[s] : index'[s][k].call # c
                      /\ phase[c] = "arrived" => resp'[c] = New(OutFields(c)')
    BY DEF CallFresh, Untouched
  <2>1. \A s \in Shards : OfCall(index[s], c) = {}
    BY DEF CallInv, CallFresh, OfCall
  <2>2. \A s \in Shards : OfCall(index'[s], c) = {}
    BY <1>1, <2>1
  <2>3. \A s \in Shards : \A k \in DOMAIN index'[s] : index'[s][k].call # c
    BY <2>2 DEF OfCall
  <2> QED BY <1>2, <2>3 DEF CallInv, CallFresh, Untouched, OutFields
<1>5. CallAnswered(c)'
  BY DEF CallInv, CallAnswered, Untouched
<1>6. CallStreams(c)'
  <2> SUFFICES ASSUME phase[c] # "idle", Method(c) = "BulkInsert"
               PROVE  (StreamRead(c) /\ StreamPlaced(c) /\ StreamCounted(c))'
    BY <1>2 DEF CallStreams, Untouched
  <2>0. StreamRead(c) /\ StreamPlaced(c) /\ StreamCounted(c)
    BY DEF CallInv, CallStreams
  <2>1. StreamRead(c)'
    BY <1>2, <2>0 DEF StreamRead, Untouched, ReadAs
  <2>2. StreamPlaced(c)'
    <3> SUFFICES ASSUME NEW s \in Shards
                 PROVE  Picked(index[s], Mine(c, s))' =
                          [n \in 1..Cardinality(KeptIn(c, s)) |-> SentAs(c, Nth(KeptIn(c, s), n))]'
      BY DEF StreamPlaced
    <3>1. Picked(index[s], Mine(c, s)) =
            [n \in 1..Cardinality(KeptIn(c, s)) |-> SentAs(c, Nth(KeptIn(c, s), n))]
      BY <2>0 DEF StreamPlaced
    <3>2. [n \in 1..Cardinality(KeptIn(c, s)) |-> SentAs(c, Nth(KeptIn(c, s), n))]' =
            [n \in 1..Cardinality(KeptIn(c, s)) |-> SentAs(c, Nth(KeptIn(c, s), n))]
      BY DEF Untouched, SentAs, KeptIn, Sent, ReadAs
    <3> QED BY <1>1, <3>1, <3>2
  <2>3. StreamCounted(c)'
    <3>1. InIndex(c)' = InIndex(c) /\ Taken(c)' = Taken(c)
      BY <1>1, Zenon DEF InIndex, Taken
    <3> QED BY <1>2, <2>0, <3>1 DEF StreamCounted, Untouched
  <2> QED BY <2>1, <2>2, <2>3
<1>7. CallPlaced(c)'
  <2> SUFFICES ASSUME status[c] = "OK", Method(c) = "Insert"
               PROVE  /\ resp[c].shard_id \in Shards
                      /\ resp[c].node_id < Len(index'[resp[c].shard_id])
                      /\ index'[resp[c].shard_id][resp[c].node_id + 1] = AskedBy(c)
    BY <1>2 DEF CallPlaced, Untouched, AskedBy
  <2>1. /\ resp[c].shard_id \in Shards
        /\ resp[c].node_id < Len(index[resp[c].shard_id])
        /\ index[resp[c].shard_id][resp[c].node_id + 1] = AskedBy(c)
    BY DEF CallInv, CallPlaced
  <2>2. resp[c].node_id \in Nat
    <3>1. resp[c] \in InsertResponses
      BY DEF CallInv, CallTyped, CallFresh, CallAnswered, Responses
    <3> QED BY <3>1, ConstantFacts DEF InsertResponses, UInt32
  <2>3. PICK t, n : t = resp[c].shard_id /\ n = resp[c].node_id
    OBVIOUS
  <2>4. /\ Len(index[t]) \in Nat /\ Len(index'[t]) \in Nat /\ Len(index[t]) <= Len(index'[t])
        /\ \A k \in 1..Len(index[t]) : index'[t][k] = index[t][k]
    BY <1>1, <2>1, <2>3
  <2>5. n \in Nat /\ n < Len(index[t]) /\ n + 1 \in 1..Len(index[t])
    BY <2>1, <2>2, <2>3, <2>4
  <2>6. n < Len(index'[t]) /\ index'[t][n + 1] = index[t][n + 1]
    BY <2>4, <2>5
  <2> QED BY <2>1, <2>3, <2>6
<1>8. CallFound(c)'
  <2> SUFFICES ASSUME status[c] = "OK", Method(c) = "Search", NEW k \in DOMAIN resp[c].results
               PROVE  \E s \in Shards :
                        /\ resp[c].results[k].node_id < Len(index'[s])
                        /\ index'[s][resp[c].results[k].node_id + 1].state # "threw_blank"
                        /\ Distance[index'[s][resp[c].results[k].node_id + 1].vec] = resp[c].results[k].distance
    BY <1>2 DEF CallFound, Untouched
  <2>1. PICK s \in Shards :
          /\ resp[c].results[k].node_id < Len(index[s])
          /\ index[s][resp[c].results[k].node_id + 1].state # "threw_blank"
          /\ Distance[index[s][resp[c].results[k].node_id + 1].vec] = resp[c].results[k].distance
    BY DEF CallInv, CallFound
  <2>2. resp[c].results[k].node_id \in Nat
    <3>1. resp[c].results \in Seq(SearchResults)
      BY DEF CallInv, CallTyped, CallFresh, CallAnswered, Responses, SearchResponses
    <3>2. resp[c].results[k] \in SearchResults
      BY <3>1, LenProperties, ElementOfSeq
    <3> QED BY <3>2, ConstantFacts DEF SearchResults, UInt32
  <2>3. resp[c].results[k].node_id + 1 \in 1..Len(index[s]) /\ resp[c].results[k].node_id < Len(index'[s])
    <3>1. PICK n, a, b : n = resp[c].results[k].node_id /\ a = Len(index[s]) /\ b = Len(index'[s])
      OBVIOUS
    <3>2. n \in Nat /\ n < a
      BY <2>1, <2>2, <3>1
    <3>3. a \in Nat /\ b \in Nat /\ a <= b
      BY <1>1, <3>1
    <3>4. n + 1 \in 1..a /\ n < b
      BY <3>2, <3>3
    <3> QED BY <3>1, <3>4
  <2>4. index'[s][resp[c].results[k].node_id + 1] = index[s][resp[c].results[k].node_id + 1]
    BY <1>1, <2>3
  <2> QED BY <2>1, <2>3, <2>4
<1>9. CallSums(c)'
  <2> SUFFICES ASSUME phase[c] # "idle", Method(c) = "GetInfo"
               PROVE  CallSums(c)'
    BY <1>2 DEF CallSums, Untouched
  <2>1. /\ Len(resp[c].shards) = IF progress[c] <= ShardCount THEN 0 ELSE progress[c] - ShardCount
        /\ resp[c].total_vectors <= SumOf([k \in 1..ShardCount |-> SizeTold(c, k)])
        /\ resp[c].total_vectors <= progress[c] * Narrow
        /\ resp[c].total_vectors <= ShardCount * Narrow
        /\ status[c] = "OK" => progress[c] = 2 * ShardCount
    BY DEF CallInv, CallSums
  <2>2. /\ resp[c] \in InfoResponses /\ progress[c] \in Nat /\ ShardCount \in Nat
        /\ \A k \in 1..ShardCount : k - 1 \in Shards
    <3>1. resp[c] \in Responses(Method(c))
      BY DEF CallInv, CallTyped
    <3>2. progress[c] \in 0..(2 * ShardCount) /\ ShardCount \in Nat
      BY ConstantFacts DEF DataInv
    <3> QED BY <3>1, <3>2 DEF Responses, Shards
  <2>3. resp[c].total_vectors \in Nat /\ resp[c].shards \in Seq(ShardInfos)
    BY <2>2, ConstantFacts DEF InfoResponses, UInt64
  <2>4. Len(resp[c].shards) \in Nat /\ \A k \in 1..Len(resp[c].shards) : resp[c].shards[k].vector_count \in Nat
    <3>1. Len(resp[c].shards) \in Nat /\ \A k \in 1..Len(resp[c].shards) : resp[c].shards[k] \in ShardInfos
      BY <2>3, LenProperties, ElementOfSeq
    <3>2. UInt64 \subseteq Nat
      BY ConstantFacts DEF UInt64
    <3> QED BY <3>1, <3>2 DEF ShardInfos
  <2>5. \A k \in 1..ShardCount :
          SizeTold(c, k) \in Nat /\ SizeTold(c, k)' \in Nat /\ SizeTold(c, k) <= SizeTold(c, k)'
    <3> SUFFICES ASSUME NEW k \in 1..ShardCount
                 PROVE  SizeTold(c, k) \in Nat /\ SizeTold(c, k)' \in Nat /\ SizeTold(c, k) <= SizeTold(c, k)'
      OBVIOUS
    <3>1. SizeTold(c, k)' = IF k <= Len(resp[c].shards) THEN resp[c].shards[k].vector_count
                            ELSE IF k <= progress[c] THEN Len(index'[k - 1]) ELSE 0
      BY DEF SizeTold, Untouched
    <3>2. Len(index[k - 1]) \in Nat /\ Len(index'[k - 1]) \in Nat /\ Len(index[k - 1]) <= Len(index'[k - 1])
      BY <1>1, <2>2
    <3>3. CASE k <= Len(resp[c].shards)
      <4>1. SizeTold(c, k) = resp[c].shards[k].vector_count /\ SizeTold(c, k)' = resp[c].shards[k].vector_count
        BY <3>1, <3>3 DEF SizeTold
      <4>2. resp[c].shards[k].vector_count \in Nat
        BY <2>4, <3>3
      <4> QED BY <4>1, <4>2
    <3>4. CASE ~(k <= Len(resp[c].shards)) /\ k <= progress[c]
      BY <3>1, <3>2, <3>4 DEF SizeTold
    <3>5. CASE ~(k <= Len(resp[c].shards)) /\ ~(k <= progress[c])
      BY <3>1, <3>5 DEF SizeTold
    <3> QED BY <3>3, <3>4, <3>5
  <2> DEFINE old == [k \in 1..ShardCount |-> SizeTold(c, k)]
             new == [k \in 1..ShardCount |-> SizeTold(c, k)']
  <2>6. /\ old \in [1..ShardCount -> Nat] /\ new \in [1..ShardCount -> Nat]
        /\ \A k \in 1..ShardCount : old[k] <= new[k]
    BY <2>5
  <2>7. SumOf(old) \in Nat /\ SumOf(new) \in Nat /\ SumOf(old) <= SumOf(new)
    <3> HIDE DEF old, new
    <3> QED BY <2>2, <2>6, SumsCompare
  <2>8. SumOf([k \in 1..ShardCount |-> SizeTold(c, k)])' = SumOf(new)
    OBVIOUS
  <2>9. resp[c].total_vectors <= SumOf(old)
    BY <2>1
  <2> HIDE DEF old, new
  <2>10. resp[c].total_vectors <= SumOf(new)
    BY <2>3, <2>7, <2>9
  <2> QED BY <2>1, <2>8, <2>10 DEF CallSums, Untouched
<1> QED BY <1>3, <1>4, <1>5, <1>6, <1>7, <1>8, <1>9 DEF CallInv

-----------------------------------------------------------------------------
(* The steps of a call.                                                     *)

LEMMA EndsFacts ==
    ASSUME DataInv, NEW c \in Calls, NEW st \in Statuses, Method(c) \in Methods,
           NEW m \in Responses(Method(c)), Ends(c, st, m)
    PROVE  /\ phase' \in [Calls -> {"idle", "arrived", "handler", "done"}]
           /\ status' \in [Calls -> Statuses \cup {"none"}]
           /\ DOMAIN resp' = Calls /\ DOMAIN answer' = Calls
           /\ phase'[c] = "done" /\ status'[c] = st /\ resp'[c] = m
           /\ st = "OK" => answer'[c] = [ok |-> TRUE, msg |-> m]
           /\ \A d \in Calls \ {c} : /\ phase'[d] = phase[d] /\ status'[d] = status[d]
                                     /\ resp'[d] = resp[d] /\ answer'[d] = answer[d]
<1>1. /\ phase \in [Calls -> {"idle", "arrived", "handler", "done"}]
      /\ status \in [Calls -> Statuses \cup {"none"}]
      /\ DOMAIN resp = Calls /\ DOMAIN answer = Calls
  BY DEF DataInv
<1>2. /\ phase' = [phase EXCEPT ![c] = "done"] /\ status' = [status EXCEPT ![c] = st]
      /\ resp' = [resp EXCEPT ![c] = m]
      /\ answer' = IF st = "OK" THEN [answer EXCEPT ![c] = ClientReads(OutFields(c), m)] ELSE answer
  BY Zenon DEF Ends
<1>3. ClientReads(OutFields(c), m) = [ok |-> TRUE, msg |-> m]
  BY ReadBack DEF OutFields
<1> QED BY <1>1, <1>2, <1>3

\* A call that ends and leaves the logs and the indexes as they are.
LEMMA EndsQuietly ==
    ASSUME ServiceInv, NEW c \in Calls, phase[c] # "idle",
           NEW st \in Statuses, NEW m \in Responses(Method(c)), Ends(c, st, m),
           UNCHANGED <<authVars, index, script, stream, req, progress, outcome>>,
           healthy' \in [Shards -> BOOLEAN],
           Method(c) = "BulkInsert" =>
             /\ m.inserted = resp[c].inserted /\ m.failed = resp[c].failed
             /\ st = "OK" => Read(c) = Len(Sent(c)) \/ ~ReadAs(Sent(c)[Read(c) + 1]).ok,
           st = "OK" => Method(c) # "Insert",
           st = "OK" /\ Method(c) = "Search" =>
             \A k \in DOMAIN m.results :
               \E s \in Shards :
                 /\ m.results[k].node_id < Len(index[s])
                 /\ index[s][m.results[k].node_id + 1].state # "threw_blank"
                 /\ Distance[index[s][m.results[k].node_id + 1].vec] = m.results[k].distance,
           Method(c) = "GetInfo" =>
             /\ m.total_vectors = resp[c].total_vectors /\ Len(m.shards) = Len(resp[c].shards)
             /\ \A k \in 1..Len(resp[c].shards) : m.shards[k].vector_count = resp[c].shards[k].vector_count
             /\ st = "OK" => progress[c] = 2 * ShardCount
    PROVE  ServiceInv'
<1>0. DataInv /\ CallInv(c)
  BY DEF ServiceInv
<1>1. script[c] \in Scripts /\ req[c] \in Requests(Method(c)) /\ Method(c) \in Methods
  BY <1>0, ScriptFacts DEF CallInv, CallTyped, Method
<1>2. /\ phase' \in [Calls -> {"idle", "arrived", "handler", "done"}]
      /\ status' \in [Calls -> Statuses \cup {"none"}]
      /\ DOMAIN resp' = Calls /\ DOMAIN answer' = Calls
      /\ phase'[c] = "done" /\ status'[c] = st /\ resp'[c] = m
      /\ st = "OK" => answer'[c] = [ok |-> TRUE, msg |-> m]
      /\ \A d \in Calls \ {c} : /\ phase'[d] = phase[d] /\ status'[d] = status[d]
                                /\ resp'[d] = resp[d] /\ answer'[d] = answer[d]
  BY <1>0, <1>1, EndsFacts
<1>3. DataInv'
  BY <1>0, <1>2 DEF DataInv, authVars
<1>4. ASSUME NEW d \in Calls, d # c PROVE CallInv(d)'
  <2>1. CallInv(d)
    BY DEF ServiceInv
  <2>2. Untouched(d) /\ GrowsForOthers(d)
    BY <1>2, <1>4 DEF Untouched, GrowsForOthers
  <2> QED BY <1>0, <2>1, <2>2, OtherCall
<1>5. CallInv(c)'
  <2>1. Method(c)' = Method(c)
    BY DEF Method
  <2>2. CallTyped(c)' /\ CallFresh(c)' /\ CallAnswered(c)'
    BY <1>1, <1>2, <2>1 DEF CallTyped, CallFresh, CallAnswered
  <2>3. CallStreams(c)'
    <3> SUFFICES ASSUME Method(c) = "BulkInsert"
                 PROVE  (StreamRead(c) /\ StreamPlaced(c) /\ StreamCounted(c))'
      BY <2>1 DEF CallStreams
    <3>1. StreamRead(c) /\ StreamPlaced(c) /\ StreamCounted(c)
      BY <1>0 DEF CallInv, CallStreams
    <3>2. StreamRead(c)'
      <4>1. Sent(c)' = Sent(c) /\ Read(c)' = Read(c) /\ \A w : ReadAs(w)' = ReadAs(w)
        BY DEF Sent, Read, ReadAs
      <4> QED BY <1>2, <3>1, <4>1 DEF StreamRead, ReadAs
    <3>3. StreamPlaced(c)'
      <4> SUFFICES ASSUME NEW s \in Shards
                   PROVE  Picked(index[s], Mine(c, s))' =
                            [n \in 1..Cardinality(KeptIn(c, s)) |-> SentAs(c, Nth(KeptIn(c, s), n))]'
        BY DEF StreamPlaced
      <4>1. Picked(index[s], Mine(c, s))' = Picked(index[s], Mine(c, s))
        BY DEF Mine
      <4>2. [n \in 1..Cardinality(KeptIn(c, s)) |-> SentAs(c, Nth(KeptIn(c, s), n))]' =
              [n \in 1..Cardinality(KeptIn(c, s)) |-> SentAs(c, Nth(KeptIn(c, s), n))]
        BY DEF SentAs, KeptIn, Sent, ReadAs
      <4> QED BY <3>1, <4>1, <4>2 DEF StreamPlaced
    <3>4. StreamCounted(c)'
      <4>1. InIndex(c)' = InIndex(c) /\ Taken(c)' = Taken(c) /\ Read(c)' = Read(c)
        BY DEF InIndex, Taken, Read
      <4> QED BY <1>2, <3>1, <4>1 DEF StreamCounted
    <3> QED BY <3>2, <3>3, <3>4
  <2>4. CallPlaced(c)'
    BY <1>2, <2>1 DEF CallPlaced
  <2>5. CallFound(c)'
    BY <1>2, <2>1 DEF CallFound
  <2>6. CallSums(c)'
    <3> SUFFICES ASSUME Method(c) = "GetInfo" PROVE CallSums(c)'
      BY <2>1 DEF CallSums
    <3>1. /\ Len(resp[c].shards) = IF progress[c] <= ShardCount THEN 0 ELSE progress[c] - ShardCount
          /\ resp[c].total_vectors <= SumOf([k \in 1..ShardCount |-> SizeTold(c, k)])
          /\ resp[c].total_vectors <= progress[c] * Narrow
          /\ resp[c].total_vectors <= ShardCount * Narrow
      BY <1>0 DEF CallInv, CallSums
    <3>2. ShardCount \in Nat /\ Len(resp[c].shards) \in Nat
      <4>1. progress[c] \in 0..(2 * ShardCount) /\ ShardCount \in Nat
        BY <1>0, ConstantFacts DEF DataInv
      <4> QED BY <3>1, <4>1
    <3>3. \A k \in 1..ShardCount : SizeTold(c, k)' = SizeTold(c, k)
      BY <1>2, <3>2 DEF SizeTold
    <3>4. [k \in 1..ShardCount |-> SizeTold(c, k)]' = [k \in 1..ShardCount |-> SizeTold(c, k)]
      BY <3>3
    <3> QED BY <1>2, <3>1, <3>4 DEF CallSums
  <2> QED BY <2>2, <2>3, <2>4, <2>5, <2>6 DEF CallInv
<1> QED BY <1>3, <1>4, <1>5 DEF ServiceInv

\* A call that is refused.
LEMMA Refused ==
    ASSUME ServiceInv, NEW c \in Calls, phase[c] # "idle", NEW st \in Statuses, st # "OK",
           Ends(c, st, resp[c]),
           UNCHANGED <<authVars, dataVars, script, stream, req, progress, outcome>>
    PROVE  ServiceInv'
<1>1. resp[c] \in Responses(Method(c)) /\ healthy' \in [Shards -> BOOLEAN]
  BY DEF ServiceInv, DataInv, CallInv, CallTyped, dataVars
<1>2. UNCHANGED <<authVars, index, script, stream, req, progress, outcome>>
  BY DEF dataVars
<1> QED BY <1>1, <1>2, EndsQuietly

LEMMA UnauthenticatedStep == ASSUME ServiceInv, NEW c \in Calls, Unauthenticated(c) PROVE ServiceInv'
BY Refused DEF Unauthenticated, Statuses

LEMMA LimitedStep == ASSUME ServiceInv, NEW c \in Calls, Limited(c) PROVE ServiceInv'
BY Refused DEF Limited, Statuses

LEMMA InsertBadSizeStep == ASSUME ServiceInv, NEW c \in Calls, InsertBadSize(c) PROVE ServiceInv'
BY Refused DEF InsertBadSize, Serving, Statuses

LEMMA SearchRefusesStep == ASSUME ServiceInv, NEW c \in Calls, SearchRefuses(c) PROVE ServiceInv'
BY Refused DEF SearchRefuses, Serving, Statuses

LEMMA DeleteRefusesStep == ASSUME ServiceInv, NEW c \in Calls, DeleteRefuses(c) PROVE ServiceInv'
<1> DEFINE m == [resp[c] EXCEPT !.found = FALSE, !.latency_us = 0]
<1>1. /\ Method(c) = "Delete" /\ phase[c] # "idle" /\ Ends(c, "UNIMPLEMENTED", m)
      /\ UNCHANGED <<authVars, dataVars, script, stream, req, progress, outcome>>
  BY DEF DeleteRefuses, Serving
<1>2. resp[c] \in DeleteResponses /\ healthy' \in [Shards -> BOOLEAN]
  BY <1>1 DEF ServiceInv, DataInv, CallInv, CallTyped, dataVars, Responses
<1>3. m \in Responses(Method(c))
  BY <1>1, <1>2, Zeros DEF DeleteResponses, Responses
<1>4. UNCHANGED <<authVars, index, script, stream, req, progress, outcome>>
  BY <1>1 DEF dataVars
<1> HIDE DEF m
<1> QED BY <1>1, <1>2, <1>3, <1>4, EndsQuietly DEF Statuses

\* What is left of a stream.
LEMMA StreamNext ==
    ASSUME NEW c \in Calls, script[c] \in Scripts, Read(c) \in Nat, StreamRead(c)
    PROVE  /\ stream[c] = <<>> <=> Read(c) = Len(Sent(c))
           /\ stream[c] # <<>> =>
                /\ Read(c) + 1 \in 1..Len(Sent(c))
                /\ Tail(stream[c]) = SubSeq(Sent(c), Read(c) + 2, Len(Sent(c)))
                /\ ReadNext(c) = ReadAs(Sent(c)[Read(c) + 1])
<1>1. PICK n \in Nat, N \in Nat : n = Read(c) /\ N = Len(Sent(c))
  BY ScriptFacts DEF Sent
<1>2. Sent(c) \in Seq(Wires) /\ n <= N /\ stream[c] = SubSeq(Sent(c), n + 1, N)
  BY <1>1, ScriptFacts DEF Sent, StreamRead
<1>3. CASE n = N
  <2>1. SubSeq(Sent(c), n + 1, N) = <<>>
    BY <1>1, <1>2, <1>3, SubSeqProperties, EmptySeq
  <2>2. stream[c] = <<>> /\ Read(c) = Len(Sent(c))
    BY <1>1, <1>2, <1>3, <2>1
  <2> QED BY <2>2, Zenon
<1>4. CASE n < N
  <2>1. n + 1 \in 1..Len(Sent(c)) /\ N \in (n + 1)..Len(Sent(c))
    BY <1>1, <1>4
  <2>2. Head(stream[c]) = Sent(c)[n + 1] /\ Tail(stream[c]) = SubSeq(Sent(c), n + 1 + 1, N)
    BY <1>2, <2>1, HeadTailOfSubSeq
  <2>3. stream[c] # <<>>
    <3>1. Len(SubSeq(Sent(c), n + 1, N)) = N - n
      BY <1>1, <1>2, <1>4, SubSeqProperties
    <3>2. N - n # 0
      BY <1>1, <1>4
    <3> QED BY <1>2, <3>1, <3>2, EmptySeq
  <2>4. ReadNext(c) = ReadAs(Sent(c)[n + 1])
    BY <2>2, ParseFromIs DEF ReadNext, ReadAs
  <2>5. n + 1 + 1 = n + 2
    OBVIOUS
  <2>6. /\ Read(c) + 1 \in 1..Len(Sent(c))
        /\ Tail(stream[c]) = SubSeq(Sent(c), Read(c) + 2, Len(Sent(c)))
        /\ ReadNext(c) = ReadAs(Sent(c)[Read(c) + 1])
    BY <1>1, <2>1, <2>2, <2>4, <2>5
  <2>7. Read(c) # Len(Sent(c))
    BY <1>1, <1>4
  <2> QED BY <2>3, <2>6, <2>7, Zenon
<1>5. n = N \/ n < N
  BY <1>1, <1>2
<1> QED BY <1>3, <1>4, <1>5, Zenon

LEMMA BulkEndsStep == ASSUME ServiceInv, NEW c \in Calls, BulkEnds(c) PROVE ServiceInv'
<1>1. PICK us \in Latencies : Ends(c, "OK", [resp[c] EXCEPT !.latency_us = us])
  BY DEF BulkEnds
<1> DEFINE m == [resp[c] EXCEPT !.latency_us = us]
<1>2. /\ Method(c) = "BulkInsert" /\ phase[c] # "idle" /\ ~CanRead(c)
      /\ UNCHANGED <<authVars, dataVars, script, stream, req, progress, outcome>>
  BY DEF BulkEnds, Serving
<1>3. resp[c] \in BulkInsertResponses /\ healthy' \in [Shards -> BOOLEAN]
  BY <1>2 DEF ServiceInv, DataInv, CallInv, CallTyped, dataVars, Responses
<1>4. us \in Int64
  BY ConstantFacts
<1>5. /\ m \in Responses(Method(c))
      /\ m.inserted = resp[c].inserted /\ m.failed = resp[c].failed
  BY <1>2, <1>3, <1>4 DEF BulkInsertResponses, Responses
<1>6. Read(c) = Len(Sent(c)) \/ ~ReadAs(Sent(c)[Read(c) + 1]).ok
  <2>1. script[c] \in Scripts /\ StreamRead(c)
    BY <1>2 DEF ServiceInv, CallInv, CallTyped, CallStreams
  <2>2. Read(c) \in Nat
    BY LenProperties DEF ServiceInv, DataInv, Read
  <2> QED BY <1>2, <2>1, <2>2, StreamNext DEF CanRead
<1>7. UNCHANGED <<authVars, index, script, stream, req, progress, outcome>>
  BY <1>2 DEF dataVars
<1>8. Ends(c, "OK", m) /\ "OK" \in Statuses
  BY <1>1 DEF Statuses
<1> HIDE DEF m
<1> QED BY <1>2, <1>3, <1>5, <1>6, <1>7, <1>8, EndsQuietly

LEMMA InfoAnswersStep == ASSUME ServiceInv, NEW c \in Calls, InfoAnswers(c) PROVE ServiceInv'
<1> DEFINE told == [k \in DOMAIN resp[c].shards |-> [resp[c].shards[k] EXCEPT
                      !.status = IF healthy[k - 1] THEN "healthy" ELSE "degraded"]]
           m == [resp[c] EXCEPT !.shard_count = ShardCount, !.dim = Dim, !.shards = told]
<1>1. /\ Method(c) = "GetInfo" /\ phase[c] # "idle" /\ progress[c] = 2 * ShardCount
      /\ Ends(c, "OK", m)
      /\ UNCHANGED <<authVars, dataVars, script, stream, req, progress, outcome>>
  BY DEF InfoAnswers, Serving
<1>2. resp[c] \in InfoResponses /\ healthy' \in [Shards -> BOOLEAN]
  BY <1>1 DEF ServiceInv, DataInv, CallInv, CallTyped, dataVars, Responses
<1>3. PICK n \in Nat : n = Len(resp[c].shards)
  BY <1>2, LenProperties DEF InfoResponses
<1>4. DOMAIN resp[c].shards = 1..n /\ \A k \in 1..n : resp[c].shards[k] \in ShardInfos
  BY <1>2, <1>3, LenProperties, ElementOfSeq DEF InfoResponses
<1>5. /\ told \in [1..n -> ShardInfos]
      /\ \A k \in 1..n : told[k].vector_count = resp[c].shards[k].vector_count
  <2>1. "healthy" \in Texts /\ "degraded" \in Texts
    BY DEF Texts, TextLength
  <2>2. \A k \in 1..n : (IF healthy[k - 1] THEN "healthy" ELSE "degraded") \in Texts
    BY <2>1
  <2>3. ASSUME NEW k \in 1..n
        PROVE  told[k] \in ShardInfos /\ told[k].vector_count = resp[c].shards[k].vector_count
    <3>1. PICK text \in Texts : text = IF healthy[k - 1] THEN "healthy" ELSE "degraded"
      BY <2>2
    <3>2. told[k] = [resp[c].shards[k] EXCEPT !.status = text]
      BY <1>4, <3>1
    <3> HIDE DEF told
    <3> QED BY <1>4, <3>2 DEF ShardInfos
  <2>4. DOMAIN told = 1..n /\ told = [k \in 1..n |-> told[k]]
    BY <1>4
  <2> HIDE DEF told
  <2> QED BY <2>3, <2>4
<1> HIDE DEF told
<1>6. told \in Seq(ShardInfos) /\ Len(told) = n
  BY <1>5, FunctionIsSeq
<1>7. /\ m \in InfoResponses /\ m.total_vectors = resp[c].total_vectors /\ m.shards = told
  BY <1>2, <1>6, ConstantFacts DEF InfoResponses
<1>8. UNCHANGED <<authVars, index, script, stream, req, progress, outcome>>
  BY <1>1 DEF dataVars
<1>9. m \in Responses(Method(c)) /\ "OK" \in Statuses
  BY <1>1, <1>7 DEF Responses, Statuses
<1> HIDE DEF m
<1> QED BY <1>1, <1>2, <1>3, <1>5, <1>6, <1>7, <1>8, <1>9, EndsQuietly

\* The hits of a search are of some shard's index, and finitely many.
LEMMA HitsFacts ==
    ASSUME DataInv, NEW S \in SUBSET Shards, NEW H \in SUBSET Hits(S)
    PROVE  /\ IsFiniteSet(H) /\ Cardinality(H) \in Nat
           /\ \A h \in H : /\ h.shard \in Shards /\ h.node \in 1..Len(index[h.shard])
                           /\ NodeId(h) \in UInt32 /\ NodeId(h) + 1 = h.node
                           /\ NodeId(h) < Len(index[h.shard])
                           /\ index[h.shard][NodeId(h) + 1].state # "threw_blank"
                           /\ DistanceOf(h) \in Nat
                           /\ DistanceOf(h) = Distance[index[h.shard][NodeId(h) + 1].vec]
<1>1. ASSUME NEW h \in H
      PROVE  /\ h = [shard |-> h.shard, node |-> h.node] /\ h.shard \in Shards
             /\ h.node \in DOMAIN index[h.shard] /\ index[h.shard][h.node].state # "threw_blank"
  <2>1. h \in Hits(S)
    OBVIOUS
  <2>2. PICK s \in S : h \in {[shard |-> s, node |-> n] : n \in Linked(s)}
    BY <2>1 DEF Hits
  <2>3. PICK n \in Linked(s) : h = [shard |-> s, node |-> n]
    BY <2>2
  <2> QED BY <2>3 DEF Linked
<1>2. Narrow \in Nat /\ Shards \subseteq UInt32 /\ Distance \in [Vectors -> Nat] /\ ShardCount \in Nat
  BY ConstantFacts
<1>3. ASSUME NEW h \in H
      PROVE  /\ h.shard \in Shards /\ h.node \in 1..Len(index[h.shard]) /\ h.node \in 1..Narrow
             /\ NodeId(h) \in UInt32 /\ NodeId(h) + 1 = h.node
             /\ NodeId(h) < Len(index[h.shard])
             /\ index[h.shard][NodeId(h) + 1].state # "threw_blank"
             /\ DistanceOf(h) \in Nat
             /\ DistanceOf(h) = Distance[index[h.shard][NodeId(h) + 1].vec]
  <2>1. h.shard \in Shards /\ index[h.shard] \in Seq(Nodes) /\ Len(index[h.shard]) <= Narrow
    BY <1>1 DEF DataInv
  <2>2. PICK n \in Nat : n = Len(index[h.shard])
    BY <2>1, LenProperties
  <2>3. h.node \in 1..n /\ index[h.shard][h.node] \in Nodes
    BY <1>1, <2>1, <2>2, LenProperties, ElementOfSeq
  <2>4. NodeId(h) = h.node - 1 /\ h.node \in 1..Narrow
    BY <1>2, <2>1, <2>2, <2>3 DEF NodeId
  <2>5. index[h.shard][h.node].vec \in Vectors
    BY <2>3 DEF Nodes
  <2>6. NodeId(h) \in UInt32 /\ NodeId(h) + 1 = h.node /\ NodeId(h) < n
    BY <1>2, <2>3, <2>4 DEF UInt32
  <2>7. DistanceOf(h) \in Nat
    BY <1>2, <2>5 DEF DistanceOf
  <2>8. index[h.shard][NodeId(h) + 1].state # "threw_blank"
    BY <1>1, <2>6
  <2> QED BY <2>1, <2>2, <2>3, <2>4, <2>6, <2>7, <2>8 DEF DistanceOf
<1>4. IsFiniteSet(H)
  <2>1. IsFiniteSet(Shards) /\ IsFiniteSet(1..Narrow)
    BY <1>2, FS_Interval DEF Shards
  <2>2. IsFiniteSet(Shards \X (1..Narrow))
    BY <2>1, FS_Product
  <2> DEFINE f == [h \in H |-> <<h.shard, h.node>>]
  <2>3. f \in Injection(H, Shards \X (1..Narrow))
    BY <1>1, <1>3 DEF Injection, IsInjective
  <2> HIDE DEF f
  <2> QED BY <2>2, <2>3, FS_Injection
<1>5. Cardinality(H) \in Nat
  BY <1>4, FS_CardinalityType
<1> QED BY <1>3, <1>4, <1>5

LEMMA SearchAnswersStep == ASSUME ServiceInv, NEW c \in Calls, SearchAnswers(c) PROVE ServiceInv'
<1>1. PICK threw \in SUBSET {s \in Shards : healthy[s]}, us \in Latencies :
        /\ healthy' = [s \in Shards |-> healthy[s] /\ s \notin threw]
        /\ LET asked == {s \in Shards : healthy[s]} \ threw
           IN  \E H \in SUBSET Hits(asked) : \E q \in Merges(H) :
                 /\ Cardinality(H) <= req[c].top_k /\ (H # {} <=> HasEntry(asked))
                 /\ Ends(c, "OK", [resp[c] EXCEPT
                      !.results = ResultsOf(q), !.latency_us = us, !.degraded = threw # {},
                      !.shards_ok = ShardCount - Cardinality(threw),
                      !.shards_err = Cardinality(threw)])
  BY DEF SearchAnswers
<1> DEFINE S == {s \in Shards : healthy[s]} \ threw
<1>2. PICK H \in SUBSET Hits(S) : \E q \in Merges(H) :
        Ends(c, "OK", [resp[c] EXCEPT
          !.results = ResultsOf(q), !.latency_us = us, !.degraded = threw # {},
          !.shards_ok = ShardCount - Cardinality(threw),
          !.shards_err = Cardinality(threw)])
  BY <1>1
<1>3. PICK q \in Merges(H) :
        Ends(c, "OK", [resp[c] EXCEPT
          !.results = ResultsOf(q), !.latency_us = us, !.degraded = threw # {},
          !.shards_ok = ShardCount - Cardinality(threw),
          !.shards_err = Cardinality(threw)])
  BY <1>2
<1> DEFINE m == [resp[c] EXCEPT
                   !.results = ResultsOf(q), !.latency_us = us, !.degraded = threw # {},
                   !.shards_ok = ShardCount - Cardinality(threw),
                   !.shards_err = Cardinality(threw)]
<1>4. /\ Method(c) = "Search" /\ phase[c] # "idle"
      /\ UNCHANGED <<authVars, index, script, stream, req, progress, outcome>>
  BY DEF SearchAnswers, Serving
<1>5. resp[c] \in SearchResponses /\ healthy' \in [Shards -> BOOLEAN]
  <2>1. resp[c] \in SearchResponses /\ healthy \in [Shards -> BOOLEAN]
    BY <1>4 DEF ServiceInv, DataInv, CallInv, CallTyped, Responses
  <2> QED BY <1>1, <2>1
<1>6. us \in Int64 /\ ShardCount \in Nat /\ ShardCount \in UInt32 /\ Narrow \in Nat
  BY ConstantFacts
<1>7. ShardCount - Cardinality(threw) \in UInt32 /\ Cardinality(threw) \in UInt32
  <2>1. IsFiniteSet(Shards) /\ Cardinality(Shards) = ShardCount
    <3>1. ShardCount - 1 \in Int /\ ~(0 > ShardCount - 1 /\ ShardCount # 0)
      BY <1>6
    <3>2. /\ IsFiniteSet(0..(ShardCount - 1))
          /\ Cardinality(0..(ShardCount - 1)) = IF 0 > ShardCount - 1 THEN 0 ELSE (ShardCount - 1) - 0 + 1
      BY <3>1, FS_Interval
    <3>3. Cardinality(0..(ShardCount - 1)) = ShardCount
      BY <1>6, <3>1, <3>2
    <3> QED BY <3>2, <3>3 DEF Shards
  <2>2. threw \in SUBSET Shards
    OBVIOUS
  <2>3. IsFiniteSet(threw) /\ Cardinality(threw) <= ShardCount
    BY <2>1, <2>2, FS_Subset
  <2>4. Cardinality(threw) \in Nat
    BY <2>3, FS_CardinalityType
  <2> QED BY <1>6, <2>3, <2>4 DEF UInt32
<1>8. S \in SUBSET Shards /\ DataInv
  BY DEF ServiceInv
<1> HIDE DEF S
<1>9. /\ Cardinality(H) \in Nat
      /\ \A h \in H : /\ h.shard \in Shards
                      /\ NodeId(h) \in UInt32 /\ NodeId(h) < Len(index[h.shard])
                      /\ index[h.shard][NodeId(h) + 1].state # "threw_blank"
                      /\ DistanceOf(h) \in Nat
                      /\ DistanceOf(h) = Distance[index[h.shard][NodeId(h) + 1].vec]
  BY <1>8, HitsFacts
<1>10. PICK n \in Nat : n = Cardinality(H)
  BY <1>9
<1>11. q \in [1..n -> H]
  BY <1>10 DEF Merges
<1> DEFINE told == ResultsOf(q)
<1>12. /\ told \in [1..n -> SearchResults]
       /\ \A k \in 1..n : told[k].node_id = NodeId(q[k]) /\ told[k].distance = DistanceOf(q[k])
  <2>1. DOMAIN q = 1..n
    BY <1>11
  <2>2. told = [k \in 1..n |-> [shard_id |-> 0, node_id |-> NodeId(q[k]),
                                distance |-> DistanceOf(q[k]), metadata |-> <<>>, unknown |-> <<>>]]
    BY <2>1 DEF ResultsOf
  <2>3. 0 \in UInt32 /\ <<>> \in Bytes
    BY Zeros, EmptySeq DEF Bytes
  <2>4. \A k \in 1..n : NodeId(q[k]) \in UInt32 /\ DistanceOf(q[k]) \in Nat
    BY <1>9, <1>11
  <2> HIDE DEF told
  <2> QED BY <2>2, <2>3, <2>4 DEF SearchResults
<1>13. told \in Seq(SearchResults) /\ DOMAIN told = 1..n
  <2> HIDE DEF told
  <2> QED BY <1>12, FunctionIsSeq
<1> HIDE DEF told
<1>14. m \in SearchResponses /\ m.results = told
  <2>1. m = [resp[c] EXCEPT !.results = told, !.latency_us = us, !.degraded = threw # {},
                            !.shards_ok = ShardCount - Cardinality(threw),
                            !.shards_err = Cardinality(threw)]
    BY DEF told
  <2>2. PICK deg \in BOOLEAN : deg = (threw # {})
    OBVIOUS
  <2>3. m = [resp[c] EXCEPT !.results = told, !.latency_us = us, !.degraded = deg,
                            !.shards_ok = ShardCount - Cardinality(threw),
                            !.shards_err = Cardinality(threw)]
    BY <2>1, <2>2
  <2> HIDE DEF m
  <2> QED BY <1>5, <1>6, <1>7, <1>13, <2>3 DEF SearchResponses
<1>15. \A k \in DOMAIN m.results :
         \E s \in Shards :
           /\ m.results[k].node_id < Len(index[s])
           /\ index[s][m.results[k].node_id + 1].state # "threw_blank"
           /\ Distance[index[s][m.results[k].node_id + 1].vec] = m.results[k].distance
  <2> HIDE DEF m
  <2> SUFFICES ASSUME NEW k \in 1..n
               PROVE  \E s \in Shards :
                        /\ told[k].node_id < Len(index[s])
                        /\ index[s][told[k].node_id + 1].state # "threw_blank"
                        /\ Distance[index[s][told[k].node_id + 1].vec] = told[k].distance
    BY <1>13, <1>14
  <2>1. q[k] \in H /\ told[k].node_id = NodeId(q[k]) /\ told[k].distance = DistanceOf(q[k])
    BY <1>11, <1>12
  <2>2. q[k].shard \in Shards
    BY <1>9, <2>1
  <2>3. /\ told[k].node_id < Len(index[q[k].shard])
        /\ index[q[k].shard][told[k].node_id + 1].state # "threw_blank"
        /\ Distance[index[q[k].shard][told[k].node_id + 1].vec] = told[k].distance
    BY <1>9, <2>1
  <2> QED BY <2>2, <2>3
<1>16. m \in Responses(Method(c)) /\ "OK" \in Statuses /\ Ends(c, "OK", m)
  BY <1>3, <1>4, <1>14 DEF Responses, Statuses
<1> HIDE DEF m
<1> QED BY <1>4, <1>5, <1>15, <1>16, EndsQuietly

LEMMA ArriveStep == ASSUME ServiceInv, NEW c \in Calls, NEW s \in Scripts, Arrive(c, s) PROVE ServiceInv'
<1> DEFINE new == New(RequestFields(s.method))
           p == ParseFrom(RequestFields(s.method), new, s.sent[1])
           parsed == s.method = "BulkInsert" \/ p.ok
<1>1. /\ phase[c] = "idle" /\ script' = [script EXCEPT ![c] = s]
      /\ req' = [req EXCEPT ![c] = IF s.method = "BulkInsert" THEN new ELSE p.msg]
      /\ phase' = [phase EXCEPT ![c] = IF parsed THEN "arrived" ELSE "done"]
      /\ status' = [status EXCEPT ![c] = IF parsed THEN "none" ELSE "INTERNAL"]
      /\ stream' = [stream EXCEPT ![c] = s.sent]
      /\ resp' = [resp EXCEPT ![c] = New(ResponseFields(s.method))]
      /\ UNCHANGED <<authVars, rateVars, dataVars, answer, progress, outcome>>
  BY Zenon DEF Arrive
<1>2. DataInv /\ CallInv(c)
  BY DEF ServiceInv
<1>3. /\ s.method \in Methods /\ s.sent \in Seq(Wires)
      /\ s.method # "BulkInsert" => s.sent[1] \in Wires
  BY ScriptFacts
<1>4. (IF s.method = "BulkInsert" THEN new ELSE p.msg) \in Requests(s.method)
  <2>1. CASE s.method = "BulkInsert"
    BY <2>1, NewInsertRequest DEF Requests, RequestFields
  <2>2. CASE s.method # "BulkInsert"
    BY <1>3, <2>2, RequestsParsed
  <2> QED BY <2>1, <2>2
<1> HIDE DEF new, p, parsed
<1>5. DataInv'
  BY <1>1, <1>2 DEF DataInv, authVars, dataVars, Statuses
<1>6. ASSUME NEW d \in Calls, d # c PROVE CallInv(d)'
  <2>1. CallInv(d)
    BY DEF ServiceInv
  <2>2. Untouched(d) /\ GrowsForOthers(d)
    BY <1>1, <1>2, <1>6 DEF Untouched, GrowsForOthers, dataVars, DataInv
  <2> QED BY <1>2, <2>1, <2>2, OtherCall
<1>7. /\ script'[c] = s /\ Method(c)' = s.method /\ stream'[c] = s.sent
      /\ req'[c] \in Requests(s.method) /\ resp'[c] = New(ResponseFields(s.method))
      /\ phase'[c] = (IF parsed THEN "arrived" ELSE "done")
      /\ status'[c] = (IF parsed THEN "none" ELSE "INTERNAL")
      /\ progress'[c] = 0 /\ outcome'[c] = <<>> /\ answer' = answer
      /\ index' = index
  BY <1>1, <1>2, <1>4 DEF DataInv, CallInv, CallFresh, Method, dataVars
<1>8. /\ \A t \in Shards : OfCall(index[t], c) = {} /\ StoredOf(index[t], c) = {}
      /\ status'[c] # "OK"
  BY <1>1, <1>2, <1>7 DEF CallInv, CallFresh, OfCall, StoredOf
<1>9. resp'[c] \in Responses(s.method)
  BY <1>3, <1>7, NewResponses
<1>10. CallTyped(c)'
  BY <1>7, <1>9 DEF CallTyped
<1>11. CallFresh(c)'
  <2>1. \A t \in Shards : \A k \in DOMAIN index'[t] : index'[t][k].call # c
    BY <1>7, <1>8 DEF OfCall
  <2> QED BY <1>7, <2>1 DEF CallFresh, OutFields
<1>12. CallAnswered(c)' /\ CallPlaced(c)' /\ CallFound(c)'
  BY <1>8 DEF CallAnswered, CallPlaced, CallFound
<1>13. CallStreams(c)'
  <2> SUFFICES ASSUME s.method = "BulkInsert"
               PROVE  (StreamRead(c) /\ StreamPlaced(c) /\ StreamCounted(c))'
    BY <1>7 DEF CallStreams
  <2>1. Read(c)' = 0 /\ Sent(c)' = s.sent /\ Len(s.sent) \in Nat
    BY <1>3, <1>7, EmptySeq, LenProperties DEF Read, Sent
  <2>2. StreamRead(c)'
    <3>1. SubSeq(s.sent, 0 + 1, Len(s.sent)) = s.sent
      BY <1>3, SubSeqFull
    <3> QED BY <1>7, <1>8, <2>1, <3>1 DEF StreamRead
  <2>3. StreamPlaced(c)'
    <3> SUFFICES ASSUME NEW t \in Shards
                 PROVE  Picked(index[t], Mine(c, t))' =
                          [n \in 1..Cardinality(KeptIn(c, t)) |-> SentAs(c, Nth(KeptIn(c, t), n))]'
      BY DEF StreamPlaced
    <3>1. Mine(c, t)' = {} /\ KeptIn(c, t)' = {}
      BY <1>7, <1>8, EmptySeq DEF Mine, OfCall, KeptIn
    <3>2. \A w, e : Picked(w, {}) = <<>> /\ [n \in 1..Cardinality({}) |-> e[n]] = <<>>
      BY FS_EmptySet DEF Picked
    <3>3. Picked(index[t], Mine(c, t))' = <<>>
      BY <3>1, <3>2
    <3>4. [n \in 1..Cardinality(KeptIn(c, t)) |-> SentAs(c, Nth(KeptIn(c, t), n))]' = <<>>
      BY <3>1, FS_EmptySet
    <3> QED BY <3>3, <3>4
  <2>4. StreamCounted(c)'
    <3>1. InIndex(c)' = {} /\ Taken(c)' = {}
      BY <1>7, <1>8 DEF InIndex, Taken, Places, StoredOf, OfCall
    <3>2. resp'[c].inserted = 0 /\ resp'[c].failed = 0
      BY <1>7, NewBulkInsertResponse DEF ResponseFields
    <3> QED BY <2>1, <3>1, <3>2, FS_EmptySet DEF StreamCounted
  <2> QED BY <2>2, <2>3, <2>4
<1>14. CallSums(c)'
  <2> SUFFICES ASSUME s.method = "GetInfo" PROVE CallSums(c)'
    BY <1>7 DEF CallSums
  <2>1. resp'[c].total_vectors = 0 /\ resp'[c].shards = <<>>
    BY <1>7, NewInfoResponse DEF ResponseFields
  <2>2. Len(resp'[c].shards) = 0 /\ ShardCount \in Nat /\ Narrow \in Nat
    BY <2>1, ConstantFacts, EmptySeq
  <2>3. \A k \in 1..ShardCount : SizeTold(c, k)' = 0
    BY <1>7, <2>2 DEF SizeTold
  <2>4. [k \in 1..ShardCount |-> SizeTold(c, k)]' \in [1..ShardCount -> Nat]
    BY <2>3
  <2>5. SumOf([k \in 1..ShardCount |-> SizeTold(c, k)])' \in Nat
    BY <2>2, <2>4, SumsCompare
  <2>6. 0 <= 0 * Narrow /\ 0 <= ShardCount * Narrow
    BY <2>2
  <2> QED BY <1>7, <1>8, <2>1, <2>2, <2>5, <2>6 DEF CallSums
<1>15. CallInv(c)'
  BY <1>10, <1>11, <1>12, <1>13, <1>14 DEF CallInv
<1> QED BY <1>5, <1>6, <1>15 DEF ServiceInv

LEMMA AdmittedStep == ASSUME ServiceInv, NEW c \in Calls, Admitted(c) PROVE ServiceInv'
<1>1. /\ phase[c] = "arrived" /\ phase' = [phase EXCEPT ![c] = "handler"]
      /\ UNCHANGED <<authVars, dataVars, script, stream, req, resp, status, answer, progress, outcome>>
  BY DEF Admitted
<1>2. DataInv /\ CallInv(c)
  BY DEF ServiceInv
<1>3. DataInv' /\ phase'[c] = "handler"
  BY <1>1, <1>2 DEF DataInv, authVars, dataVars
<1>4. ASSUME NEW d \in Calls, d # c PROVE CallInv(d)'
  <2>1. CallInv(d)
    BY DEF ServiceInv
  <2>2. Untouched(d) /\ GrowsForOthers(d)
    BY <1>1, <1>2, <1>4 DEF Untouched, GrowsForOthers, dataVars, DataInv
  <2> QED BY <1>2, <2>1, <2>2, OtherCall
<1>5. CallInv(c)'
  <2>1. index' = index /\ Method(c)' = Method(c)
    BY <1>1 DEF dataVars, Method
  <2>2. status'[c] # "OK" /\ status[c] # "OK"
    BY <1>1, <1>2 DEF CallInv, CallFresh
  <2>3. CallTyped(c)' /\ CallFresh(c)' /\ CallAnswered(c)' /\ CallPlaced(c)' /\ CallFound(c)'
    BY <1>1, <1>2, <1>3, <2>1, <2>2 DEF CallInv, CallTyped, CallFresh, CallAnswered, CallPlaced, CallFound
  <2>4. CallStreams(c)'
    <3> SUFFICES ASSUME Method(c) = "BulkInsert"
                 PROVE  (StreamRead(c) /\ StreamPlaced(c) /\ StreamCounted(c))'
      BY <2>1 DEF CallStreams
    <3>1. StreamRead(c) /\ StreamPlaced(c) /\ StreamCounted(c)
      BY <1>1, <1>2 DEF CallInv, CallStreams
    <3>2. StreamRead(c)'
      BY <1>1, <3>1 DEF StreamRead, Sent, Read, ReadAs
    <3>3. StreamPlaced(c)'
      <4> SUFFICES ASSUME NEW s \in Shards
                   PROVE  Picked(index[s], Mine(c, s))' =
                            [n \in 1..Cardinality(KeptIn(c, s)) |-> SentAs(c, Nth(KeptIn(c, s), n))]'
        BY DEF StreamPlaced
      <4>1. Picked(index[s], Mine(c, s))' = Picked(index[s], Mine(c, s))
        BY <2>1 DEF Mine
      <4>2. [n \in 1..Cardinality(KeptIn(c, s)) |-> SentAs(c, Nth(KeptIn(c, s), n))]' =
              [n \in 1..Cardinality(KeptIn(c, s)) |-> SentAs(c, Nth(KeptIn(c, s), n))]
        BY <1>1 DEF SentAs, KeptIn, Sent, ReadAs
      <4> QED BY <3>1, <4>1, <4>2 DEF StreamPlaced
    <3>4. StreamCounted(c)'
      <4>1. InIndex(c)' = InIndex(c) /\ Taken(c)' = Taken(c)
        BY <2>1 DEF InIndex, Taken
      <4> QED BY <1>1, <3>1, <4>1 DEF StreamCounted, Read
    <3> QED BY <3>2, <3>3, <3>4
  <2>5. CallSums(c)'
    <3>1. [k \in 1..ShardCount |-> SizeTold(c, k)]' = [k \in 1..ShardCount |-> SizeTold(c, k)]
      BY <1>1, <2>1 DEF SizeTold
    <3> QED BY <1>1, <1>2, <2>1, <3>1 DEF CallInv, CallSums
  <2> QED BY <2>3, <2>4, <2>5 DEF CallInv
<1> QED BY <1>3, <1>4, <1>5 DEF ServiceInv

\* What an insert does to the indexes.
LEMMA StoreFacts ==
    ASSUME DataInv, NEW c \in Calls, NEW m \in InsertRequests, Decodes(m.vector),
           NEW what \in Outcomes, Store(c, m, what)
    PROVE  LET s == ShardOf[m.vector_id]
               x == [id |-> m.vector_id, vec |-> m.vector, call |-> c, state |-> what]
           IN  /\ s \in Shards /\ (what \in Kept => x \in Nodes)
               /\ index' \in [Shards -> Seq(Nodes)] /\ healthy' = healthy
               /\ \A t \in Shards : Len(index'[t]) <= Narrow
               /\ index'[s] = (IF what \in Kept THEN Append(index[s], x) ELSE index[s])
               /\ \A t \in Shards \ {s} : index'[t] = index[t]
               /\ what \in Kept => Len(index[s]) < Narrow
               /\ \A d : d # c => GrowsForOthers(d)
<1> DEFINE s == ShardOf[m.vector_id]
           x == [id |-> m.vector_id, vec |-> m.vector, call |-> c, state |-> what]
<1>1. /\ what \in Kept => HasRoom(s)
      /\ index' = IF what \notin Kept THEN index ELSE [index EXCEPT ![s] = Append(@, x)]
      /\ UNCHANGED healthy
  BY Zenon DEF Store
<1>2. m.vector \in Vectors /\ m.vector_id \in UInt64
  <2>1. m.vector \in Seq(Words) /\ Len(m.vector) = Dim /\ m.vector_id \in UInt64
    BY DEF InsertRequests, Bytes, Decodes
  <2>2. DOMAIN m.vector = 1..Dim /\ \A k \in 1..Dim : m.vector[k] \in Words
    BY <2>1, LenProperties, ElementOfSeq
  <2>3. m.vector = [k \in DOMAIN m.vector |-> m.vector[k]]
    BY <2>1
  <2> QED BY <2>1, <2>2, <2>3 DEF Vectors
<1>3. s \in Shards /\ (what \in Kept => x \in Nodes)
  BY <1>2, ConstantFacts DEF Nodes
<1> HIDE DEF s, x
<1>4. index \in [Shards -> Seq(Nodes)]
  BY DEF DataInv
<1>5. /\ index'[s] = (IF what \in Kept THEN Append(index[s], x) ELSE index[s])
      /\ \A t \in Shards \ {s} : index'[t] = index[t]
      /\ what \in Kept => Len(index[s]) < Narrow
  BY <1>1, <1>3, <1>4 DEF HasRoom
<1>6. what \in Kept => /\ Append(index[s], x) \in Seq(Nodes)
                       /\ Len(Append(index[s], x)) = Len(index[s]) + 1 /\ Len(index[s]) \in Nat
  BY <1>3, <1>4, AppendProperties, LenProperties
<1>7. index' \in [Shards -> Seq(Nodes)]
  BY <1>1, <1>3, <1>4, <1>6
<1>8. ASSUME NEW t \in Shards PROVE Len(index'[t]) <= Narrow
  <2>1. Len(index[t]) <= Narrow /\ Narrow \in Nat
    BY ConstantFacts DEF DataInv
  <2>2. CASE t = s /\ what \in Kept
    BY <1>5, <1>6, <2>1, <2>2
  <2>3. CASE ~(t = s /\ what \in Kept)
    BY <1>5, <2>1, <2>3
  <2> QED BY <2>2, <2>3
<1>9. ASSUME NEW d, d # c PROVE GrowsForOthers(d)
  <2>1. x.call # d
    BY <1>9 DEF x
  <2> QED BY <1>3, <1>5, <2>1 DEF GrowsForOthers
<1> QED BY <1>1, <1>3, <1>5, <1>7, <1>8, <1>9 DEF s, x

LEMMA InsertEnds ==
    ASSUME ServiceInv, NEW c \in Calls, Serving(c, "Insert"), Decodes(req[c].vector),
           NEW what \in Outcomes, Store(c, req[c], what),
           outcome' = [outcome EXCEPT ![c] = Append(@, what)],
           NEW st \in Statuses, NEW m \in InsertResponses, Ends(c, st, m),
           UNCHANGED <<authVars, script, stream, req, progress>>,
           st = "OK" => /\ what = "stored"
                        /\ m.shard_id = ShardOf[req[c].vector_id]
                        /\ m.node_id = Len(index[ShardOf[req[c].vector_id]])
    PROVE  ServiceInv'
<1> DEFINE s == ShardOf[req[c].vector_id]
           x == [id |-> req[c].vector_id, vec |-> req[c].vector, call |-> c, state |-> what]
<1>1. /\ DataInv /\ CallInv(c) /\ Method(c) = "Insert" /\ phase[c] = "handler"
      /\ req[c] \in InsertRequests /\ Method(c) \in Methods /\ m \in Responses(Method(c))
  BY DEF ServiceInv, CallInv, CallTyped, Serving, Requests, Responses, Methods
<1>2. /\ s \in Shards /\ (what \in Kept => x \in Nodes)
      /\ index' \in [Shards -> Seq(Nodes)] /\ healthy' = healthy
      /\ \A t \in Shards : Len(index'[t]) <= Narrow
      /\ index'[s] = (IF what \in Kept THEN Append(index[s], x) ELSE index[s])
      /\ \A d : d # c => GrowsForOthers(d)
  BY <1>1, StoreFacts
<1>3. /\ phase' \in [Calls -> {"idle", "arrived", "handler", "done"}]
      /\ status' \in [Calls -> Statuses \cup {"none"}]
      /\ DOMAIN resp' = Calls /\ DOMAIN answer' = Calls
      /\ phase'[c] = "done" /\ status'[c] = st /\ resp'[c] = m
      /\ st = "OK" => answer'[c] = [ok |-> TRUE, msg |-> m]
      /\ \A d \in Calls \ {c} : /\ phase'[d] = phase[d] /\ status'[d] = status[d]
                                /\ resp'[d] = resp[d] /\ answer'[d] = answer[d]
  BY <1>1, EndsFacts
<1>4. outcome' \in [Calls -> Seq(Outcomes)] /\ \A d \in Calls \ {c} : outcome'[d] = outcome[d]
  <2>1. outcome \in [Calls -> Seq(Outcomes)] /\ what \in Outcomes
    BY <1>1 DEF DataInv
  <2>2. Append(outcome[c], what) \in Seq(Outcomes)
    BY <2>1, AppendProperties
  <2> QED BY <2>1, <2>2
<1> HIDE DEF s, x
<1>5. DataInv'
  BY <1>1, <1>2, <1>3, <1>4 DEF DataInv, authVars
<1>6. ASSUME NEW d \in Calls, d # c PROVE CallInv(d)'
  <2>1. CallInv(d)
    BY DEF ServiceInv
  <2>2. Untouched(d) /\ GrowsForOthers(d)
    BY <1>2, <1>3, <1>4, <1>6 DEF Untouched
  <2> QED BY <1>1, <2>1, <2>2, OtherCall
<1>7. CallInv(c)'
  <2>1. Method(c)' = "Insert" /\ script' = script /\ req' = req
    BY <1>1 DEF Method
  <2>2. CallTyped(c)' /\ CallFresh(c)' /\ CallAnswered(c)'
    BY <1>1, <1>3, <2>1 DEF CallInv, CallTyped, CallFresh, CallAnswered
  <2>3. CallStreams(c)' /\ CallFound(c)' /\ CallSums(c)'
    BY <2>1 DEF CallStreams, CallFound, CallSums
  <2>4. CallPlaced(c)'
    <3> SUFFICES ASSUME st = "OK"
                 PROVE  /\ m.shard_id \in Shards /\ m.node_id < Len(index'[m.shard_id])
                        /\ index'[m.shard_id][m.node_id + 1] = AskedBy(c)
      BY <1>3, <2>1 DEF CallPlaced, AskedBy
    <3>0. what = "stored" /\ what \in Kept
      BY DEF Kept
    <3>1. m.shard_id = s /\ m.node_id = Len(index[s]) /\ index'[s] = Append(index[s], x) /\ x \in Nodes
      BY <1>2, <3>0 DEF s
    <3>2. index[s] \in Seq(Nodes)
      BY <1>1, <1>2 DEF DataInv
    <3>3. /\ Len(index[s]) \in Nat /\ Len(index'[s]) = Len(index[s]) + 1
          /\ index'[s][Len(index[s]) + 1] = x
      BY <1>2, <3>1, <3>2, LenProperties, AppendProperties
    <3>4. x = AskedBy(c)
      BY <3>0 DEF x, AskedBy
    <3> QED BY <1>2, <3>1, <3>3, <3>4
  <2> QED BY <2>2, <2>3, <2>4 DEF CallInv
<1> QED BY <1>5, <1>6, <1>7 DEF ServiceInv

LEMMA InsertStoresStep == ASSUME ServiceInv, NEW c \in Calls, InsertStores(c) PROVE ServiceInv'
<1> DEFINE s == ShardOf[req[c].vector_id]
<1>1. PICK us \in Latencies :
        Ends(c, "OK", [resp[c] EXCEPT !.shard_id = s, !.node_id = NextNode(s), !.latency_us = us])
  BY DEF InsertStores
<1> DEFINE m == [resp[c] EXCEPT !.shard_id = s, !.node_id = NextNode(s), !.latency_us = us]
<1>2. /\ Serving(c, "Insert") /\ Decodes(req[c].vector) /\ Store(c, req[c], "stored")
      /\ outcome' = [outcome EXCEPT ![c] = Append(@, "stored")]
      /\ UNCHANGED <<authVars, script, stream, req, progress>>
  BY DEF InsertStores
<1>3. DataInv /\ resp[c] \in InsertResponses /\ req[c] \in InsertRequests
  BY <1>2 DEF ServiceInv, CallInv, CallTyped, Serving, Requests, Responses
<1>4. s \in Shards /\ Len(index[s]) < Narrow /\ "stored" \in Outcomes
  <2>1. "stored" \in Outcomes /\ "stored" \in Kept
    BY DEF Outcomes, Kept
  <2> QED BY <1>2, <1>3, <2>1, StoreFacts
<1>5. s \in UInt32 /\ NextNode(s) \in UInt32 /\ us \in Int64
  <2>1. index[s] \in Seq(Nodes) /\ Narrow \in Nat
    BY <1>3, <1>4, ConstantFacts DEF DataInv
  <2>2. Len(index[s]) \in Nat
    BY <2>1, LenProperties
  <2>3. NextNode(s) \in UInt32
    BY <1>4, <2>1, <2>2 DEF NextNode, UInt32
  <2> QED BY <1>4, <2>3, ConstantFacts
<1>6. m \in InsertResponses /\ m.shard_id = s /\ m.node_id = Len(index[s])
  <2> HIDE DEF s
  <2> QED BY <1>3, <1>5 DEF InsertResponses, NextNode
<1>7. Ends(c, "OK", m) /\ "OK" \in Statuses
  BY <1>1 DEF Statuses
<1> HIDE DEF m
<1> QED BY <1>2, <1>4, <1>6, <1>7, InsertEnds

LEMMA InsertThrowsStep == ASSUME ServiceInv, NEW c \in Calls, InsertThrows(c) PROVE ServiceInv'
<1>1. PICK what \in {"threw", "threw_copied", "threw_blank"} :
        Store(c, req[c], what) /\ outcome' = [outcome EXCEPT ![c] = Append(@, what)]
  BY DEF InsertThrows
<1>2. /\ Serving(c, "Insert") /\ Decodes(req[c].vector) /\ Ends(c, "UNKNOWN", resp[c])
      /\ UNCHANGED <<authVars, script, stream, req, progress>>
  BY DEF InsertThrows
<1>3. resp[c] \in InsertResponses
  BY <1>2 DEF ServiceInv, CallInv, CallTyped, Serving, Responses
<1>4. what \in Outcomes /\ "UNKNOWN" \in Statuses /\ "UNKNOWN" # "OK"
  BY DEF Statuses, Outcomes, Kept
<1> QED BY <1>1, <1>2, <1>3, <1>4, InsertEnds

LEMMA AppendMine ==
    ASSUME NEW S, NEW w \in Seq(S), NEW e \in S, NEW c, e.call = c
    PROVE  /\ OfCall(w, c) \in SUBSET (1..Len(w)) /\ Len(w) \in Nat
           /\ OfCall(Append(w, e), c) = OfCall(w, c) \cup {Len(w) + 1}
           /\ \A i \in 1..Len(w) : Append(w, e)[i] = w[i]
           /\ Append(w, e)[Len(w) + 1] = e
<1> DEFINE v == Append(w, e)
<1>1. /\ Len(w) \in Nat /\ DOMAIN w = 1..Len(w)
      /\ v \in Seq(S) /\ Len(v) = Len(w) + 1 /\ DOMAIN v = 1..Len(v)
      /\ \A i \in 1..Len(w) : v[i] = w[i]
      /\ v[Len(w) + 1] = e
  BY LenProperties, AppendProperties
<1>2. DOMAIN v = DOMAIN w \cup {Len(w) + 1}
  BY <1>1
<1> HIDE DEF v
<1>3. OfCall(w, c) \in SUBSET (1..Len(w)) /\ OfCall(v, c) = OfCall(w, c) \cup {Len(w) + 1}
  BY <1>1, <1>2 DEF OfCall
<1> QED BY <1>1, <1>3 DEF v

\* A message more that was given a node is a node more in its shard's index.
LEMMA PlacedGrows ==
    ASSUME NEW S, NEW w \in Seq(S), NEW e \in S, NEW c, e.call = c,
           NEW R \in Nat, NEW K \in SUBSET (1..R), NEW g, g[R + 1] = e,
           Picked(w, OfCall(w, c)) = Picked(g, K)
    PROVE  Picked(Append(w, e), OfCall(Append(w, e), c)) = Picked(g, K \cup {R + 1})
<1> DEFINE P == OfCall(w, c)
           v == Append(w, e)
<1>1. /\ P \in SUBSET (1..Len(w)) /\ Len(w) \in Nat
      /\ OfCall(v, c) = P \cup {Len(w) + 1}
      /\ \A i \in 1..Len(w) : v[i] = w[i]
      /\ v[Len(w) + 1] = e
  <2>1. /\ OfCall(w, c) \in SUBSET (1..Len(w)) /\ Len(w) \in Nat
        /\ OfCall(Append(w, e), c) = OfCall(w, c) \cup {Len(w) + 1}
    BY AppendMine, SMTT(30)
  <2>2. (\A i \in 1..Len(w) : Append(w, e)[i] = w[i]) /\ Append(w, e)[Len(w) + 1] = e
    BY AppendProperties
  <2> QED BY <2>1, <2>2
<1> HIDE DEF P, v
<1>2. PICK N \in Nat : N = Len(w)
  BY <1>1
<1>3. /\ Cardinality(P \cup {N + 1}) = Cardinality(P) + 1
      /\ \A n \in 1..Cardinality(P) : Nth(P \cup {N + 1}, n) = Nth(P, n)
      /\ Nth(P \cup {N + 1}, Cardinality(P) + 1) = N + 1
  BY <1>1, <1>2, NthGrows
<1>4. /\ Cardinality(K \cup {R + 1}) = Cardinality(K) + 1
      /\ \A n \in 1..Cardinality(K) : Nth(K \cup {R + 1}, n) = Nth(K, n)
      /\ Nth(K \cup {R + 1}, Cardinality(K) + 1) = R + 1
  BY NthGrows
<1>5. PICK a \in Nat, b \in Nat : a = Cardinality(P) /\ b = Cardinality(K)
  <2>1. Cardinality(P) \in 0..N
    BY <1>1, <1>2, RankFacts
  <2>2. Cardinality(K) \in 0..R
    BY RankFacts
  <2> QED BY <1>2, <2>1, <2>2
<1>6. \A n \in 1..a : Nth(P, n) \in P
  BY <1>1, <1>2, <1>5, NthFacts
<1>7. [n \in 1..a |-> w[Nth(P, n)]] = [n \in 1..b |-> g[Nth(K, n)]]
  BY <1>5 DEF Picked, P
<1>8. a = b
  <2>1. 1..a = 1..b
    BY <1>7
  <2> QED BY <2>1
<1>9. \A n \in 1..a : w[Nth(P, n)] = g[Nth(K, n)]
  BY <1>7, <1>8
<1>10. ASSUME NEW n \in 1..(a + 1)
       PROVE  v[Nth(P \cup {N + 1}, n)] = g[Nth(K \cup {R + 1}, n)]
  <2>1. CASE n = a + 1
    BY <1>1, <1>2, <1>3, <1>4, <1>5, <1>8, <2>1
  <2>2. CASE n \in 1..a
    <3>1. Nth(P \cup {N + 1}, n) = Nth(P, n) /\ Nth(K \cup {R + 1}, n) = Nth(K, n)
      BY <1>3, <1>4, <1>5, <1>8, <2>2
    <3>2. v[Nth(P, n)] = w[Nth(P, n)]
      BY <1>1, <1>6, <2>2
    <3> QED BY <1>9, <2>2, <3>1, <3>2
  <2> QED BY <2>1, <2>2
<1>11. Picked(v, P \cup {N + 1}) = [n \in 1..(a + 1) |-> v[Nth(P \cup {N + 1}, n)]]
  BY <1>3, <1>5 DEF Picked
<1>12. Picked(v, P \cup {N + 1}) = [n \in 1..(a + 1) |-> g[Nth(K \cup {R + 1}, n)]]
  BY <1>10, <1>11
<1>13. Cardinality(K \cup {R + 1}) = a + 1
  BY <1>4, <1>5, <1>8
<1> QED BY <1>1, <1>2, <1>12, <1>13 DEF v, Picked

\* A place more in one shard is one more of the places of all shards.
LEMMA PairsGrow ==
    ASSUME NEW f, NEW g, NEW s \in Shards, NEW a, GrowsAt(f, g, s, a), IsFiniteSet(Places(f))
    PROVE  IsFiniteSet(Places(g)) /\ Cardinality(Places(g)) = Cardinality(Places(f)) + 1
<1> DEFINE F == UNION {{t} \X f[t] : t \in Shards}
           G == UNION {{t} \X g[t] : t \in Shards}
<1>1. \A t \in Shards : {t} \X g[t] = ({t} \X f[t]) \cup (IF t = s THEN {<<s, a>>} ELSE {})
  <2>1. \A A : {s} \X (A \cup {a}) = ({s} \X A) \cup {<<s, a>>}
    OBVIOUS
  <2>2. {s} \X g[s] = ({s} \X f[s]) \cup {<<s, a>>}
    BY <2>1 DEF GrowsAt
  <2> QED BY <2>2 DEF GrowsAt
<1>2. \A q : q \in G <=> \E t \in Shards : q \in {t} \X g[t]
  OBVIOUS
<1>3. \A q : q \in F <=> \E t \in Shards : q \in {t} \X f[t]
  OBVIOUS
<1>4. <<s, a>> \notin F
  BY DEF GrowsAt
<1> HIDE DEF F, G
<1>5. ASSUME NEW q PROVE q \in G <=> q \in F \/ q = <<s, a>>
  <2>1. ASSUME NEW t \in Shards
        PROVE  q \in {t} \X g[t] <=> q \in {t} \X f[t] \/ (t = s /\ q = <<s, a>>)
    <3>1. {t} \X g[t] = ({t} \X f[t]) \cup (IF t = s THEN {<<s, a>>} ELSE {})
      BY <1>1
    <3> QED BY <3>1, Zenon
  <2> QED BY <1>2, <1>3, <2>1, Zenon
<1>6. G = F \cup {<<s, a>>}
  BY <1>5
<1>7. IsFiniteSet(F)
  BY DEF F, Places
<1>8. IsFiniteSet(G) /\ Cardinality(G) = Cardinality(F) + 1
  <2>1. \A K, q : IsFiniteSet(K) /\ q \notin K =>
          IsFiniteSet(K \cup {q}) /\ Cardinality(K \cup {q}) = Cardinality(K) + 1
    BY FS_AddElement
  <2> QED BY <1>4, <1>6, <1>7, <2>1, Zenon
<1> QED BY <1>8 DEF F, G, Places

LEMMA BulkReadStep == ASSUME ServiceInv, NEW c \in Calls, BulkRead(c) PROVE ServiceInv'
<1> DEFINE m == ReadNext(c).msg
           s == ShardOf[m.vector_id]
<1>1. PICK what \in Outcomes :
        /\ what = "bad_size" <=> ~Decodes(m.vector)
        /\ IF what = "bad_size" THEN UNCHANGED dataVars ELSE Store(c, m, what)
        /\ outcome' = [outcome EXCEPT ![c] = Append(@, what)]
        /\ resp' = [resp EXCEPT ![c][Counter(what)] = @ + 1]
  BY Zenon DEF BulkRead
<1> DEFINE x == [id |-> m.vector_id, vec |-> m.vector, call |-> c, state |-> what]
<1>2. /\ Method(c) = "BulkInsert" /\ phase[c] = "handler"
      /\ stream[c] # <<>> /\ ReadNext(c).ok
      /\ req' = [req EXCEPT ![c] = m] /\ stream' = [stream EXCEPT ![c] = Tail(@)]
      /\ UNCHANGED <<authVars, phase, script, status, answer, progress>>
  BY DEF BulkRead, Serving, CanRead
<1>3. /\ DataInv /\ CallInv(c) /\ script[c] \in Scripts /\ resp[c] \in BulkInsertResponses
      /\ StreamRead(c) /\ StreamPlaced(c) /\ StreamCounted(c) /\ status[c] # "OK"
  BY <1>2 DEF ServiceInv, CallInv, CallTyped, CallAnswered, CallStreams, Responses
<1>4. PICK R \in Nat, N \in Nat : R = Read(c) /\ N = Len(Sent(c))
  <2>1. Read(c) \in Nat
    BY <1>3, LenProperties DEF DataInv, Read
  <2>2. Len(Sent(c)) \in Nat
    BY <1>3, ScriptFacts DEF Sent
  <2> QED BY <2>1, <2>2
<1>5. /\ R + 1 \in 1..N /\ Tail(stream[c]) = SubSeq(Sent(c), R + 2, N)
      /\ ReadNext(c) = ReadAs(Sent(c)[R + 1])
  BY <1>2, <1>3, <1>4, StreamNext
<1>6. ReadAs(Sent(c)[R + 1]).ok /\ m = ReadAs(Sent(c)[R + 1]).msg
  BY <1>2, <1>5
<1>7. m \in InsertRequests /\ N < Wide
  <2>1. Sent(c)[R + 1] \in Wires /\ N < Wide
    BY <1>3, <1>4, <1>5, ScriptFacts DEF Sent
  <2>2. ParseFrom(RequestFields("BulkInsert"), New(InsertRequestFields), Sent(c)[R + 1]).msg
          \in Requests("BulkInsert")
    BY <2>1, RequestsParsed DEF Methods
  <2>3. m \in InsertRequests
    BY <1>5, <2>2 DEF ReadAs, Requests, RequestFields
  <2> QED BY <2>1, <2>3
<1> HIDE DEF m
<1>8. /\ index' \in [Shards -> Seq(Nodes)]
      /\ healthy' \in [Shards -> BOOLEAN]
      /\ \A t \in Shards : Len(index'[t]) <= Narrow
      /\ \A d : d # c => GrowsForOthers(d)
      /\ what \in Kept => s \in Shards /\ x \in Nodes /\ index'[s] = Append(index[s], x)
      /\ \A t \in Shards : ~(what \in Kept /\ t = s) => index'[t] = index[t]
  <2>1. CASE what = "bad_size"
    <3>1. index' = index /\ healthy' = healthy /\ what \notin Kept
      BY <1>1, <2>1 DEF dataVars, Kept
    <3> QED BY <1>3, <3>1 DEF DataInv, GrowsForOthers
  <2>2. CASE what # "bad_size"
    <3>1. Decodes(m.vector) /\ Store(c, m, what)
      BY <1>1, <2>2
    <3>2. /\ s \in Shards /\ (what \in Kept => x \in Nodes)
          /\ index' \in [Shards -> Seq(Nodes)] /\ healthy' = healthy
          /\ \A t \in Shards : Len(index'[t]) <= Narrow
          /\ index'[s] = (IF what \in Kept THEN Append(index[s], x) ELSE index[s])
          /\ \A t \in Shards \ {s} : index'[t] = index[t]
          /\ \A d : d # c => GrowsForOthers(d)
      <4>1. DataInv /\ m \in InsertRequests
        BY <1>3, <1>7
      <4> QED BY <3>1, <4>1, StoreFacts, ZenonT(60)
    <3> HIDE DEF s, x
    <3> QED BY <1>3, <3>2 DEF DataInv
  <2> QED BY <2>1, <2>2
<1>9. /\ outcome' \in [Calls -> Seq(Outcomes)] /\ \A d \in Calls \ {c} : outcome'[d] = outcome[d]
      /\ outcome'[c] = Append(outcome[c], what)
      /\ DOMAIN outcome[c] = 1..R /\ DOMAIN outcome'[c] = 1..(R + 1) /\ Len(outcome'[c]) = R + 1
      /\ \A k \in 1..R : outcome'[c][k] = outcome[c][k]
      /\ outcome'[c][R + 1] = what
  <2>1. outcome \in [Calls -> Seq(Outcomes)]
    BY <1>3 DEF DataInv
  <2>2. /\ Append(outcome[c], what) \in Seq(Outcomes)
        /\ Len(Append(outcome[c], what)) = R + 1
        /\ \A k \in 1..R : Append(outcome[c], what)[k] = outcome[c][k]
        /\ Append(outcome[c], what)[R + 1] = what
    BY <1>4, <2>1, AppendProperties DEF Read
  <2>3. DOMAIN outcome[c] = 1..R /\ DOMAIN Append(outcome[c], what) = 1..(R + 1)
    BY <1>4, <2>1, <2>2, LenProperties DEF Read
  <2>4. outcome'[c] = Append(outcome[c], what) /\ \A d \in Calls \ {c} : outcome'[d] = outcome[d]
    BY <1>1, <2>1
  <2>5. outcome' \in [Calls -> Seq(Outcomes)]
    BY <1>1, <2>1, <2>2
  <2> QED BY <2>2, <2>3, <2>4, <2>5
<1> HIDE DEF s, x
<1>10. /\ DataInv' /\ Method(c)' = "BulkInsert" /\ Sent(c)' = Sent(c) /\ Read(c)' = R + 1
       /\ phase'[c] = "handler" /\ status'[c] = status[c] /\ stream'[c] = Tail(stream[c])
       /\ req'[c] = m
  <2>1. DOMAIN resp' = Calls /\ DOMAIN stream' = Calls /\ DOMAIN req' = Calls
    BY <1>1, <1>2, <1>3 DEF DataInv
  <2>2. DataInv'
    BY <1>2, <1>3, <1>8, <1>9, <2>1 DEF DataInv, authVars
  <2>3. stream'[c] = Tail(stream[c]) /\ req'[c] = m
    BY <1>2, <1>3 DEF DataInv
  <2> QED BY <1>2, <1>9, <2>2, <2>3 DEF Method, Sent, Read
<1>11. ASSUME NEW d \in Calls, d # c PROVE CallInv(d)'
  <2>1. CallInv(d)
    BY DEF ServiceInv
  <2>2. Untouched(d) /\ GrowsForOthers(d)
    BY <1>1, <1>2, <1>3, <1>8, <1>9, <1>11 DEF Untouched, DataInv
  <2> QED BY <1>3, <2>1, <2>2, OtherCall
<1>12. StreamRead(c)'
  <2>1. ASSUME NEW k \in 1..(R + 1) PROVE ReadAs(Sent(c)[k]).ok
    <3>1. CASE k = R + 1
      BY <1>6, <3>1
    <3>2. CASE k \in 1..R
      BY <1>3, <1>4, <3>2 DEF StreamRead
    <3>3. k = R + 1 \/ k \in 1..R
      OBVIOUS
    <3> QED BY <3>1, <3>2, <3>3
  <2>2. R + 1 <= N /\ (R + 1) + 1 = R + 2
    BY <1>5
  <2> QED BY <1>3, <1>4, <1>5, <1>10, <2>1, <2>2 DEF StreamRead, ReadAs
<1>13. StreamPlaced(c)'
  <2> SUFFICES ASSUME NEW t \in Shards
               PROVE  Picked(index'[t], OfCall(index'[t], c)) =
                        [n \in 1..Cardinality(KeptIn(c, t)) |-> SentAs(c, Nth(KeptIn(c, t), n))]'
    BY DEF StreamPlaced, Mine
  <2> DEFINE takes == what \in Kept /\ t = s
             J == KeptIn(c, t)
             K == IF takes THEN J \cup {R + 1} ELSE J
             g == [k \in 1..(R + 1) |-> SentAs(c, k)']
  <2>1. J \in SUBSET (1..R) /\ K \in SUBSET (1..(R + 1)) /\ R + 1 \in Nat
    <3>1. J \in SUBSET (1..R)
      BY <1>9 DEF KeptIn
    <3>2. R + 1 \in Nat /\ R + 1 \in 1..(R + 1) /\ \A k \in 1..R : k \in 1..(R + 1)
      BY <1>4
    <3> HIDE DEF J
    <3>3. J \cup {R + 1} \in SUBSET (1..(R + 1)) /\ J \in SUBSET (1..(R + 1))
      BY <3>1, <3>2
    <3> QED BY <3>1, <3>2, <3>3
  <2>2. KeptIn(c, t)' = K
    <3>1. \A k : k \in DOMAIN outcome'[c] <=> k \in DOMAIN outcome[c] \/ k = R + 1
      BY <1>9
    <3>2. R + 1 \notin DOMAIN outcome[c] /\ \A k \in DOMAIN outcome[c] : outcome'[c][k] = outcome[c][k]
      BY <1>9
    <3>3. ShardOf[ReadAs(Sent(c)[R + 1]).msg.vector_id] = s
      BY <1>6 DEF s
    <3>4. KeptIn(c, t)' = {k \in DOMAIN outcome'[c] : /\ outcome'[c][k] \in Kept
                                                     /\ ShardOf[ReadAs(Sent(c)[k]).msg.vector_id] = t}
      BY <1>10 DEF KeptIn, ReadAs
    <3> QED BY <1>9, <3>1, <3>2, <3>3, <3>4 DEF KeptIn
  <2>3. g[R + 1] = x /\ \A k \in 1..R : g[k] = SentAs(c, k)
    <3>1. \A k : SentAs(c, k)' = [id |-> ReadAs(Sent(c)[k]).msg.vector_id, vec |-> ReadAs(Sent(c)[k]).msg.vector,
                                 call |-> c, state |-> outcome'[c][k]]
      BY <1>10 DEF SentAs, ReadAs
    <3>2. SentAs(c, R + 1)' = x
      BY <1>6, <1>9, <3>1 DEF x
    <3>3. \A k \in 1..R : SentAs(c, k)' = SentAs(c, k)
      BY <1>9, <3>1 DEF SentAs
    <3>4. R + 1 \in 1..(R + 1) /\ \A k \in 1..R : k \in 1..(R + 1)
      BY <1>4
    <3> QED BY <3>2, <3>3, <3>4
  <2>4. [n \in 1..Cardinality(KeptIn(c, t)) |-> SentAs(c, Nth(KeptIn(c, t), n))]' = Picked(g, K)
    <3> DEFINE e(k) == [id |-> ReadAs(Sent(c)[k]).msg.vector_id, vec |-> ReadAs(Sent(c)[k]).msg.vector,
                        call |-> c, state |-> outcome'[c][k]]
    <3>1. [n \in 1..Cardinality(KeptIn(c, t)) |-> SentAs(c, Nth(KeptIn(c, t), n))]' =
            [n \in 1..Cardinality(KeptIn(c, t)') |-> e(Nth(KeptIn(c, t)', n))]
      BY <1>10 DEF SentAs, KeptIn, Sent, ReadAs
    <3>2. \A k \in 1..(R + 1) : g[k] = e(k)
      BY <1>10 DEF SentAs, ReadAs
    <3> HIDE DEF K, J, e
    <3>3. \A n \in 1..Cardinality(K) : Nth(K, n) \in 1..(R + 1)
      BY <2>1, NthFacts
    <3>4. \A n \in 1..Cardinality(K) : g[Nth(K, n)] = e(Nth(K, n))
      BY <3>2, <3>3
    <3> HIDE DEF g
    <3> QED BY <2>2, <3>1, <3>4 DEF Picked
  <2>5. Picked(index[t], OfCall(index[t], c)) = Picked(g, J)
    <3>1. Picked(index[t], OfCall(index[t], c)) = [n \in 1..Cardinality(J) |-> SentAs(c, Nth(J, n))]
      BY <1>3 DEF StreamPlaced, Mine
    <3> HIDE DEF K, J
    <3>2. \A n \in 1..Cardinality(J) : Nth(J, n) \in 1..R
      BY <2>1, NthFacts
    <3> HIDE DEF g
    <3>3. \A n \in 1..Cardinality(J) : g[Nth(J, n)] = SentAs(c, Nth(J, n))
      BY <2>3, <3>2
    <3> QED BY <3>1, <3>3 DEF Picked
  <2>6. CASE takes
    <3>1. K = J \cup {R + 1} /\ index'[t] = Append(index[t], x) /\ x \in Nodes /\ x.call = c
      BY <1>8, <2>6 DEF x
    <3>2. index[t] \in Seq(Nodes)
      BY <1>3 DEF DataInv
    <3> HIDE DEF g, K, J
    <3>3. Picked(Append(index[t], x), OfCall(Append(index[t], x), c)) = Picked(g, J \cup {R + 1})
      BY <1>4, <2>1, <2>3, <2>5, <3>1, <3>2, PlacedGrows
    <3> QED BY <2>4, <3>1, <3>3
  <2>7. CASE ~takes
    <3>1. K = J /\ index'[t] = index[t]
      BY <1>8, <2>7
    <3> HIDE DEF g, K, J
    <3> QED BY <2>4, <2>5, <3>1
  <2> QED BY <2>6, <2>7
<1>14. StreamCounted(c)'
  <2>1. resp'[c] = [resp[c] EXCEPT ![Counter(what)] = resp[c][Counter(what)] + 1]
    BY <1>1, <1>3 DEF DataInv
  <2>2. /\ resp[c].inserted \in Nat /\ resp[c].failed \in Nat
        /\ resp[c].inserted + resp[c].failed = R
        /\ IsFiniteSet(InIndex(c)) /\ resp[c].inserted = Cardinality(InIndex(c))
        /\ IsFiniteSet(Taken(c)) /\ Cardinality(Taken(c)) <= R /\ Cardinality(Taken(c)) \in Nat
    BY <1>3, <1>4, ConstantFacts, FS_CardinalityType DEF StreamCounted, BulkInsertResponses, UInt64
  <2>3. what \in Kept =>
          /\ OfCall(index'[s], c) = OfCall(index[s], c) \cup {Len(index[s]) + 1}
          /\ Len(index[s]) + 1 \notin OfCall(index[s], c)
          /\ what = "stored" => StoredOf(index'[s], c) = StoredOf(index[s], c) \cup {Len(index[s]) + 1}
          /\ what # "stored" => StoredOf(index'[s], c) = StoredOf(index[s], c)
    <3> SUFFICES ASSUME what \in Kept
                 PROVE  /\ OfCall(index'[s], c) = OfCall(index[s], c) \cup {Len(index[s]) + 1}
                        /\ Len(index[s]) + 1 \notin OfCall(index[s], c)
                        /\ what = "stored" => StoredOf(index'[s], c) = StoredOf(index[s], c) \cup {Len(index[s]) + 1}
                        /\ what # "stored" => StoredOf(index'[s], c) = StoredOf(index[s], c)
      OBVIOUS
    <3>1. index[s] \in Seq(Nodes) /\ x \in Nodes /\ x.call = c /\ x.state = what
      BY <1>3, <1>8 DEF DataInv, x
    <3>2. PICK w \in Seq(Nodes), e \in Nodes, len \in Nat, v \in {index'[s]} :
            w = index[s] /\ v = index'[s] /\ e = x /\ len = Len(w)
      <4>1. Len(index[s]) \in Nat
        BY <3>1, LenProperties
      <4> HIDE DEF x
      <4> QED BY <3>1, <4>1
    <3>3. v = Append(w, e) /\ e.call = c /\ e.state = what
      BY <1>8, <3>1, <3>2
    <3> HIDE DEF x
    <3>4. /\ OfCall(w, c) \in SUBSET (1..len)
          /\ OfCall(v, c) = OfCall(w, c) \cup {len + 1}
          /\ (\A i \in 1..len : v[i] = w[i]) /\ v[len + 1] = e
      <4>1. w \in Seq(Nodes) /\ e \in Nodes /\ e.call = c
        BY <3>2, <3>3
      <4>2. /\ OfCall(w, c) \in SUBSET (1..Len(w)) /\ Len(w) \in Nat
            /\ OfCall(Append(w, e), c) = OfCall(w, c) \cup {Len(w) + 1}
            /\ \A i \in 1..Len(w) : Append(w, e)[i] = w[i]
            /\ Append(w, e)[Len(w) + 1] = e
        BY <4>1, AppendMine
      <4> QED BY <3>2, <3>3, <4>2
    <3>5. \A i \in OfCall(w, c) : v[i] = w[i]
      BY <3>4
    <3>6. len + 1 \notin OfCall(w, c)
      BY <3>2, <3>4
    <3>7. /\ what = "stored" => StoredOf(v, c) = StoredOf(w, c) \cup {len + 1}
          /\ what # "stored" => StoredOf(v, c) = StoredOf(w, c)
      BY <3>3, <3>4, <3>5, <3>6 DEF StoredOf
    <3> QED BY <3>2, <3>4, <3>6, <3>7
  <2>4. \A t \in Shards : ~(what \in Kept /\ t = s) =>
          OfCall(index'[t], c) = OfCall(index[t], c) /\ StoredOf(index'[t], c) = StoredOf(index[t], c)
    BY <1>8
  <2>5. IsFiniteSet(Taken(c)') /\ Cardinality(Taken(c)') <= R + 1
    <3>1. PICK f, h : /\ f = [t \in Shards |-> OfCall(index[t], c)]
                      /\ h = [t \in Shards |-> OfCall(index'[t], c)]
      OBVIOUS
    <3>2. /\ Taken(c) = Places(f)
          /\ Taken(c)' = Places(h)
      BY <3>1 DEF Taken
    <3>3. CASE what \in Kept
      <4>1. PICK a, u : a = Len(index[s]) + 1 /\ u = s
        OBVIOUS
      <4>2. u \in Shards /\ GrowsAt(f, h, u, a)
        BY <1>8, <2>3, <2>4, <3>1, <3>3, <4>1 DEF GrowsAt
      <4>3. IsFiniteSet(Places(f))
        BY <2>2, <3>2
      <4>4. IsFiniteSet(Places(h)) /\ Cardinality(Places(h)) = Cardinality(Places(f)) + 1
        BY <4>2, <4>3, PairsGrow
      <4>5. IsFiniteSet(Taken(c)') /\ Cardinality(Taken(c)') = Cardinality(Taken(c)) + 1
        BY <3>2, <4>4
      <4> QED BY <1>4, <2>2, <4>5
    <3>4. CASE what \notin Kept
      <4>1. \A t \in Shards : OfCall(index'[t], c) = OfCall(index[t], c)
        BY <2>4, <3>4
      <4>2. Taken(c)' = Taken(c)
        BY <4>1 DEF Taken
      <4> QED BY <1>4, <2>2, <4>2
    <3> QED BY <3>3, <3>4
  <2>6. CASE what = "stored"
    <3>1. resp'[c].inserted = resp[c].inserted + 1 /\ resp'[c].failed = resp[c].failed
      BY <1>3, <2>1, <2>6 DEF Counter, BulkInsertResponses
    <3>2. PICK f, h : /\ f = [t \in Shards |-> StoredOf(index[t], c)]
                      /\ h = [t \in Shards |-> StoredOf(index'[t], c)]
      OBVIOUS
    <3>3. /\ InIndex(c) = Places(f)
          /\ InIndex(c)' = Places(h)
      BY <3>2 DEF InIndex
    <3>4. what \in Kept
      BY <2>6 DEF Kept
    <3>5. PICK a, u : a = Len(index[s]) + 1 /\ u = s
      OBVIOUS
    <3>6. u \in Shards /\ GrowsAt(f, h, u, a)
      <4>1. a \notin StoredOf(index[s], c)
        BY <2>3, <3>4, <3>5 DEF StoredOf
      <4> QED BY <1>8, <2>3, <2>4, <2>6, <3>2, <3>4, <3>5, <4>1 DEF GrowsAt
    <3>7. IsFiniteSet(Places(f))
      BY <2>2, <3>3
    <3>8. IsFiniteSet(Places(h)) /\ Cardinality(Places(h)) = Cardinality(Places(f)) + 1
      BY <3>6, <3>7, PairsGrow
    <3>9. IsFiniteSet(InIndex(c)') /\ Cardinality(InIndex(c)') = Cardinality(InIndex(c)) + 1
      BY <3>3, <3>8
    <3> QED BY <1>10, <2>2, <2>5, <3>1, <3>9 DEF StreamCounted
  <2>7. CASE what # "stored"
    <3>1. resp'[c].inserted = resp[c].inserted /\ resp'[c].failed = resp[c].failed + 1
      BY <1>3, <2>1, <2>7 DEF Counter, BulkInsertResponses
    <3>2. \A t \in Shards : StoredOf(index'[t], c) = StoredOf(index[t], c)
      BY <2>3, <2>4, <2>7
    <3>3. InIndex(c)' = InIndex(c)
      BY <3>2 DEF InIndex
    <3> QED BY <1>10, <2>2, <2>5, <3>1, <3>3 DEF StreamCounted
  <2> QED BY <2>6, <2>7
<1>15. resp'[c] \in BulkInsertResponses
  <2>1. resp'[c] = [resp[c] EXCEPT ![Counter(what)] = resp[c][Counter(what)] + 1]
    BY <1>1, <1>3 DEF DataInv
  <2>2. /\ resp[c].inserted \in Nat /\ resp[c].failed \in Nat
        /\ resp[c].inserted + resp[c].failed = R
    BY <1>3, <1>4, ConstantFacts DEF StreamCounted, BulkInsertResponses, UInt64
  <2>3. Wide \in Nat /\ R + 1 < Wide
    BY <1>5, <1>7, ConstantFacts
  <2>4. resp[c].inserted + 1 \in UInt64 /\ resp[c].failed + 1 \in UInt64
    BY <2>2, <2>3 DEF UInt64
  <2>5. Counter(what) = "inserted" \/ Counter(what) = "failed"
    BY DEF Counter
  <2> QED BY <1>3, <2>1, <2>4, <2>5 DEF BulkInsertResponses
<1>16. CallInv(c)'
  <2>1. CallTyped(c)'
    BY <1>2, <1>3, <1>7, <1>10, <1>15 DEF CallTyped, Requests, Responses
  <2>2. CallFresh(c)' /\ CallAnswered(c)' /\ CallPlaced(c)' /\ CallFound(c)' /\ CallSums(c)'
    BY <1>3, <1>10 DEF CallFresh, CallAnswered, CallPlaced, CallFound, CallSums
  <2>3. CallStreams(c)'
    BY <1>12, <1>13, <1>14 DEF CallStreams
  <2> QED BY <2>1, <2>2, <2>3 DEF CallInv
<1> QED BY <1>10, <1>11, <1>16 DEF ServiceInv

LEMMA SumRaised ==
    ASSUME NEW n \in Nat, NEW s \in [1..n -> Nat], NEW p \in 1..n, NEW x \in Nat
    PROVE  SumOf(s) \in Nat /\ SumOf([s EXCEPT ![p] = s[p] + x]) = SumOf(s) + x
<1> DEFINE t == [s EXCEPT ![p] = s[p] + x]
<1>1. t \in [1..n -> Nat] /\ t[p] = s[p] + x /\ \A k \in 1..n : k # p => t[k] = s[k]
  OBVIOUS
<1> HIDE DEF t
<1>2. SumOf(s) \in Nat /\ SumOf(t) = SumOf(s) + x
  BY <1>1, SumBumped
<1> QED BY <1>2 DEF t

LEMMA InfoReadsStep == ASSUME ServiceInv, NEW c \in Calls, InfoReads(c) PROVE ServiceInv'
<1>1. /\ Method(c) = "GetInfo" /\ phase[c] = "handler" /\ progress[c] < 2 * ShardCount
      /\ progress' = [progress EXCEPT ![c] = @ + 1]
      /\ LET s == progress[c] % ShardCount
         IN  resp' = IF InTotalLoop(progress[c])
                     THEN [resp EXCEPT ![c].total_vectors = @ + Len(index[s])]
                     ELSE [resp EXCEPT ![c].shards = Append(@,
                             [shard_id |-> s, vector_count |-> Len(index[s]),
                              status |-> "", unknown |-> <<>>])]
      /\ UNCHANGED <<authVars, dataVars, phase, script, stream, req, status, answer, outcome>>
  BY DEF InfoReads, Serving
<1>2. /\ DataInv /\ CallInv(c) /\ script[c] \in Scripts /\ resp[c] \in InfoResponses /\ status[c] # "OK"
  BY <1>1 DEF ServiceInv, CallInv, CallTyped, CallAnswered, Responses
<1>3. PICK p \in Nat, C \in Nat \ {0}, W \in Nat \ {0} : p = progress[c] /\ C = ShardCount /\ W = Narrow
  BY <1>2, ConstantFacts DEF DataInv
<1>4. /\ p < 2 * C /\ C \in UInt32 /\ C * W < Wide /\ Wide \in Nat /\ W < Wide
      /\ \A k \in 0..(C - 1) : k \in Shards /\ k \in UInt32
  BY <1>1, <1>3, ConstantFacts DEF Shards
<1>5. /\ Len(resp[c].shards) = (IF p <= C THEN 0 ELSE p - C)
      /\ resp[c].total_vectors <= SumOf([k \in 1..C |-> SizeTold(c, k)])
      /\ resp[c].total_vectors <= p * W /\ resp[c].total_vectors <= C * W
  BY <1>1, <1>2, <1>3 DEF CallInv, CallSums
<1>6. /\ resp[c].total_vectors \in Nat /\ resp[c].shards \in Seq(ShardInfos)
      /\ resp[c].total_vectors \in UInt64
  BY <1>2, ConstantFacts DEF InfoResponses, UInt64
<1>7. \A k \in 0..(C - 1) : Len(index[k]) \in Nat /\ Len(index[k]) <= W /\ Len(index[k]) \in UInt64
  <2> SUFFICES ASSUME NEW k \in 0..(C - 1)
               PROVE  Len(index[k]) \in Nat /\ Len(index[k]) <= W /\ Len(index[k]) \in UInt64
    OBVIOUS
  <2>1. index[k] \in Seq(Nodes) /\ Len(index[k]) <= W
    BY <1>2, <1>3, <1>4 DEF DataInv
  <2>2. Len(index[k]) \in Nat
    BY <2>1, LenProperties
  <2> QED BY <1>4, <2>1, <2>2 DEF UInt64
<1>8. /\ progress'[c] = p + 1 /\ progress' \in [Calls -> 0..(2 * ShardCount)]
      /\ \A d \in Calls \ {c} : progress'[d] = progress[d] /\ resp'[d] = resp[d]
      /\ DOMAIN resp' = Calls /\ index' = index /\ Method(c)' = Method(c)
      /\ phase'[c] = "handler" /\ status'[c] = status[c]
  <2>1. progress \in [Calls -> 0..(2 * ShardCount)] /\ DOMAIN resp = Calls
    BY <1>2 DEF DataInv
  <2>2. p + 1 \in 0..(2 * ShardCount)
    BY <1>3, <1>4
  <2> QED BY <1>1, <1>3, <2>1, <2>2 DEF dataVars, Method
<1>9. DataInv'
  BY <1>1, <1>2, <1>8 DEF DataInv, authVars, dataVars
<1>10. ASSUME NEW d \in Calls, d # c PROVE CallInv(d)'
  <2>1. CallInv(d)
    BY DEF ServiceInv
  <2>2. Untouched(d) /\ GrowsForOthers(d)
    BY <1>1, <1>8, <1>10 DEF Untouched, GrowsForOthers
  <2> QED BY <1>2, <2>1, <2>2, OtherCall
<1> DEFINE old == [k \in 1..C |-> SizeTold(c, k)]
           new == [k \in 1..C |-> SizeTold(c, k)']
<1>11. \A k \in 1..C : k - 1 \in 0..(C - 1)
  OBVIOUS
<1>12. ASSUME p < C
       PROVE  /\ resp'[c] \in InfoResponses
              /\ resp'[c].total_vectors <= SumOf(new)
              /\ resp'[c].total_vectors <= (p + 1) * W /\ resp'[c].total_vectors <= C * W
              /\ Len(resp'[c].shards) = (IF p + 1 <= C THEN 0 ELSE (p + 1) - C)
  <2>1. progress[c] % ShardCount = p /\ InTotalLoop(progress[c])
    BY <1>3, <1>12 DEF InTotalLoop
  <2>2. resp'[c] = [resp[c] EXCEPT !.total_vectors = @ + Len(index[p])]
    BY <1>1, <1>2, <2>1 DEF DataInv
  <2>3. /\ resp'[c].total_vectors = resp[c].total_vectors + Len(index[p])
        /\ resp'[c].shards = resp[c].shards /\ Len(resp[c].shards) = 0 /\ p \in 0..(C - 1)
    BY <1>2, <1>3, <1>5, <1>12, <2>2 DEF InfoResponses
  <2>4. \A k \in 1..C : /\ old[k] = IF k <= p THEN Len(index[k - 1]) ELSE 0
                        /\ new[k] = IF k <= p + 1 THEN Len(index[k - 1]) ELSE 0
    BY <1>3, <1>8, <2>3 DEF SizeTold
  <2>5. /\ old \in [1..C -> Nat] /\ new \in [1..C -> Nat] /\ p + 1 \in 1..C
        /\ old[p + 1] = 0 /\ new[p + 1] = Len(index[p])
        /\ \A k \in 1..C : k # p + 1 => new[k] = old[k]
    <3>1. \A k \in 1..C : old[k] \in Nat /\ new[k] \in Nat
      BY <1>7, <1>11, <2>4
    <3>2. p + 1 \in 1..C /\ ~(p + 1 <= p) /\ (p + 1) - 1 = p
      BY <1>3, <1>12
    <3>3. old[p + 1] = 0 /\ new[p + 1] = Len(index[p])
      BY <2>4, <3>2
    <3>4. \A k \in 1..C : k # p + 1 => (k <= p <=> k <= p + 1)
      BY <1>3
    <3>5. \A k \in 1..C : k # p + 1 => new[k] = old[k]
      BY <2>4, <3>4
    <3>6. old = [k \in 1..C |-> old[k]] /\ new = [k \in 1..C |-> new[k]]
      OBVIOUS
    <3> HIDE DEF old, new
    <3> QED BY <3>1, <3>2, <3>3, <3>5, <3>6
  <2>6. SumOf(old) \in Nat /\ SumOf(new) = SumOf(old) + Len(index[p])
    <3> HIDE DEF old, new
    <3>1. Len(index[p]) \in Nat /\ new[p + 1] = old[p + 1] + Len(index[p])
      BY <1>7, <2>3, <2>5
    <3>2. C \in Nat /\ old \in [1..C -> Nat] /\ new \in [1..C -> Nat] /\ p + 1 \in 1..C
      BY <1>3, <2>5
    <3>3. \A k \in 1..C : k # p + 1 => new[k] = old[k]
      BY <2>5
    <3>4. PICK x \in Nat : x = Len(index[p])
      BY <3>1
    <3>5. PICK i \in 1..C : i = p + 1
      BY <3>2
    <3>6. C \in Nat /\ new[i] = old[i] + x /\ \A k \in 1..C : k # i => new[k] = old[k]
      BY <3>1, <3>2, <3>3, <3>4, <3>5
    <3>7. SumOf(old) \in Nat /\ SumOf(new) = SumOf(old) + x
      <4>1. new = [old EXCEPT ![i] = old[i] + x]
        BY <3>2, <3>5, <3>6
      <4>2. PICK u \in [1..C -> Nat] : u = old
        BY <3>2
      <4>3. SumOf(u) \in Nat /\ SumOf([u EXCEPT ![i] = u[i] + x]) = SumOf(u) + x
        <5>1. C \in Nat
          OBVIOUS
        <5> QED BY <3>4, <3>5, <4>2, <5>1, SumRaised, ZenonT(60)
      <4> QED BY <4>1, <4>2, <4>3
    <3> QED BY <3>4, <3>7
  <2>7. /\ resp'[c].total_vectors <= SumOf(new)
        /\ resp'[c].total_vectors <= (p + 1) * W /\ resp'[c].total_vectors <= C * W
        /\ resp'[c].total_vectors \in UInt64
    <3>1. Len(index[p]) \in Nat /\ Len(index[p]) <= W
      BY <1>7, <2>3
    <3>2. resp[c].total_vectors <= SumOf(old)
      BY <1>5
    <3> HIDE DEF old, new
    <3>3. PICK a \in Nat, b \in Nat, x \in Nat, y \in Nat :
            /\ a = resp[c].total_vectors /\ b = Len(index[p]) /\ x = SumOf(old) /\ y = p * W
      <4>1. p * W \in Nat
        BY <1>3
      <4> QED BY <1>6, <2>6, <3>1, <4>1
    <3>4. a <= x /\ b <= W /\ a <= y /\ resp'[c].total_vectors = a + b /\ SumOf(new) = x + b
      BY <1>3, <1>5, <2>3, <2>6, <3>1, <3>2, <3>3
    <3>5. (p + 1) * W = y + W
      BY <1>3, <3>3
    <3>6. (p + 1) * W <= C * W
      BY <1>3, <1>12
    <3>7. PICK z \in Nat : z = C * W
      BY <1>3
    <3>8. a + b <= x + b /\ a + b <= y + W /\ y + W <= z /\ z < Wide
      <4>1. z < Wide /\ y + W <= z
        BY <1>3, <1>4, <3>5, <3>6, <3>7
      <4>2. W \in Nat
        BY <1>3
      <4>3. a \in Nat /\ b \in Nat /\ x \in Nat /\ y \in Nat /\ z \in Nat
        BY <3>3, <3>7
      <4>4. a <= x /\ b <= W /\ a <= y
        BY <3>4
      <4> QED BY <4>1, <4>2, <4>3, <4>4
    <3>9. a + b \in Nat /\ y + W \in Nat /\ z \in Nat /\ Wide \in Nat
      <4>1. a + b \in Nat /\ z \in Nat
        BY <3>3, <3>7
      <4>2. W \in Nat /\ Wide \in Nat /\ y \in Nat
        BY <1>3, <1>4, <3>3
      <4> QED BY <4>1, <4>2
    <3>10. \A i, j, k \in Nat : i <= j /\ j <= k => i <= k
      OBVIOUS
    <3>11. a + b <= z
      BY <3>8, <3>9, <3>10, Zenon
    <3>12. a + b \in UInt64
      BY <3>8, <3>9, <3>11 DEF UInt64
    <3> QED BY <3>4, <3>5, <3>7, <3>8, <3>11, <3>12
  <2>8. resp'[c] \in InfoResponses
    BY <1>2, <2>2, <2>3, <2>7 DEF InfoResponses
  <2>9. Len(resp'[c].shards) = (IF p + 1 <= C THEN 0 ELSE (p + 1) - C)
    BY <1>3, <1>12, <2>3
  <2> QED BY <2>7, <2>8, <2>9
<1>13. ASSUME p >= C
       PROVE  /\ resp'[c] \in InfoResponses
              /\ resp'[c].total_vectors <= SumOf(new)
              /\ resp'[c].total_vectors <= (p + 1) * W /\ resp'[c].total_vectors <= C * W
              /\ Len(resp'[c].shards) = (IF p + 1 <= C THEN 0 ELSE (p + 1) - C)
  <2> DEFINE s == p - C
             e == [shard_id |-> s, vector_count |-> Len(index[s]), status |-> "", unknown |-> <<>>]
  <2>1. progress[c] % ShardCount = s /\ ~InTotalLoop(progress[c]) /\ s \in 0..(C - 1)
    BY <1>3, <1>4, <1>13 DEF InTotalLoop
  <2> HIDE DEF s
  <2>2. resp'[c] = [resp[c] EXCEPT !.shards = Append(@, e)]
    BY <1>1, <1>2, <2>1 DEF DataInv
  <2>3. e \in ShardInfos
    BY <1>4, <1>7, <2>1 DEF ShardInfos, Texts, TextLength
  <2>4. /\ Append(resp[c].shards, e) \in Seq(ShardInfos)
        /\ Len(resp[c].shards) = s /\ Len(Append(resp[c].shards, e)) = s + 1
        /\ \A k \in 1..s : Append(resp[c].shards, e)[k] = resp[c].shards[k]
        /\ Append(resp[c].shards, e)[s + 1] = e
    <3>1. Len(resp[c].shards) = s
      BY <1>3, <1>5, <1>13 DEF s
    <3> HIDE DEF e
    <3> QED BY <1>6, <2>3, <3>1, AppendProperties
  <2>5. /\ resp'[c] \in InfoResponses /\ resp'[c].total_vectors = resp[c].total_vectors
        /\ resp'[c].shards = Append(resp[c].shards, e)
    <3> HIDE DEF e
    <3> QED BY <1>2, <2>2, <2>4 DEF InfoResponses
  <2>6. ASSUME NEW k \in 1..C PROVE SizeTold(c, k)' = SizeTold(c, k)
    <3>1. k <= p /\ k <= p + 1 /\ s \in Nat
      BY <1>3, <1>13, <2>1
    <3>2. /\ SizeTold(c, k) = IF k <= s THEN resp[c].shards[k].vector_count ELSE Len(index[k - 1])
          /\ SizeTold(c, k)' = IF k <= s + 1 THEN Append(resp[c].shards, e)[k].vector_count
                               ELSE Len(index[k - 1])
      <4> HIDE DEF e
      <4> QED BY <1>3, <1>8, <2>4, <2>5, <3>1 DEF SizeTold
    <3>3. CASE k <= s
      <4>1. k \in 1..s /\ k <= s + 1
        BY <3>1, <3>3
      <4> HIDE DEF e
      <4> QED BY <2>4, <3>2, <3>3, <4>1
    <3>4. CASE k = s + 1
      <4>1. ~(k <= s) /\ k <= s + 1 /\ k - 1 = s
        BY <3>1, <3>4
      <4>2. e.vector_count = Len(index[s])
        OBVIOUS
      <4> HIDE DEF e
      <4> QED BY <2>4, <3>2, <3>4, <4>1, <4>2
    <3>5. CASE k > s + 1
      BY <3>1, <3>2, <3>5
    <3> QED BY <3>1, <3>3, <3>4, <3>5
  <2>7. new = old
    BY <2>6
  <2>8. /\ resp'[c].total_vectors <= SumOf(new)
        /\ resp'[c].total_vectors <= (p + 1) * W /\ resp'[c].total_vectors <= C * W
    <3>1. p * W <= (p + 1) * W /\ p * W \in Nat /\ (p + 1) * W \in Nat
      BY <1>3
    <3>2. resp[c].total_vectors <= SumOf(old)
      BY <1>5
    <3> HIDE DEF old, new, e
    <3>3. resp'[c].total_vectors = resp[c].total_vectors
      BY <2>5
    <3>4. resp[c].total_vectors <= (p + 1) * W
      BY <1>5, <1>6, <3>1
    <3> QED BY <1>5, <2>7, <3>2, <3>3, <3>4
  <2>9. Len(resp'[c].shards) = (IF p + 1 <= C THEN 0 ELSE (p + 1) - C)
    <3> HIDE DEF e
    <3>1. Len(resp'[c].shards) = s + 1
      BY <2>4, <2>5
    <3>2. ~(p + 1 <= C) /\ s + 1 = (p + 1) - C
      BY <1>3, <1>13 DEF s
    <3> QED BY <3>1, <3>2
  <2> QED BY <2>5, <2>8, <2>9
<1>14. CallInv(c)'
  <2>1. /\ resp'[c] \in InfoResponses
        /\ resp'[c].total_vectors <= SumOf(new)
        /\ resp'[c].total_vectors <= (p + 1) * W /\ resp'[c].total_vectors <= C * W
        /\ Len(resp'[c].shards) = (IF p + 1 <= C THEN 0 ELSE (p + 1) - C)
    <3>1. p < C \/ p >= C
      BY <1>3
    <3> HIDE DEF old, new
    <3> QED BY <1>12, <1>13, <3>1
  <2>2. CallTyped(c)'
    BY <1>1, <1>2, <1>8, <2>1 DEF CallInv, CallTyped, Responses
  <2>3. CallFresh(c)' /\ CallAnswered(c)' /\ CallPlaced(c)' /\ CallFound(c)' /\ CallStreams(c)'
    BY <1>1, <1>2, <1>8 DEF CallFresh, CallAnswered, CallPlaced, CallFound, CallStreams
  <2>4. SumOf([k \in 1..ShardCount |-> SizeTold(c, k)])' = SumOf(new)
    BY <1>3
  <2>5. CallSums(c)'
    <3> HIDE DEF old, new
    <3> QED BY <1>2, <1>3, <1>8, <2>1, <2>4 DEF CallSums
  <2> QED BY <2>2, <2>3, <2>5 DEF CallInv
<1> QED BY <1>9, <1>10, <1>14 DEF ServiceInv

\* A step that is not a call's.
LEMMA OutsideStep ==
    ASSUME ServiceInv, UNCHANGED <<dataVars, callVars>>,
           valid_tokens' \subseteq BearerTokens, disabled' \in BOOLEAN, admin' \in 0..MaxAdmin
    PROVE  ServiceInv'
<1>1. UNCHANGED <<index, healthy, phase, script, stream, req, resp, status, answer, progress, outcome>>
  BY DEF dataVars, callVars
<1>2. DataInv'
  BY <1>1 DEF ServiceInv, DataInv
<1>3. ASSUME NEW c \in Calls PROVE CallInv(c)'
  <2>1. DataInv /\ CallInv(c) /\ Untouched(c) /\ GrowsForOthers(c)
    BY <1>1 DEF ServiceInv, Untouched, GrowsForOthers
  <2> QED BY <2>1, OtherCall
<1> QED BY <1>2, <1>3 DEF ServiceInv

LEMMA AdminStep ==
    ASSUME ServiceInv,
           \/ \E t \in BearerTokens : AddToken(t) \/ RemoveToken(t)
           \/ \E b \in BOOLEAN : SetDisabled(b)
    PROVE  ServiceInv'
<1>1. valid_tokens \subseteq BearerTokens /\ disabled \in BOOLEAN /\ admin \in 0..MaxAdmin /\ MaxAdmin \in Nat
  BY ConstantFacts DEF ServiceInv, DataInv
<1>2. ASSUME NEW t \in BearerTokens, AddToken(t) \/ RemoveToken(t) PROVE ServiceInv'
  <2>1. PICK T \in SUBSET BearerTokens : SetTokens(T)
    <3>1. valid_tokens \cup {t} \in SUBSET BearerTokens /\ valid_tokens \ {t} \in SUBSET BearerTokens
      BY <1>1
    <3> QED BY <1>2, <3>1 DEF AddToken, RemoveToken
  <2>2. /\ valid_tokens' \subseteq BearerTokens /\ disabled' \in BOOLEAN /\ admin' \in 0..MaxAdmin
        /\ UNCHANGED <<dataVars, callVars>>
    BY <1>1, <2>1 DEF SetTokens
  <2> QED BY <2>2, OutsideStep
<1>3. ASSUME NEW b \in BOOLEAN, SetDisabled(b) PROVE ServiceInv'
  <2>1. /\ valid_tokens' \subseteq BearerTokens /\ disabled' \in BOOLEAN /\ admin' \in 0..MaxAdmin
        /\ UNCHANGED <<dataVars, callVars>>
    BY <1>1, <1>3 DEF SetDisabled
  <2> QED BY <2>1, OutsideStep
<1> QED BY <1>2, <1>3

LEMMA HandlerStep == ASSUME ServiceInv, NEW c \in Calls, Handler(c) PROVE ServiceInv'
<1>1. CASE Gate(c)
  BY <1>1, UnauthenticatedStep, LimitedStep, AdmittedStep DEF Gate
<1>2. CASE InsertCall(c)
  BY <1>2, InsertBadSizeStep, InsertStoresStep, InsertThrowsStep DEF InsertCall
<1>3. CASE BulkRead(c)
  BY <1>3, BulkReadStep
<1>4. CASE BulkEnds(c)
  BY <1>4, BulkEndsStep
<1>5. CASE SearchRefuses(c)
  BY <1>5, SearchRefusesStep
<1>6. CASE SearchAnswers(c)
  BY <1>6, SearchAnswersStep
<1>7. CASE DeleteRefuses(c)
  BY <1>7, DeleteRefusesStep
<1>8. CASE InfoReads(c)
  BY <1>8, InfoReadsStep
<1>9. CASE InfoAnswers(c)
  BY <1>9, InfoAnswersStep
<1> QED BY <1>1, <1>2, <1>3, <1>4, <1>5, <1>6, <1>7, <1>8, <1>9 DEF Handler

-----------------------------------------------------------------------------
(* The service: what follows                                                *)

\* ServiceInv holds in every reachable state: what was sent, logged, indexed,
\* counted and told agrees for every call, at every point of its handler.
THEOREM ServiceInductive == Spec => []ServiceInv
<1>1. ServiceInv /\ [Next]_vars => ServiceInv'
  <2> SUFFICES ASSUME ServiceInv, [Next]_vars PROVE ServiceInv'
    OBVIOUS
  <2>1. valid_tokens \subseteq BearerTokens /\ disabled \in BOOLEAN /\ admin \in 0..MaxAdmin
    BY DEF ServiceInv, DataInv
  <2>2. CASE \E c \in Calls : Handler(c) \/ \E s \in Scripts : Arrive(c, s)
    BY <2>2, HandlerStep, ArriveStep
  <2>3. CASE \/ \E t \in BearerTokens : AddToken(t) \/ RemoveToken(t)
             \/ \E b \in BOOLEAN : SetDisabled(b)
    BY <2>3, AdminStep
  <2>4. CASE ClockTicks
    <3>1. UNCHANGED <<dataVars, callVars>> /\ UNCHANGED <<valid_tokens, disabled, admin>>
      BY <2>4 DEF ClockTicks, authVars
    <3> QED BY <2>1, <3>1, OutsideStep
  <2>5. CASE UNCHANGED vars
    <3>1. UNCHANGED <<dataVars, callVars>> /\ UNCHANGED <<valid_tokens, disabled, admin>>
      BY <2>5 DEF vars, authVars
    <3> QED BY <2>1, <3>1, OutsideStep
  <2> QED BY <2>2, <2>3, <2>4, <2>5 DEF Next
<1> QED BY <1>1, ServiceStart, PTL DEF Spec

\* The service uses its limiter as the limiter's specification says: what the other
\* handlers, the admin calls and the clock do is a step of it or leaves it alone.
THEOREM ServiceLimits == Spec => RateSpec
<1>1. Init => RateInit
  BY DEF Init
<1>2. ServiceInv /\ [Next]_vars => [RateNext]_rateVars
  <2> SUFFICES ASSUME ServiceInv, [Next]_vars, rateVars' # rateVars PROVE RateNext
    OBVIOUS
  <2>1. CASE ClockTicks
    BY <2>1 DEF ClockTicks, RateNext
  <2>2. ASSUME NEW c \in Calls, Handler(c) PROVE RateNext
    <3>1. ASSUME phase[c] = "arrived" PROVE script[c].peer \in Clients
      BY <3>1, ScriptFacts DEF ServiceInv, CallInv, CallTyped
    <3>2. Gate(c)
      BY <2>2 DEF Handler, InsertCall, InsertBadSize, InsertStores, InsertThrows, BulkRead, BulkEnds,
                  SearchRefuses, SearchAnswers, DeleteRefuses, InfoReads, InfoAnswers
    <3>3. phase[c] = "arrived" /\ (CheckAdmits(script[c].peer) \/ CheckRejects(script[c].peer))
      BY <3>2 DEF Gate, Unauthenticated, Limited, Admitted
    <3> QED BY <3>1, <3>3 DEF RateNext
  <2>3. ~(\E c \in Calls : \E s \in Scripts : Arrive(c, s))
    BY DEF Arrive
  <2>4. ~(\E t \in BearerTokens : AddToken(t) \/ RemoveToken(t)) /\ ~(\E b \in BOOLEAN : SetDisabled(b))
    BY DEF AddToken, RemoveToken, SetTokens, SetDisabled
  <2>5. ~UNCHANGED vars
    BY DEF vars
  <2> QED BY <2>1, <2>2, <2>3, <2>4, <2>5 DEF Next
<1> QED BY <1>1, <1>2, ServiceInductive, PTL DEF Spec, RateSpec

\* The place an insert was answered with is, and stays, where its vector is; a
\* search's result is a node of some shard that an insert has not left blank, at the
\* distance of its vector.
THEOREM ServiceAnswersLocate == Spec => []AnswersLocate
<1>1. ServiceInv => AnswersLocate
  <2> SUFFICES ASSUME ServiceInv PROVE AnswersLocate
    OBVIOUS
  <2>1. ASSUME NEW c \in Calls, status[c] = "OK"
        PROVE  answer[c].msg = resp[c] /\ CallPlaced(c) /\ CallFound(c)
    <3>1. CallAnswered(c) /\ CallPlaced(c) /\ CallFound(c)
      BY DEF ServiceInv, CallInv
    <3>2. answer[c] = [ok |-> TRUE, msg |-> resp[c]]
      BY <2>1, <3>1 DEF CallAnswered
    <3> QED BY <3>1, <3>2
  <2>2. InsertAnswerLocates
    BY <2>1 DEF InsertAnswerLocates, CallPlaced, AskedBy
  <2>3. ResultIsAVector
    <3> SUFFICES ASSUME NEW c \in Calls, status[c] = "OK", Method(c) = "Search",
                        NEW k \in DOMAIN answer[c].msg.results
                 PROVE  LET t == answer[c].msg.results[k]
                        IN  \E s \in Shards : /\ t.node_id < Len(index[s])
                                              /\ index[s][t.node_id + 1].state # "threw_blank"
                                              /\ Distance[index[s][t.node_id + 1].vec] = t.distance
      BY DEF ResultIsAVector
    <3>1. answer[c].msg = resp[c] /\ CallFound(c)
      BY <2>1
    <3> QED BY <3>1 DEF CallFound
  <2> QED BY <2>2, <2>3 DEF AnswersLocate
<1> QED BY <1>1, ServiceInductive, PTL

\* GetInfo's total is never more than the sum of its shards' counts.
THEOREM ServiceTotal == Spec => []TotalWithinShards
<1>1. ServiceInv => TotalWithinShards
  <2> SUFFICES ASSUME ServiceInv, NEW c \in Calls, status[c] = "OK", Method(c) = "GetInfo"
               PROVE  answer[c].msg.total_vectors <=
                        SumOf([k \in DOMAIN answer[c].msg.shards |-> answer[c].msg.shards[k].vector_count])
    BY DEF TotalWithinShards
  <2>1. answer[c].msg = resp[c] /\ phase[c] = "done"
    <3>1. CallAnswered(c)
      BY DEF ServiceInv, CallInv
    <3>2. phase[c] = "done" /\ answer[c] = [ok |-> TRUE, msg |-> resp[c]]
      BY <3>1 DEF CallAnswered
    <3> QED BY <3>2
  <2>2. /\ Len(resp[c].shards) = IF progress[c] <= ShardCount THEN 0 ELSE progress[c] - ShardCount
        /\ resp[c].total_vectors <= SumOf([k \in 1..ShardCount |-> SizeTold(c, k)])
        /\ progress[c] = 2 * ShardCount
    BY <2>1 DEF ServiceInv, CallInv, CallSums
  <2>3. resp[c].shards \in Seq(ShardInfos)
    BY <2>1 DEF ServiceInv, CallInv, CallTyped, Responses, InfoResponses
  <2>4. Len(resp[c].shards) = ShardCount
    BY <2>2, ConstantFacts
  <2>5. DOMAIN resp[c].shards = 1..ShardCount
    BY <2>3, <2>4, LenProperties
  <2>6. \A k \in 1..ShardCount : SizeTold(c, k) = resp[c].shards[k].vector_count
    BY <2>4, ConstantFacts DEF SizeTold
  <2>7. [k \in DOMAIN resp[c].shards |-> resp[c].shards[k].vector_count] =
          [k \in 1..ShardCount |-> SizeTold(c, k)]
    BY <2>5, <2>6
  <2> QED BY <2>1, <2>2, <2>7
<1> QED BY <1>1, ServiceInductive, PTL

\* How far a stream can be read.
LEMMA ReadableIs ==
    ASSUME NEW s \in Scripts, s.method = "BulkInsert"
    PROVE  \E M \in 0..Len(s.sent) :
             /\ Readable[s] = [k \in 1..M |-> ReadAs(s.sent[k]).msg] /\ Len(Readable[s]) = M
             /\ \A k \in 1..M : ReadAs(s.sent[k]).ok
             /\ M = Len(s.sent) \/ ~ReadAs(s.sent[M + 1]).ok
<1> DEFINE parsed == [k \in DOMAIN s.sent |-> ReadAs(s.sent[k])]
           good == {n \in 0..Len(parsed) : \A k \in 1..n : parsed[k].ok}
           most == CHOOSE n \in good : \A j \in good : j <= n
<1>1. Readable[s] = [k \in 1..most |-> parsed[k].msg]
  BY DEF Readable, ReadAs
<1>2. PICK N \in Nat : N = Len(s.sent) /\ DOMAIN s.sent = 1..N
  BY ScriptFacts
<1>3. Len(parsed) = N /\ DOMAIN parsed = 1..N
  <2>1. parsed \in [1..N -> {ReadAs(s.sent[k]) : k \in 1..N}]
    BY <1>2
  <2> HIDE DEF parsed
  <2> QED BY <1>2, <2>1, FunctionIsSeq
<1>4. \A k \in 1..N : parsed[k] = ReadAs(s.sent[k])
  BY <1>2
<1> HIDE DEF parsed
<1>5. 0 \in good /\ good \in SUBSET (0..N)
  BY <1>3
<1> HIDE DEF good
<1>6. \E n \in good : \A j \in good : j <= n
  <2> DEFINE T == {x \in 0..N : N - x \in good}
  <2>1. T \in SUBSET Nat /\ T # {}
    <3>1. N \in T
      BY <1>2, <1>5
    <3> QED BY <3>1
  <2>2. PICK x \in T : \A y \in T : x <= y
    <3> HIDE DEF T
    <3> QED BY <2>1, LeastNat
  <2>3. N - x \in good /\ x \in 0..N
    BY <2>2
  <2>4. ASSUME NEW j \in good PROVE j <= N - x
    <3>1. j \in 0..N
      BY <1>5
    <3>2. N - j \in 0..N /\ N - (N - j) = j
      BY <1>2, <3>1
    <3>3. x <= N - j
      BY <2>2, <3>2
    <3> QED BY <1>2, <2>3, <3>1, <3>3
  <2> QED BY <2>3, <2>4
<1>7. most \in good /\ \A j \in good : j <= most
  BY <1>6
<1> HIDE DEF most
<1>8. most \in 0..N
  BY <1>5, <1>7
<1>9. \A k \in 1..most : ReadAs(s.sent[k]).ok
  BY <1>3, <1>4, <1>7, <1>8 DEF good
<1>10. most = N \/ ~ReadAs(s.sent[most + 1]).ok
  <2> SUFFICES ASSUME most # N, ReadAs(s.sent[most + 1]).ok PROVE FALSE
    OBVIOUS
  <2>1. most + 1 \in 0..N /\ most + 1 \in 1..N
    BY <1>2, <1>8
  <2>2. \A k \in 1..(most + 1) : k = most + 1 \/ k \in 1..most
    BY <1>8
  <2>3. \A k \in 1..(most + 1) : parsed[k].ok
    BY <1>4, <1>8, <1>9, <2>1, <2>2
  <2>4. most + 1 \in good
    BY <1>3, <2>1, <2>3 DEF good
  <2> QED BY <1>7, <1>8, <2>4
<1>11. Readable[s] = [k \in 1..most |-> ReadAs(s.sent[k]).msg]
  BY <1>1, <1>4, <1>2, <1>8
<1>12. Len(Readable[s]) = most
  <2>1. Readable[s] \in [1..most -> {ReadAs(s.sent[k]).msg : k \in 1..most}]
    BY <1>11
  <2> QED BY <1>8, <2>1, FunctionIsSeq
<1> QED BY <1>2, <1>8, <1>9, <1>10, <1>11, <1>12

\* In every index the nodes of a stream's messages stand in the order sent, each for the
\* id and the vector its sender sent and for what became of it, whatever other calls
\* insert in between and whichever inserts throw.
THEOREM ServiceStreamStored == Spec => []StreamStoredAsSent
<1>1. ServiceInv => StreamStoredAsSent
  <2> SUFFICES ASSUME ServiceInv, NEW c \in Calls, phase[c] # "idle", Method(c) = "BulkInsert"
               PROVE  LET told == Readable[script[c]]
                          kept(s) == {k \in DOMAIN outcome[c] :
                                         outcome[c][k] \in Kept /\ ShardOf[told[k].vector_id] = s}
                      IN  \A s \in Shards :
                            Picked(index[s], NodesOf(c, s)) =
                              [n \in 1..Cardinality(kept(s)) |->
                                  LET k == Nth(kept(s), n)
                                  IN  [id |-> told[k].vector_id, vec |-> told[k].vector,
                                       call |-> c, state |-> outcome[c][k]]]
    BY DEF StreamStoredAsSent
  <2> DEFINE told == Readable[script[c]]
             kept(s) == {k \in DOMAIN outcome[c] :
                            outcome[c][k] \in Kept /\ ShardOf[told[k].vector_id] = s}
  <2>1. script[c] \in Scripts /\ StreamRead(c) /\ StreamPlaced(c) /\ outcome[c] \in Seq(Outcomes)
    BY DEF ServiceInv, DataInv, CallInv, CallTyped, CallStreams
  <2>2. PICK M \in 0..Len(Sent(c)) :
          /\ told = [k \in 1..M |-> ReadAs(Sent(c)[k]).msg]
          /\ M = Len(Sent(c)) \/ ~ReadAs(Sent(c)[M + 1]).ok
    BY <2>1, ReadableIs DEF Sent, Method
  <2> HIDE DEF told
  <2>3. PICK R \in Nat, N \in Nat : R = Read(c) /\ N = Len(Sent(c)) /\ DOMAIN outcome[c] = 1..R
    <3>1. Read(c) \in Nat /\ DOMAIN outcome[c] = 1..Read(c)
      BY <2>1, LenProperties DEF Read
    <3>2. Len(Sent(c)) \in Nat
      BY <2>1, ScriptFacts DEF Sent
    <3> QED BY <3>1, <3>2
  <2>4. R <= M
    <3>1. R <= N /\ \A k \in 1..R : ReadAs(Sent(c)[k]).ok
      BY <2>1, <2>3 DEF StreamRead
    <3>2. M \in 0..N
      BY <2>2, <2>3
    <3>3. M + 1 \in 1..R => M = N
      BY <2>2, <2>3, <3>1
    <3> QED BY <2>3, <3>1, <3>2, <3>3
  <2>5. \A k \in 1..R : told[k] = ReadAs(Sent(c)[k]).msg
    BY <2>2, <2>3, <2>4
  <2>6. ASSUME NEW s \in Shards
        PROVE  Picked(index[s], OfCall(index[s], c)) =
                 [n \in 1..Cardinality(kept(s)) |->
                    [id |-> told[Nth(kept(s), n)].vector_id, vec |-> told[Nth(kept(s), n)].vector,
                     call |-> c, state |-> outcome[c][Nth(kept(s), n)]]]
    <3>1. kept(s) = KeptIn(c, s)
      BY <2>3, <2>5 DEF KeptIn
    <3>2. KeptIn(c, s) \in SUBSET (1..R)
      BY <2>3 DEF KeptIn
    <3>3. PICK K \in SUBSET (1..R) : K = KeptIn(c, s)
      BY <3>2
    <3>4. Cardinality(K) \in 0..R /\ \A n \in 1..Cardinality(K) : Nth(K, n) \in K
      BY <2>3, RankFacts, NthFacts
    <3>5. \A n \in 1..Cardinality(K) :
            SentAs(c, Nth(K, n)) = [id |-> told[Nth(K, n)].vector_id, vec |-> told[Nth(K, n)].vector,
                                    call |-> c, state |-> outcome[c][Nth(K, n)]]
      BY <2>5, <3>4 DEF SentAs
    <3>6. Picked(index[s], OfCall(index[s], c)) = [n \in 1..Cardinality(K) |-> SentAs(c, Nth(K, n))]
      BY <2>1, <3>3 DEF StreamPlaced, Mine
    <3>7. [n \in 1..Cardinality(K) |-> SentAs(c, Nth(K, n))] =
            [n \in 1..Cardinality(K) |->
               [id |-> told[Nth(K, n)].vector_id, vec |-> told[Nth(K, n)].vector,
                call |-> c, state |-> outcome[c][Nth(K, n)]]]
      BY <3>5
    <3> HIDE DEF kept
    <3> QED BY <3>1, <3>3, <3>6, <3>7
  <2> QED BY <2>6 DEF told, OfCall, NodesOf
<1> QED BY <1>1, ServiceInductive, PTL

\* The counts a stream is answered with: its inserts that returned, whose vectors have
\* their nodes, and with the others, some of which may have one too, all that it sent
\* up to the first message that did not parse.
THEOREM ServiceBulkCounts == Spec => []BulkCounts
<1>1. ServiceInv => BulkCounts
  <2> SUFFICES ASSUME ServiceInv, NEW c \in Calls, status[c] = "OK", Method(c) = "BulkInsert"
               PROVE  LET mine   == UNION {{s} \X NodesOf(c, s) : s \in Shards}
                          stored == UNION {{s} \X {n \in NodesOf(c, s) : index[s][n].state = "stored"} :
                                           s \in Shards}
                          sum    == answer[c].msg.inserted + answer[c].msg.failed
                      IN  /\ answer[c].msg.inserted = Cardinality(stored)
                          /\ Cardinality(mine) <= sum
                          /\ sum = Len(Readable[script[c]])
    BY DEF BulkCounts
  <2>1. phase[c] = "done" /\ answer[c].msg = resp[c]
    <3>1. CallAnswered(c)
      BY DEF ServiceInv, CallInv
    <3>2. phase[c] = "done" /\ answer[c] = [ok |-> TRUE, msg |-> resp[c]]
      BY <3>1 DEF CallAnswered
    <3> QED BY <3>2
  <2>2. /\ script[c] \in Scripts /\ StreamRead(c) /\ StreamCounted(c) /\ outcome[c] \in Seq(Outcomes)
    BY <2>1 DEF ServiceInv, DataInv, CallInv, CallTyped, CallStreams
  <2>3. PICK M \in 0..Len(Sent(c)) :
          /\ Len(Readable[script[c]]) = M /\ \A k \in 1..M : ReadAs(Sent(c)[k]).ok
          /\ M = Len(Sent(c)) \/ ~ReadAs(Sent(c)[M + 1]).ok
    BY <2>2, ReadableIs DEF Sent, Method
  <2>4. PICK R \in Nat, N \in Nat : R = Read(c) /\ N = Len(Sent(c))
    <3>1. Read(c) \in Nat /\ Len(Sent(c)) \in Nat
      BY <2>2, LenProperties, ScriptFacts DEF Read, Sent
    <3> QED BY <3>1
  <2>5. /\ R <= N /\ \A k \in 1..R : ReadAs(Sent(c)[k]).ok
        /\ R = N \/ ~ReadAs(Sent(c)[R + 1]).ok
    BY <2>2, <2>4 DEF StreamRead
  <2>6. M = R
    <3>1. M \in 0..N
      BY <2>3, <2>4
    <3>2. ~(M + 1 \in 1..R /\ M # N) /\ ~(R + 1 \in 1..M /\ R # N)
      BY <2>3, <2>4, <2>5
    <3> QED BY <2>4, <2>5, <3>1, <3>2
  <2>7. /\ InIndex(c) = UNION {{s} \X {n \in NodesOf(c, s) : index[s][n].state = "stored"} : s \in Shards}
        /\ Taken(c) = UNION {{s} \X NodesOf(c, s) : s \in Shards}
    BY DEF InIndex, Taken, Places, StoredOf, OfCall, NodesOf
  <2>8. /\ resp[c].inserted = Cardinality(InIndex(c)) /\ resp[c].inserted + resp[c].failed = R
        /\ Cardinality(Taken(c)) <= R
    BY <2>2, <2>4 DEF StreamCounted
  <2> QED BY <2>1, <2>3, <2>6, <2>7, <2>8
<1> QED BY <1>1, ServiceInductive, PTL

\* The service's limiter keeps its bound, and is never more generous than the
\* textbook's, with the handlers, the admin calls and the gate around it.
THEOREM ServiceRateBounded == Spec => [](AdmissionBound /\ NeverMoreGenerous)
BY ServiceLimits, RateBounded, RateNeverMoreGenerous, PTL

-----------------------------------------------------------------------------
(* The sizes of messages                                                    *)

\* What each element of w counts for.
Over(g, w) == [j \in DOMAIN w |-> g[w[j]]]

LEMMA OverFacts ==
    ASSUME NEW S, NEW g \in [S -> Nat]
    PROVE  /\ Over(g, <<>>) = <<>>
           /\ \A w \in Seq(S) : Over(g, w) \in Seq(Nat)
           /\ \A w \in Seq(S) : \A e \in S : Over(g, Append(w, e)) = Append(Over(g, w), g[e])
<1>1. Over(g, <<>>) = <<>>
  BY DEF Over
<1>2. ASSUME NEW w \in Seq(S)
      PROVE  Over(g, w) \in Seq(Nat) /\ Len(Over(g, w)) = Len(w)
  <2>1. Len(w) \in Nat /\ DOMAIN w = 1..Len(w) /\ \A j \in 1..Len(w) : w[j] \in S
    BY LenProperties, ElementOfSeq
  <2>2. Over(g, w) \in [1..Len(w) -> Nat]
    BY <2>1 DEF Over
  <2> QED BY <2>1, <2>2, FunctionIsSeq
<1>3. ASSUME NEW w \in Seq(S), NEW e \in S
      PROVE  Over(g, Append(w, e)) = Append(Over(g, w), g[e])
  <2>1. /\ Len(w) \in Nat /\ Append(w, e) \in Seq(S) /\ Len(Append(w, e)) = Len(w) + 1
        /\ \A i \in 1..Len(w) : Append(w, e)[i] = w[i]
        /\ Append(w, e)[Len(w) + 1] = e
        /\ DOMAIN w = 1..Len(w) /\ DOMAIN Append(w, e) = 1..(Len(w) + 1)
    BY LenProperties, AppendProperties
  <2>2. PICK n \in Nat : n = Len(w)
    BY <2>1
  <2>3. PICK p \in Seq(Nat) : p = Over(g, w)
    BY <1>2
  <2>4. PICK x \in Nat : x = g[e]
    OBVIOUS
  <2>5. /\ Append(p, x) \in Seq(Nat) /\ Len(Append(p, x)) = n + 1
        /\ \A i \in 1..n : Append(p, x)[i] = p[i]
        /\ Append(p, x)[n + 1] = x
        /\ DOMAIN Append(p, x) = 1..(n + 1)
    <3>1. Len(p) = n
      BY <1>2, <2>2, <2>3
    <3> QED BY <3>1, LenProperties, AppendProperties
  <2>6. \A i \in 1..n : p[i] = g[w[i]]
    BY <2>1, <2>2, <2>3 DEF Over
  <2>7. \A i \in 1..(n + 1) : g[Append(w, e)[i]] = Append(p, x)[i]
    <3>1. \A i \in 1..(n + 1) : i = n + 1 \/ i \in 1..n
      OBVIOUS
    <3>2. g[Append(w, e)[n + 1]] = Append(p, x)[n + 1]
      BY <2>1, <2>2, <2>4, <2>5
    <3>3. \A i \in 1..n : g[Append(w, e)[i]] = Append(p, x)[i]
      BY <2>1, <2>2, <2>5, <2>6
    <3> QED BY <3>1, <3>2, <3>3
  <2>8. Over(g, Append(w, e)) = [i \in 1..(n + 1) |-> g[Append(w, e)[i]]]
    BY <2>1, <2>2 DEF Over
  <2>9. Append(p, x) = [i \in 1..(n + 1) |-> Append(p, x)[i]]
    <3>1. PICK q \in Seq(Nat) : q = Append(p, x)
      BY <2>5
    <3>2. q = [i \in 1..Len(q) |-> q[i]] /\ Len(q) = n + 1
      BY <2>5, <3>1, LenProperties
    <3> QED BY <3>1, <3>2
  <2> QED BY <2>3, <2>4, <2>7, <2>8, <2>9
<1> QED BY <1>1, <1>2, <1>3

LEMMA SumOver ==
    ASSUME NEW S, NEW g \in [S -> Nat], NEW w \in Seq(S)
    PROVE  /\ SumOf(Over(g, w)) \in Nat
           /\ \A e \in S : SumOf(Over(g, Append(w, e))) = SumOf(Over(g, w)) + g[e]
<1>1. Over(g, w) \in Seq(Nat) /\ \A e \in S : Over(g, Append(w, e)) = Append(Over(g, w), g[e]) /\ g[e] \in Nat
  BY OverFacts
<1> QED BY <1>1, SumFacts

LEMMA SumConcat ==
    ASSUME NEW S, NEW g \in [S -> Nat], NEW u \in Seq(S)
    PROVE  \A v \in Seq(S) : SumOf(Over(g, u \o v)) = SumOf(Over(g, u)) + SumOf(Over(g, v))
<1> DEFINE Good == {v \in Seq(S) : SumOf(Over(g, u \o v)) = SumOf(Over(g, u)) + SumOf(Over(g, v))}
<1>1. <<>> \in Good
  <2>1. <<>> \in Seq(S) /\ u \o <<>> = u
    BY EmptySeq, ConcatEmptySeq
  <2>2. SumOf(Over(g, <<>>)) = 0 /\ SumOf(Over(g, u)) \in Nat
    BY OverFacts, SumFacts, SumOver
  <2> QED BY <2>1, <2>2
<1>2. ASSUME NEW v \in Seq(S), NEW e \in S, v \in Good PROVE Append(v, e) \in Good
  <2>a. u \o Append(v, e) = Append(u \o v, e)
    BY ConcatAppend
  <2>b. Append(v, e) \in Seq(S) /\ u \o v \in Seq(S)
    BY ConcatProperties, AppendProperties
  <2>1. u \o Append(v, e) = Append(u \o v, e) /\ Append(v, e) \in Seq(S) /\ u \o v \in Seq(S)
    BY <2>a, <2>b
  <2>2. /\ SumOf(Over(g, Append(u \o v, e))) = SumOf(Over(g, u \o v)) + g[e]
        /\ SumOf(Over(g, Append(v, e))) = SumOf(Over(g, v)) + g[e]
        /\ SumOf(Over(g, u)) \in Nat /\ SumOf(Over(g, v)) \in Nat /\ SumOf(Over(g, u \o v)) \in Nat
    BY <2>1, SumOver
  <2>3. SumOf(Over(g, u \o v)) = SumOf(Over(g, u)) + SumOf(Over(g, v)) /\ g[e] \in Nat
    BY <1>2
  <2>4. SumOf(Over(g, u \o Append(v, e))) = SumOf(Over(g, u)) + SumOf(Over(g, Append(v, e)))
    BY <2>1, <2>2, <2>3
  <2> QED BY <2>1, <2>4
<1>3. \A v \in Seq(S) : v \in Good
  <2>1. \A v \in Seq(S) : \A e \in S : v \in Good => Append(v, e) \in Good
    BY <1>2
  <2> HIDE DEF Good
  <2> QED BY <1>1, <2>1, SeqByInduction
<1> QED BY <1>3

\* The blocks of B sum up to size, one by one.
AddUp(g, B, size) ==
    size \in [1..Len(B) -> Nat] /\ \A i \in 1..Len(B) : SumOf(Over(g, B[i])) = size[i]

\* The sum over a flat sequence is the sum of the sums over its blocks.
LEMMA SumFlat ==
    ASSUME NEW S, NEW g \in [S -> Nat], NEW B \in Seq(Seq(S)), NEW size, AddUp(g, B, size)
    PROVE  FlattenSeq(B) \in Seq(S) /\ SumOf(Over(g, FlattenSeq(B))) = SumOf(size)
<1>0. size \in [1..Len(B) -> Nat] /\ \A i \in 1..Len(B) : SumOf(Over(g, B[i])) = size[i]
  BY DEF AddUp
<1>1. Len(B) \in Nat /\ \A i \in 1..Len(B) : B[i] \in Seq(S)
  BY LenProperties, ElementOfSeq
<1>2. PICK f : Flattens(f, B, S)
  BY FlattensExist
<1>3. FlattenSeq(B) = f[Len(B)]
  BY <1>2, FlattenIs
<1>4. size \in Seq(Nat) /\ Len(size) = Len(B)
  BY <1>0, <1>1, FunctionIsSeq
<1>5. PICK h : SumsUp(h, size) /\ SumOf(size) = h[Len(size)]
  BY <1>4, SumFacts
<1>6. PICK n \in Nat : n = Len(B)
  BY <1>1
<1>7. /\ f \in [0..n -> Seq(S)] /\ f[0] = <<>> /\ \A i \in 1..n : f[i] = f[i - 1] \o B[i]
      /\ h \in [0..n -> Nat] /\ h[0] = 0 /\ \A i \in 1..n : h[i] = h[i - 1] + size[i]
  BY <1>2, <1>4, <1>5, <1>6 DEF Flattens, SumsUp
<1> DEFINE Good == {i \in Nat : i <= n => SumOf(Over(g, f[i])) = h[i]}
<1>8. 0 \in Good
  BY <1>7, OverFacts, SumFacts
<1>9. ASSUME NEW i \in Nat, i \in Good PROVE i + 1 \in Good
  <2> SUFFICES ASSUME i + 1 <= n PROVE SumOf(Over(g, f[i + 1])) = h[i + 1]
    OBVIOUS
  <2>1. i + 1 \in 1..n /\ (i + 1) - 1 = i /\ i \in 0..n /\ SumOf(Over(g, f[i])) = h[i]
    BY <1>9
  <2>2. f[i + 1] = f[i] \o B[i + 1] /\ h[i + 1] = h[i] + size[i + 1]
    BY <1>7, <2>1
  <2>3. f[i] \in Seq(S) /\ B[i + 1] \in Seq(S) /\ SumOf(Over(g, B[i + 1])) = size[i + 1]
    BY <1>0, <1>1, <1>6, <1>7, <2>1
  <2>4. SumOf(Over(g, f[i] \o B[i + 1])) = SumOf(Over(g, f[i])) + SumOf(Over(g, B[i + 1]))
    BY <2>3, SumConcat
  <2> HIDE DEF Good
  <2> QED BY <2>1, <2>2, <2>3, <2>4
<1>10. n \in Good
  <2> HIDE DEF Good
  <2> QED BY <1>8, <1>9, NatsByInduction
<1>11. SumOf(Over(g, f[n])) = h[n] /\ f[n] \in Seq(S)
  BY <1>7, <1>10
<1> QED BY <1>3, <1>4, <1>5, <1>6, <1>11

LEMMA Quotient ==
    ASSUME NEW n \in Nat, n > 0, NEW g \in Nat \ {0, 1}
    PROVE  n \div g \in Nat /\ n \div g < n
<1>1. PICK q \in Int, r \in 0..(g - 1) : n = q * g + r /\ q = n \div g
  <2>1. PICK q \in Int, r \in 0..(g - 1) : q = n \div g /\ r = n % g
    OBVIOUS
  <2>2. n = q * g + r
    BY <2>1
  <2> QED BY <2>1, <2>2
<1>2. q >= 0
  <2>1. ASSUME q <= -1 PROVE FALSE
    <3>1. PICK p \in Nat : p = -(q + 1) /\ q = -1 - p
      BY <2>1
    <3>2. p * g >= 0 /\ p * g \in Int
      OBVIOUS
    <3>3. q * g = -g - p * g
      BY <3>1
    <3> QED BY <1>1, <3>2, <3>3
  <2> QED BY <2>1
<1>3. q < n
  <2>1. CASE q = 0
    BY <2>1
  <2>2. CASE q > 0
    <3>1. PICK d \in Nat : g = d + 2
      <4>1. g - 2 \in Nat
        OBVIOUS
      <4> QED BY <4>1
    <3>2. q * g = q * d + 2 * q
      BY <3>1
    <3>3. q * d \in Nat
      BY <2>2, <3>1
    <3> QED BY <1>1, <2>2, <3>2, <3>3
  <2> QED BY <1>2, <2>1, <2>2
<1> QED BY <1>1, <1>2, <1>3

\* f is what the recursion of VarintSize goes through.
VarintsUp(f, n) ==
    f \in [0..n -> Nat] /\ \A k \in 0..n : f[k] = IF k < Group THEN 1 ELSE 1 + f[k \div Group]

LEMMA VarintsExist == \A n \in Nat : \E f : VarintsUp(f, n)
<1> DEFINE Good == {n \in Nat : \E f : VarintsUp(f, n)}
<1>0. Group \in Nat \ {0, 1}
  BY MessagesAssumption
<1>1. 0 \in Good
  <2> DEFINE f == [k \in 0..0 |-> 1]
  <2>1. f \in [0..0 -> Nat] /\ f[0] = 1
    OBVIOUS
  <2>2. \A k \in 0..0 : f[k] = 1 /\ k < Group
    BY <1>0, <2>1
  <2> HIDE DEF f
  <2>3. VarintsUp(f, 0)
    BY <2>1, <2>2 DEF VarintsUp
  <2> QED BY <2>3
<1>2. ASSUME NEW n \in Nat, n \in Good PROVE n + 1 \in Good
  <2>1. PICK f : VarintsUp(f, n)
    BY <1>2
  <2>2. PICK q \in Nat : q = (n + 1) \div Group /\ q <= n
    <3>1. (n + 1) \div Group \in Nat /\ (n + 1) \div Group < n + 1
      BY <1>0, Quotient
    <3> QED BY <3>1
  <2> DEFINE last == IF n + 1 < Group THEN 1 ELSE 1 + f[q]
             g == [k \in 0..(n + 1) |-> IF k = n + 1 THEN last ELSE f[k]]
  <2>3. f \in [0..n -> Nat] /\ \A k \in 0..n : f[k] = IF k < Group THEN 1 ELSE 1 + f[k \div Group]
    BY <2>1 DEF VarintsUp
  <2>4. \A k \in 0..(n + 1) : k = n + 1 \/ k \in 0..n
    OBVIOUS
  <2>5. last \in Nat
    BY <2>2, <2>3
  <2>6. g \in [0..(n + 1) -> Nat]
    <3> HIDE DEF last
    <3> QED BY <2>3, <2>4, <2>5
  <2>7. g[n + 1] = last /\ \A k \in 0..n : g[k] = f[k]
    <3> HIDE DEF last
    <3> QED OBVIOUS
  <2> HIDE DEF g
  <2>8. ASSUME NEW k \in 0..(n + 1)
        PROVE  g[k] = IF k < Group THEN 1 ELSE 1 + g[k \div Group]
    <3>1. CASE k = n + 1
      BY <2>2, <2>7, <3>1
    <3>2. CASE k \in 0..n
      <4>1. CASE k < Group
        BY <2>3, <2>7, <3>2, <4>1
      <4>2. CASE ~(k < Group)
        <5>1. k \div Group \in 0..n
          <6>1. k \div Group \in Nat /\ k \div Group < k
            BY <1>0, <3>2, <4>2, Quotient
          <6> QED BY <3>2, <6>1
        <5>2. g[k \div Group] = f[k \div Group] /\ g[k] = f[k]
          BY <2>7, <3>2, <5>1, Zenon
        <5> QED BY <2>3, <3>2, <4>2, <5>2
      <4> QED BY <4>1, <4>2
    <3> QED BY <2>4, <3>1, <3>2
  <2>9. VarintsUp(g, n + 1)
    BY <2>6, <2>8 DEF VarintsUp
  <2> QED BY <2>9
<1>3. \A n \in Nat : n \in Good
  <2> HIDE DEF Good
  <2> QED BY <1>1, <1>2, NatsByInduction
<1> QED BY <1>3

LEMMA VarintType == \A n \in Nat : VarintSize(n) \in Nat
<1> SUFFICES ASSUME NEW n \in Nat PROVE VarintSize(n) \in Nat
  OBVIOUS
<1>1. PICK f : VarintsUp(f, n)
  BY VarintsExist
<1>0. Group \in Nat \ {0, 1}
  BY MessagesAssumption
<1> DEFINE IsIt(g) == g = [k \in 0..n |-> IF k < Group THEN 1 ELSE 1 + g[k \div Group]]
           g == CHOOSE g : IsIt(g)
<1>2. VarintSize(n) = g[n]
  BY DEF VarintSize
<1>3. IsIt(f)
  BY <1>1 DEF VarintsUp
<1>4. IsIt(g)
  BY <1>3
<1> HIDE DEF g
<1>5. \A k \in 0..n : g[k] = IF k < Group THEN 1 ELSE 1 + g[k \div Group]
  BY <1>4
<1> HIDE DEF IsIt
<1> DEFINE Good == {i \in Nat : \A k \in 0..i : k <= n => g[k] \in Nat}
<1>6. 0 \in Good
  <2>1. g[0] = 1
    BY <1>0, <1>5
  <2> QED BY <2>1
<1>7. ASSUME NEW i \in Nat, i \in Good PROVE i + 1 \in Good
  <2> SUFFICES ASSUME NEW k \in 0..(i + 1), k <= n PROVE g[k] \in Nat
    OBVIOUS
  <2>1. \A j \in 0..i : j <= n => g[j] \in Nat
    BY <1>7
  <2> HIDE DEF Good
  <2>2. CASE k < Group
    BY <1>5, <2>2
  <2>3. CASE ~(k < Group)
    <3>1. k \div Group \in Nat /\ k \div Group < k
      BY <1>0, <2>3, Quotient
    <3>2. PICK q \in Nat : q = k \div Group
      BY <3>1
    <3>3. q \in 0..i /\ q <= n
      BY <3>1, <3>2
    <3>4. g[k] = 1 + g[q] /\ g[q] \in Nat
      BY <1>5, <2>1, <2>3, <3>2, <3>3
    <3> QED BY <3>4
  <2> QED BY <2>2, <2>3
<1>8. n \in Good
  <2> HIDE DEF Good
  <2> QED BY <1>6, <1>7, NatsByInduction
<1> QED BY <1>2, <1>8

LEMMA DelimitedType == \A n \in Nat : DelimitedSize(n) \in Nat
BY VarintType DEF DelimitedSize

LEMMA PayloadType == \A t \in Tokens : PayloadSize(t) \in Nat
<1> SUFFICES ASSUME NEW t \in Tokens PROVE PayloadSize(t) \in Nat
  OBVIOUS
<1>1. CASE t \in [num : 1..15, wt : {Varint}, val : UInt64]
  <2>1. t.wt = Varint /\ t.val \in Nat
    BY <1>1, MessagesAssumption DEF UInt64
  <2>2. PayloadSize(t) = VarintSize(t.val)
    BY <2>1 DEF PayloadSize, Varint, Fixed32, Delimited
  <2> QED BY <2>1, <2>2, VarintType
<1>2. CASE t \in [num : 1..15, wt : {Delimited}, val : Bytes]
  <2>1. t.wt = Delimited /\ Len(t.val) \in Nat
    BY <1>2, LenProperties DEF Bytes
  <2>2. PayloadSize(t) = DelimitedSize(4 * Len(t.val))
    BY <2>1 DEF PayloadSize, Varint, Fixed32, Delimited
  <2>3. 4 * Len(t.val) \in Nat
    BY <2>1
  <2> QED BY <2>2, <2>3, DelimitedType
<1>3. CASE t \in [num : 1..15, wt : {Fixed32}, val : Nat]
  <2>1. PayloadSize(t) = 4
    BY <1>3 DEF PayloadSize, Varint, Fixed32, Delimited
  <2> QED BY <2>1
<1> QED BY <1>1, <1>2, <1>3 DEF Tokens

\* The length of one token of a message, and of the message that these tokens are.
LengthOf(fields, t) ==
    TokenLength(t, TypeOfToken(fields, t),
                LAMBDA type, x : WireLengthWith(FieldsOfNested(type), x, LAMBDA ty, y : 0))
FlatLengthOf(fields, t) == TokenLength(t, TypeOfToken(fields, t), LAMBDA ty, y : 0)
FlatLength(fields, w) == WireLengthWith(fields, w, LAMBDA ty, y : 0)

LEMMA LengthIs ==
    ASSUME NEW fields, NEW w
    PROVE  /\ WireLength(fields, w) = SumOf([k \in DOMAIN w |-> LengthOf(fields, w[k])])
           /\ FlatLength(fields, w) = SumOf([k \in DOMAIN w |-> FlatLengthOf(fields, w[k])])
BY DEF WireLength, WireLengthWith, FlatLength, LengthOf, FlatLengthOf

LEMMA TokenLengthIs ==
    ASSUME NEW fields, NEW t
    PROVE  /\ LengthOf(fields, t) =
                IF TypeOfToken(fields, t) = "string" THEN 1 + DelimitedSize(TextLength[t.val])
                ELSE IF TypeOfToken(fields, t) \in Nested
                  THEN 1 + DelimitedSize(FlatLength(FieldsOfNested(TypeOfToken(fields, t)), t.val))
                ELSE 1 + PayloadSize(t)
           /\ FlatLengthOf(fields, t) =
                IF TypeOfToken(fields, t) = "string" THEN 1 + DelimitedSize(TextLength[t.val])
                ELSE IF TypeOfToken(fields, t) \in Nested THEN 1 + DelimitedSize(0)
                ELSE 1 + PayloadSize(t)
BY DEF LengthOf, FlatLengthOf, TokenLength, FlatLength, Nested

LEMMA TypeOf ==
    ASSUME NEW fields, IsFields(fields), NEW t
    PROVE  /\ \A k \in DOMAIN fields : t.num = k => TypeOfToken(fields, t) = fields[k].type
           /\ TypeOfToken(fields, t) \in {"unknown"} \cup {fields[k].type : k \in DOMAIN fields}
<1> DEFINE K == {k \in DOMAIN fields : fields[k].num = t.num}
<1>1. TypeOfToken(fields, t) = IF K = {} THEN "unknown" ELSE fields[CHOOSE k \in K : TRUE].type
  BY DEF TypeOfToken
<1>2. \A k \in DOMAIN fields : fields[k].num = k
  BY DEF IsFields
<1>3. ASSUME NEW k \in DOMAIN fields, t.num = k PROVE TypeOfToken(fields, t) = fields[k].type
  <2>1. K = {k}
    BY <1>2, <1>3
  <2> HIDE DEF K
  <2>2. (CHOOSE j \in K : TRUE) = k /\ K # {}
    BY <2>1
  <2> QED BY <1>1, <2>2
<1>4. TypeOfToken(fields, t) \in {"unknown"} \cup {fields[k].type : k \in DOMAIN fields}
  <2>1. K # {} => (CHOOSE k \in K : TRUE) \in K
    BY Zenon
  <2> QED BY <1>1, <2>1
<1> QED BY <1>3, <1>4

\* Without nested messages the two lengths are the same, and the two sizes too.
LEMMA FlatIsFull ==
    ASSUME NEW fields, IsFields(fields), \A k \in DOMAIN fields : ~fields[k].repeated,
           NEW w, NEW m
    PROVE  /\ FlatLength(fields, w) = WireLength(fields, w)
           /\ SizeWith(fields, m, ScalarSize) = ByteSizeLong(fields, m)
<1>1. \A k \in DOMAIN fields : fields[k].type \in Scalars /\ fields[k].type \notin Nested
  BY FieldFacts DEF Scalars, Nested
<1>2. \A t : FlatLengthOf(fields, t) = LengthOf(fields, t)
  <2>1. \A t : TypeOfToken(fields, t) \notin Nested
    BY <1>1, TypeOf DEF Nested
  <2> QED BY <2>1, TokenLengthIs
<1>3. FlatLength(fields, w) = WireLength(fields, w)
  BY <1>2, LengthIs
<1>4. \A k \in DOMAIN fields : \A v : SizeNested(fields[k].type, v) = ScalarSize(fields[k].type, v)
  BY <1>1 DEF SizeNested, Nested
<1>5. SizeWith(fields, m, ScalarSize) = ByteSizeLong(fields, m)
  BY <1>4 DEF ByteSizeLong, SizeWith
<1> QED BY <1>3, <1>5

\* What ByteSizeLong counts for one field.
FieldSize(fields, m, k) ==
    LET f == fields[k]
        v == m[fields[k].name]
    IN  IF f.repeated THEN SumOf([j \in DOMAIN v |-> 1 + SizeNested(f.type, v[j])])
        ELSE IF v # Default(f) THEN 1 + SizeNested(f.type, v)
        ELSE 0

LEMMA SizeIs ==
    ASSUME NEW fields, IsFields(fields), NEW m
    PROVE  ByteSizeLong(fields, m) =
             SumOf([k \in DOMAIN fields |-> FieldSize(fields, m, k)]) + TokensSize(m.unknown)
<1> DEFINE size(f, v) ==
             CASE f.repeated -> SumOf([j \in DOMAIN v |-> 1 + SizeNested(f.type, v[j])])
               [] ~f.repeated /\ v # Default(f) -> 1 + SizeNested(f.type, v)
               [] OTHER -> 0
<1>1. ByteSizeLong(fields, m) =
        SumOf([k \in DOMAIN fields |-> size(fields[k], m[fields[k].name])]) + TokensSize(m.unknown)
  BY DEF ByteSizeLong, SizeWith
<1>2. \A k \in DOMAIN fields : fields[k].repeated \in BOOLEAN
  BY FieldFacts
<1>3. ASSUME NEW k \in DOMAIN fields
      PROVE  size(fields[k], m[fields[k].name]) = FieldSize(fields, m, k)
  BY <1>2 DEF FieldSize
<1> HIDE DEF size
<1> QED BY <1>1, <1>3

LEMMA SumOne == \A x \in Nat : SumOf(<<x>>) = x
<1> SUFFICES ASSUME NEW x \in Nat PROVE SumOf(<<x>>) = x
  OBVIOUS
<1>1. <<>> \in Seq(Nat) /\ Append(<<>>, x) = <<x>>
  BY EmptySeq
<1>2. SumOf(Append(<<>>, x)) = SumOf(<<>>) + x /\ SumOf(<<>>) = 0
  BY <1>1, SumFacts
<1> QED BY <1>1, <1>2

\* The nested messages of m have the sizes that ByteSizeLong gives them.
Measured(fields, m) ==
    \A k \in DOMAIN fields : fields[k].repeated =>
      LET type == fields[k].type
          v    == m[fields[k].name]
      IN  \A j \in DOMAIN v :
            /\ SizeNested(type, v[j]) \in Nat
            /\ SizeNested(type, v[j]) =
                 DelimitedSize(FlatLength(FieldsOfNested(type), EncodeNested(type, v[j])))

LEMMA RepeatedSize ==
    ASSUME NEW fields, IsFields(fields), NEW m, Sendable(fields, m), Measured(fields, m),
           NEW k \in DOMAIN fields, fields[k].repeated
    PROVE  LET B == Block(fields, m, k)
           IN  /\ \A j \in DOMAIN B : LengthOf(fields, B[j]) \in Nat
               /\ FieldSize(fields, m, k) \in Nat
               /\ SumOf([j \in DOMAIN B |-> LengthOf(fields, B[j])]) = FieldSize(fields, m, k)
<1> DEFINE B == Block(fields, m, k)
           type == fields[k].type
           v == m[fields[k].name]
<1>1. k \in Nat \ {0} /\ fields[k].num = k /\ type \in Nested /\ IsSeq(v)
  BY FieldFacts DEF Sendable
<1>2. Len(v) \in Nat /\ DOMAIN v = 1..Len(v)
  BY <1>1, IsSeqFacts
<1>3. B = [j \in DOMAIN v |-> Token(k, Delimited, EncodeNested(type, v[j]))]
  BY <1>1, BlockIs
<1>4. FieldSize(fields, m, k) = SumOf([j \in DOMAIN v |-> 1 + SizeNested(type, v[j])])
  BY DEF FieldSize
<1>5. \A j \in DOMAIN v :
        /\ SizeNested(type, v[j]) \in Nat
        /\ SizeNested(type, v[j]) = DelimitedSize(FlatLength(FieldsOfNested(type), EncodeNested(type, v[j])))
  BY DEF Measured
<1> HIDE DEF B, v, type
<1>6. DOMAIN B = DOMAIN v
  BY <1>3
<1>7. ASSUME NEW j \in DOMAIN v PROVE LengthOf(fields, B[j]) = 1 + SizeNested(type, v[j])
  <2>1. PICK t : t = Token(k, Delimited, EncodeNested(type, v[j]))
    OBVIOUS
  <2>2. B[j] = t /\ t.num = k /\ t.val = EncodeNested(type, v[j])
    BY <1>1, <1>3, <2>1, TokenFacts
  <2>3. TypeOfToken(fields, t) = type
    BY <2>2, TypeOf DEF type
  <2>4. LengthOf(fields, t) = 1 + DelimitedSize(FlatLength(FieldsOfNested(type), t.val))
    BY <1>1, <2>3, TokenLengthIs DEF Nested
  <2> QED BY <1>5, <2>2, <2>4
<1>8. [j \in DOMAIN B |-> LengthOf(fields, B[j])] = [j \in DOMAIN v |-> 1 + SizeNested(type, v[j])]
  BY <1>6, <1>7
<1>9. [j \in DOMAIN v |-> 1 + SizeNested(type, v[j])] \in Seq(Nat)
  <2>1. [j \in DOMAIN v |-> 1 + SizeNested(type, v[j])] \in [1..Len(v) -> Nat]
    BY <1>2, <1>5
  <2> QED BY <1>2, <2>1, FunctionIsSeq
<1>10. SumOf([j \in DOMAIN v |-> 1 + SizeNested(type, v[j])]) \in Nat
  BY <1>9, SumFacts
<1>11. \A j \in DOMAIN B : LengthOf(fields, B[j]) \in Nat
  BY <1>5, <1>6, <1>7
<1> QED BY <1>4, <1>8, <1>10, <1>11 DEF B

LEMMA EncodedType ==
    ASSUME NEW type \in Scalars, type \notin {"float", "bytes", "string"}, NEW v \in Values(type)
    PROVE  EncodeScalar(type, v) \in Nat
<1>1. Wide \in Nat \ {0} /\ Narrow \in Nat \ {0} /\ Wide \div 2 \in Int /\ Narrow \div 2 \in Int
  BY MessagesAssumption
<1>2. CASE type \in {"int32", "int64"}
  <2>1. v \in Int
    BY <1>1, <1>2 DEF Values, Int32, Int64
  <2>2. v % Wide \in Nat
    BY <1>1, <2>1
  <2> QED BY <1>2, <2>2 DEF EncodeScalar
<1>3. CASE type = "bool"
  BY <1>3 DEF EncodeScalar
<1>4. CASE type = "uint32"
  BY <1>1, <1>4 DEF EncodeScalar, Values, UInt32
<1>5. CASE type = "uint64"
  BY <1>1, <1>5 DEF EncodeScalar, Values, UInt64
<1> QED BY <1>2, <1>3, <1>4, <1>5 DEF Scalars

LEMMA ScalarSizeIs ==
    ASSUME NEW fields, IsFields(fields), NEW k \in DOMAIN fields, ~fields[k].repeated,
           NEW v \in Values(fields[k].type),
           NEW t, t = Token(k, WireType(fields[k].type), EncodeScalar(fields[k].type, v))
    PROVE  /\ LengthOf(fields, t) = 1 + ScalarSize(fields[k].type, v)
           /\ ScalarSize(fields[k].type, v) \in Nat
<1> DEFINE type == fields[k].type
<1>1. k \in Nat \ {0} /\ type \in Scalars
  BY FieldFacts
<1>2. t.num = k /\ t.wt = WireType(type) /\ t.val = EncodeScalar(type, v)
  BY <1>1, TokenFacts
<1>3. TypeOfToken(fields, t) = type
  BY <1>2, TypeOf
<1>4. v \in Values(type)
  OBVIOUS
<1> HIDE DEF type
<1>5. type \notin Nested
  BY <1>1 DEF Scalars, Nested
<1>6. CASE type = "string"
  <2>1. LengthOf(fields, t) = 1 + DelimitedSize(TextLength[v])
    BY <1>2, <1>3, <1>6, TokenLengthIs DEF EncodeScalar
  <2>2. ScalarSize(type, v) = DelimitedSize(TextLength[v])
    BY <1>6 DEF ScalarSize
  <2>3. TextLength[v] \in Nat
    BY <1>4, <1>6 DEF Values, Texts, TextLength
  <2> QED BY <2>1, <2>2, <2>3, DelimitedType DEF type
<1>7. CASE type # "string"
  <2>1. LengthOf(fields, t) = 1 + PayloadSize(t)
    BY <1>3, <1>5, <1>7, TokenLengthIs
  <2>2. CASE type = "float"
    <3>1. PayloadSize(t) = 4
      BY <1>2, <2>2 DEF PayloadSize, WireType, Fixed32, Varint, Delimited
    <3>2. ScalarSize(type, v) = 4
      BY <2>2 DEF ScalarSize
    <3> QED BY <2>1, <3>1, <3>2 DEF type
  <2>3. CASE type = "bytes"
    <3>1. t.wt = Delimited /\ t.val = v
      BY <1>2, <2>3 DEF WireType, EncodeScalar
    <3>2. PayloadSize(t) = DelimitedSize(4 * Len(v))
      BY <3>1 DEF PayloadSize, Fixed32, Varint, Delimited
    <3>3. ScalarSize(type, v) = DelimitedSize(4 * Len(v))
      BY <2>3 DEF ScalarSize
    <3>4. 4 * Len(v) \in Nat
      <4>1. Len(v) \in Nat
        BY <1>4, <2>3, LenProperties DEF Values, Bytes
      <4> QED BY <4>1
    <3> QED BY <2>1, <3>2, <3>3, <3>4, DelimitedType DEF type
  <2>4. CASE type \notin {"float", "bytes"}
    <3>1. t.wt = Varint /\ t.val = EncodeScalar(type, v)
      BY <1>1, <1>2, <1>7, <2>4 DEF WireType, Scalars
    <3>2. PayloadSize(t) = VarintSize(EncodeScalar(type, v))
      BY <3>1 DEF PayloadSize, Fixed32, Varint, Delimited
    <3>3. ScalarSize(type, v) = VarintSize(EncodeScalar(type, v))
      BY <1>7, <2>4 DEF ScalarSize
    <3>4. EncodeScalar(type, v) \in Nat
      BY <1>1, <1>4, <1>7, <2>4, EncodedType
    <3> QED BY <2>1, <3>2, <3>3, <3>4, VarintType DEF type
  <2> QED BY <2>2, <2>3, <2>4
<1> QED BY <1>6, <1>7

LEMMA ScalarFieldSize ==
    ASSUME NEW fields, IsFields(fields), NEW m, Sendable(fields, m),
           NEW k \in DOMAIN fields, ~fields[k].repeated
    PROVE  LET B == Block(fields, m, k)
           IN  /\ \A j \in DOMAIN B : LengthOf(fields, B[j]) \in Nat
               /\ FieldSize(fields, m, k) \in Nat
               /\ SumOf([j \in DOMAIN B |-> LengthOf(fields, B[j])]) = FieldSize(fields, m, k)
<1> DEFINE B == Block(fields, m, k)
           type == fields[k].type
           v == m[fields[k].name]
<1>1. k \in Nat \ {0} /\ fields[k].num = k /\ type \in Scalars /\ v \in Values(type)
  BY FieldFacts DEF Sendable
<1>2. type \notin Nested
  BY <1>1 DEF Scalars, Nested
<1>3. EncodeNested(type, v) = EncodeScalar(type, v) /\ SizeNested(type, v) = ScalarSize(type, v)
  BY <1>2 DEF EncodeNested, SizeNested, Nested
<1>4. CASE v = Default(fields[k])
  <2>1. B = <<>>
    BY <1>4, BlockIs
  <2>2. FieldSize(fields, m, k) = 0
    BY <1>4 DEF FieldSize
  <2> HIDE DEF B
  <2>3. [j \in DOMAIN B |-> LengthOf(fields, B[j])] = <<>> /\ DOMAIN B = {}
    BY <2>1
  <2>4. SumOf(<<>>) = 0
    BY SumFacts
  <2> QED BY <2>2, <2>3, <2>4 DEF B
<1>5. CASE v # Default(fields[k])
  <2>1. PICK t : t = Token(k, WireType(type), EncodeScalar(type, v))
    OBVIOUS
  <2>2. B = <<t>>
    BY <1>1, <1>3, <1>5, <2>1, BlockIs
  <2>3. FieldSize(fields, m, k) = 1 + ScalarSize(type, v)
    BY <1>3, <1>5 DEF FieldSize
  <2>4. LengthOf(fields, t) = 1 + ScalarSize(type, v) /\ ScalarSize(type, v) \in Nat
    BY <1>1, <2>1, ScalarSizeIs
  <2> HIDE DEF B, v, type
  <2>5. DOMAIN B = {1} /\ B[1] = t
    BY <2>2
  <2>6. [j \in DOMAIN B |-> LengthOf(fields, B[j])] = << LengthOf(fields, t) >>
    BY <2>5
  <2>7. LengthOf(fields, t) \in Nat
    BY <2>4
  <2>8. SumOf(<< LengthOf(fields, t) >>) = LengthOf(fields, t)
    BY <2>7, SumOne
  <2> QED BY <2>3, <2>4, <2>5, <2>6, <2>7, <2>8 DEF B
<1> QED BY <1>4, <1>5

\* The size that is computed before a message is written is the size of what is written.
LEMMA SizeTrip ==
    ASSUME NEW fields, IsFields(fields), NEW m, Sendable(fields, m), Measured(fields, m),
           \A j \in DOMAIN m.unknown : /\ LengthOf(fields, m.unknown[j]) = 1 + PayloadSize(m.unknown[j])
                                       /\ PayloadSize(m.unknown[j]) \in Nat
    PROVE  /\ ByteSizeLong(fields, m) = WireLength(fields, Serialize(fields, m))
           /\ ByteSizeLong(fields, m) \in Nat
<1> DEFINE B == Blocks(fields, m)
           u == m.unknown
           S == (UNION {Range(B[k]) : k \in DOMAIN fields}) \cup Range(u)
           w == FlattenSeq(B) \o u
           g == [t \in S |-> LengthOf(fields, t)]
           size == [k \in DOMAIN fields |-> FieldSize(fields, m, k)]
<1>1. Len(fields) \in Nat /\ DOMAIN fields = 1..Len(fields)
  BY FieldFacts
<1>2. \A k \in DOMAIN fields :
        /\ B[k] = Block(fields, m, k) /\ IsSeq(B[k])
        /\ \A j \in DOMAIN B[k] : LengthOf(fields, B[k][j]) \in Nat
        /\ FieldSize(fields, m, k) \in Nat
        /\ SumOf([j \in DOMAIN B[k] |-> LengthOf(fields, B[k][j])]) = FieldSize(fields, m, k)
  <2> SUFFICES ASSUME NEW k \in DOMAIN fields
               PROVE  /\ B[k] = Block(fields, m, k) /\ IsSeq(B[k])
                      /\ \A j \in DOMAIN B[k] : LengthOf(fields, B[k][j]) \in Nat
                      /\ FieldSize(fields, m, k) \in Nat
                      /\ SumOf([j \in DOMAIN B[k] |-> LengthOf(fields, B[k][j])]) = FieldSize(fields, m, k)
    OBVIOUS
  <2>1. B[k] = Block(fields, m, k)
    BY DEF Blocks
  <2>2. IsSeq(Block(fields, m, k))
    BY BlockTrips
  <2>3. /\ \A j \in DOMAIN Block(fields, m, k) : LengthOf(fields, Block(fields, m, k)[j]) \in Nat
        /\ FieldSize(fields, m, k) \in Nat
        /\ SumOf([j \in DOMAIN Block(fields, m, k) |-> LengthOf(fields, Block(fields, m, k)[j])])
             = FieldSize(fields, m, k)
    <3>1. CASE fields[k].repeated
      BY <3>1, RepeatedSize
    <3>2. CASE ~fields[k].repeated
      BY <3>2, ScalarFieldSize
    <3> QED BY <3>1, <3>2
  <2> HIDE DEF B
  <2> QED BY <2>1, <2>2, <2>3
<1>3. IsSeq(u)
  BY DEF Sendable
<1>4. DOMAIN B = 1..Len(fields) /\ B = [k \in 1..Len(fields) |-> B[k]]
  BY <1>1 DEF Blocks
<1> HIDE DEF B, u
<1>5. \A k \in 1..Len(fields) : B[k] \in Seq(S)
  <2> SUFFICES ASSUME NEW k \in 1..Len(fields) PROVE B[k] \in Seq(S)
    OBVIOUS
  <2>1. B[k] \in Seq(Range(B[k])) /\ Range(B[k]) \subseteq S
    BY <1>1, <1>2 DEF IsSeq
  <2>2. Len(B[k]) \in Nat /\ B[k] \in [1..Len(B[k]) -> Range(B[k])]
    BY <2>1, LenProperties
  <2>3. B[k] \in [1..Len(B[k]) -> S]
    BY <2>1, <2>2
  <2> HIDE DEF S
  <2> QED BY <2>2, <2>3, FunctionIsSeq
<1>6. u \in Seq(S)
  <2>1. u \in Seq(Range(u)) /\ Range(u) \subseteq S
    BY <1>3 DEF IsSeq
  <2>2. Len(u) \in Nat /\ u \in [1..Len(u) -> Range(u)]
    BY <2>1, LenProperties
  <2>3. u \in [1..Len(u) -> S]
    BY <2>1, <2>2
  <2> HIDE DEF S
  <2> QED BY <2>2, <2>3, FunctionIsSeq
<1>7. \A t \in S : LengthOf(fields, t) \in Nat
  <2>1. \A k \in DOMAIN fields : \A t \in Range(B[k]) : LengthOf(fields, t) \in Nat
    BY <1>2 DEF Range
  <2>2. \A t \in Range(u) : LengthOf(fields, t) \in Nat
    BY DEF Range, u
  <2> QED BY <2>1, <2>2
<1> HIDE DEF S
<1>8. g \in [S -> Nat]
  BY <1>7
<1>9. size \in [1..Len(fields) -> Nat]
  BY <1>1, <1>2
<1>10. B \in Seq(Seq(S)) /\ Len(B) = Len(fields)
  <2>1. B \in [1..Len(fields) -> Seq(S)]
    BY <1>4, <1>5
  <2> QED BY <1>1, <2>1, FunctionIsSeq
<1>11. ASSUME NEW v \in Seq(S)
       PROVE  Over(g, v) = [j \in DOMAIN v |-> LengthOf(fields, v[j])]
  <2>1. \A j \in DOMAIN v : v[j] \in S
    BY LenProperties, ElementOfSeq
  <2> QED BY <2>1 DEF Over
<1>12. \A k \in 1..Len(B) : SumOf(Over(g, B[k])) = size[k]
  <2> SUFFICES ASSUME NEW k \in 1..Len(fields) PROVE SumOf(Over(g, B[k])) = size[k]
    BY <1>10
  <2>1. Over(g, B[k]) = [j \in DOMAIN B[k] |-> LengthOf(fields, B[k][j])]
    BY <1>5, <1>11
  <2> HIDE DEF g
  <2> QED BY <1>1, <1>2, <2>1
<1> HIDE DEF g, size
<1>13. FlattenSeq(B) \in Seq(S) /\ SumOf(Over(g, FlattenSeq(B))) = SumOf(size)
  <2>1. size \in [1..Len(B) -> Nat] /\ B \in Seq(Seq(S))
    BY <1>9, <1>10
  <2> HIDE DEF w
  <2>2. AddUp(g, B, size)
    BY <1>12, <2>1 DEF AddUp
  <2> QED BY <1>8, <2>1, <2>2, SumFlat
<1>14. SumOf(Over(g, w)) = SumOf(size) + SumOf(Over(g, u)) /\ w \in Seq(S)
  BY <1>6, <1>8, <1>13, SumConcat, ConcatProperties
<1>15. WireLength(fields, Serialize(fields, m)) = SumOf(Over(g, w))
  <2>1. Serialize(fields, m) = w
    BY SerializeIs DEF B, u
  <2>2. Over(g, w) = [j \in DOMAIN w |-> LengthOf(fields, w[j])]
    BY <1>11, <1>14
  <2>3. WireLength(fields, w) = SumOf([j \in DOMAIN w |-> LengthOf(fields, w[j])])
    BY LengthIs
  <2> HIDE DEF w
  <2> QED BY <2>1, <2>2, <2>3
<1>16. SumOf(Over(g, u)) = TokensSize(u)
  <2>1. Over(g, u) = [j \in DOMAIN u |-> LengthOf(fields, u[j])]
    BY <1>6, <1>11
  <2>2. \A j \in DOMAIN u : LengthOf(fields, u[j]) = 1 + PayloadSize(u[j])
    BY DEF u
  <2>3. Over(g, u) = [j \in DOMAIN u |-> 1 + PayloadSize(u[j])]
    BY <2>1, <2>2
  <2> QED BY <2>3 DEF TokensSize
<1>17. ByteSizeLong(fields, m) = SumOf(size) + TokensSize(u)
  BY SizeIs DEF size, u
<1>18. SumOf(size) \in Nat /\ SumOf(Over(g, u)) \in Nat
  <2>1. size \in Seq(Nat)
    BY <1>1, <1>9, FunctionIsSeq
  <2> QED BY <1>6, <1>8, <2>1, SumFacts, SumOver
<1> QED BY <1>14, <1>15, <1>16, <1>17, <1>18

\* So it is for the nested messages of the service,
LEMMA NestedSize ==
    ASSUME NEW type \in Nested, NEW x, Sendable(FieldsOfNested(type), x), x.unknown = <<>>
    PROVE  /\ SizeNested(type, x) \in Nat
           /\ SizeNested(type, x) =
                DelimitedSize(FlatLength(FieldsOfNested(type), EncodeNested(type, x)))
<1> DEFINE F == FieldsOfNested(type)
<1>1. IsFields(F) /\ \A k \in DOMAIN F : ~F[k].repeated
  <2>1. CASE type = "SearchResult"
    <3>1. F = SearchResultFields
      BY <2>1 DEF FieldsOfNested
    <3> HIDE DEF F
    <3> QED BY <3>1, SearchResultTable
  <2>2. CASE type = "ShardInfo"
    <3>1. F = ShardInfoFields
      BY <2>2 DEF FieldsOfNested
    <3> HIDE DEF F
    <3> QED BY <3>1, ShardInfoTable
  <2> QED BY <2>1, <2>2 DEF Nested
<1>2. EncodeNested(type, x) = SerializeWith(F, x, EncodeScalar)
  BY DEF Nested, EncodeNested, SerializeNested
<1>3. SizeNested(type, x) = DelimitedSize(SizeWith(F, x, ScalarSize))
  BY DEF Nested, SizeNested
<1>4. Sendable(F, x)
  OBVIOUS
<1> HIDE DEF F
<1>5. SerializeWith(F, x, EncodeScalar) = Serialize(F, x)
  BY <1>1, FlatIs
<1>6. /\ SizeWith(F, x, ScalarSize) = ByteSizeLong(F, x)
      /\ FlatLength(F, Serialize(F, x)) = WireLength(F, Serialize(F, x))
  BY <1>1, FlatIsFull
<1>7. Measured(F, x)
  BY <1>1 DEF Measured
<1>8. ByteSizeLong(F, x) = WireLength(F, Serialize(F, x)) /\ ByteSizeLong(F, x) \in Nat
  <2>1. DOMAIN x.unknown = {}
    OBVIOUS
  <2> QED BY <1>1, <1>4, <1>7, <2>1, SizeTrip
<1>9. SizeNested(type, x) = DelimitedSize(FlatLength(F, EncodeNested(type, x)))
  BY <1>2, <1>3, <1>5, <1>6, <1>8
<1> QED BY <1>3, <1>6, <1>8, <1>9, DelimitedType DEF F

\* for its responses,
LEMMA ResponseSize ==
    ASSUME NEW method \in Methods, NEW m \in Responses(method)
    PROVE  LET fields == ResponseFields(method)
           IN  ByteSizeLong(fields, m) = WireLength(fields, Serialize(fields, m))
<1> DEFINE fields == ResponseFields(method)
<1>1. IsFields(fields) /\ Sendable(fields, m)
  BY FieldTables, ResponsesSendable
<1>2. m.unknown = <<>>
  BY DEF Methods, Responses, InsertResponses, BulkInsertResponses, SearchResponses,
         DeleteResponses, InfoResponses
<1>3. Measured(fields, m)
  <2>1. CASE method = "Search"
    <3>1. fields = SearchResponseFields /\ m.results \in Seq(SearchResults)
      BY <2>1 DEF ResponseFields, Responses, SearchResponses
    <3>2. \A j \in DOMAIN m.results : m.results[j] \in SearchResults
      BY <3>1, LenProperties, ElementOfSeq
    <3>3. \A x \in SearchResults : Sendable(FieldsOfNested("SearchResult"), x) /\ x.unknown = <<>>
      BY SearchResultSend DEF FieldsOfNested, SearchResults
    <3>4. \A x \in SearchResults :
            /\ SizeNested("SearchResult", x) \in Nat
            /\ SizeNested("SearchResult", x) =
                 DelimitedSize(FlatLength(FieldsOfNested("SearchResult"), EncodeNested("SearchResult", x)))
      BY <3>3, NestedSize DEF Nested
    <3> HIDE DEF fields
    <3> QED BY <3>1, <3>2, <3>4, SearchResponseTable DEF Measured
  <2>2. CASE method = "GetInfo"
    <3>1. fields = InfoResponseFields /\ m.shards \in Seq(ShardInfos)
      BY <2>2 DEF ResponseFields, Responses, InfoResponses
    <3>2. \A j \in DOMAIN m.shards : m.shards[j] \in ShardInfos
      BY <3>1, LenProperties, ElementOfSeq
    <3>3. \A x \in ShardInfos : Sendable(FieldsOfNested("ShardInfo"), x) /\ x.unknown = <<>>
      BY ShardInfoSend DEF FieldsOfNested, ShardInfos
    <3>4. \A x \in ShardInfos :
            /\ SizeNested("ShardInfo", x) \in Nat
            /\ SizeNested("ShardInfo", x) =
                 DelimitedSize(FlatLength(FieldsOfNested("ShardInfo"), EncodeNested("ShardInfo", x)))
      BY <3>3, NestedSize DEF Nested
    <3> HIDE DEF fields
    <3> QED BY <3>1, <3>2, <3>4, InfoResponseTable DEF Measured
  <2>3. CASE method \in {"Insert", "BulkInsert", "Delete"}
    <3>1. \A k \in DOMAIN fields : ~fields[k].repeated
      BY <2>3, InsertResponseTable, BulkInsertResponseTable, DeleteResponseTable DEF ResponseFields
    <3> HIDE DEF fields
    <3> QED BY <3>1 DEF Measured
  <2> QED BY <2>1, <2>2, <2>3 DEF Methods
<1> HIDE DEF fields
<1>4. DOMAIN m.unknown = {}
  BY <1>2
<1>5. ByteSizeLong(fields, m) = WireLength(fields, Serialize(fields, m))
  BY <1>1, <1>3, <1>4, SizeTrip
<1> QED BY <1>5 DEF fields

\* and for its requests, unknown fields and all: no field there is text or a message.
LEMMA RequestSize ==
    ASSUME NEW method \in Methods, NEW m \in Requests(method)
    PROVE  LET fields == RequestFields(method)
           IN  ByteSizeLong(fields, m) = WireLength(fields, Serialize(fields, m))
<1> DEFINE fields == RequestFields(method)
<1>1. IsFields(fields) /\ Sendable(fields, m)
  BY FieldTables, RequestsSendable
<1>2. m.unknown \in Foreign(fields)
  BY DEF Methods, Requests, RequestFields, InsertRequests, SearchRequests, DeleteRequests,
         InfoRequests
<1>3. \A k \in DOMAIN fields :
        ~fields[k].repeated /\ fields[k].type \notin Nested /\ fields[k].type # "string"
  <2>1. CASE method \in {"Insert", "BulkInsert"}
    <3>1. fields = InsertRequestFields
      BY <2>1 DEF RequestFields
    <3> HIDE DEF fields
    <3> QED BY <3>1, InsertRequestTable DEF Nested
  <2>2. CASE method = "Search"
    <3>1. fields = SearchRequestFields
      BY <2>2 DEF RequestFields
    <3> HIDE DEF fields
    <3> QED BY <3>1, SearchRequestTable DEF Nested
  <2>3. CASE method = "Delete"
    <3>1. fields = DeleteRequestFields
      BY <2>3 DEF RequestFields
    <3> HIDE DEF fields
    <3> QED BY <3>1, DeleteRequestTable DEF Nested
  <2>4. CASE method = "GetInfo"
    <3>1. fields = InfoRequestFields
      BY <2>4 DEF RequestFields
    <3> HIDE DEF fields
    <3> QED BY <3>1 DEF InfoRequestFields
  <2> QED BY <2>1, <2>2, <2>3, <2>4 DEF Methods
<1> HIDE DEF fields
<1>4. Measured(fields, m)
  BY <1>3 DEF Measured
<1>5. \A j \in DOMAIN m.unknown : m.unknown[j] \in Tokens
  <2>1. m.unknown \in Seq({t \in Tokens : ~IsKnown(fields, t)})
    BY <1>2 DEF Foreign
  <2> QED BY <2>1, LenProperties, ElementOfSeq
<1>6. \A t : TypeOfToken(fields, t) # "string" /\ TypeOfToken(fields, t) \notin Nested
  BY <1>1, <1>3, TypeOf DEF Nested
<1>7. \A j \in DOMAIN m.unknown : /\ LengthOf(fields, m.unknown[j]) = 1 + PayloadSize(m.unknown[j])
                                  /\ PayloadSize(m.unknown[j]) \in Nat
  BY <1>5, <1>6, TokenLengthIs, PayloadType
<1>8. ByteSizeLong(fields, m) = WireLength(fields, Serialize(fields, m))
  BY <1>1, <1>4, <1>7, SizeTrip
<1> QED BY <1>8 DEF fields

-----------------------------------------------------------------------------
(* Types, and messages written in full                                      *)

\* A value the codec may carry is a value of its class.
LEMMA ClassValues ==
    \A method \in Methods : /\ Requests(method) \subseteq Types(method).in
                            /\ Responses(method) \subseteq Types(method).out
<1>1. ASSUME NEW fields PROVE Foreign(fields) \subseteq Unknowns
  <2> DEFINE S == {t \in Tokens : ~IsKnown(fields, t)}
  <2>1. ASSUME NEW u \in Seq(S) PROVE u \in Seq(Tokens)
    <3>1. Len(u) \in Nat /\ u \in [1..Len(u) -> S]
      BY LenProperties
    <3>2. u \in [1..Len(u) -> Tokens]
      BY <3>1
    <3> QED BY <3>1, <3>2, FunctionIsSeq
  <2> QED BY <2>1 DEF Foreign, Unknowns
<1>2. <<>> \in Unknowns
  BY EmptySeq DEF Unknowns
<1>3. /\ InsertRequests \subseteq InsertRequest /\ SearchRequests \subseteq SearchRequest
      /\ DeleteRequests \subseteq DeleteRequest /\ InfoRequests \subseteq InfoRequest
  BY <1>1 DEF InsertRequests, InsertRequest, SearchRequests, SearchRequest, DeleteRequests,
              DeleteRequest, InfoRequests, InfoRequest
<1>4. /\ InsertResponses \subseteq InsertResponse /\ BulkInsertResponses \subseteq BulkInsertResponse
      /\ DeleteResponses \subseteq DeleteResponse
      /\ SearchResults \subseteq SearchResult /\ ShardInfos \subseteq ShardInfo
  BY <1>2 DEF InsertResponses, InsertResponse, BulkInsertResponses, BulkInsertResponse,
              DeleteResponses, DeleteResponse, SearchResults, SearchResult, ShardInfos, ShardInfo
<1>5. Seq(SearchResults) \subseteq Seq(SearchResult) /\ Seq(ShardInfos) \subseteq Seq(ShardInfo)
  <2>1. ASSUME NEW S, NEW T, S \subseteq T, NEW u \in Seq(S) PROVE u \in Seq(T)
    <3>1. Len(u) \in Nat /\ u \in [1..Len(u) -> S]
      BY LenProperties
    <3>2. u \in [1..Len(u) -> T]
      BY <2>1, <3>1
    <3> QED BY <3>1, <3>2, FunctionIsSeq
  <2> QED BY <1>4, <2>1
<1>6. SearchResponses \subseteq SearchResponse /\ InfoResponses \subseteq InfoResponse
  BY <1>2, <1>5 DEF SearchResponses, SearchResponse, InfoResponses, InfoResponse
<1> QED BY <1>3, <1>4, <1>6 DEF Methods, Requests, Responses, Types

LEMMA ServiceTyped == ASSUME ServiceInv, RateTypeOK PROVE TypeOK
<1>1. /\ valid_tokens \subseteq BearerTokens /\ disabled \in BOOLEAN /\ admin \in 0..MaxAdmin
      /\ healthy \in [Shards -> BOOLEAN]
      /\ phase \in [Calls -> {"idle", "arrived", "handler", "done"}]
      /\ status \in [Calls -> Statuses \cup {"none"}]
      /\ progress \in [Calls -> 0..(2 * ShardCount)]
  BY DEF ServiceInv, DataInv
<1>2. \A s \in Shards : index[s] \in Seq(Nodes)
  BY DEF ServiceInv, DataInv
<1>3. \A c \in Calls : outcome[c] \in Seq(Outcomes)
  BY DEF ServiceInv, DataInv
<1>4. ASSUME NEW c \in Calls, phase[c] # "idle"
      PROVE  req[c] \in Types(Method(c)).in /\ resp[c] \in Types(Method(c)).out
  <2>1. script[c] \in Scripts /\ req[c] \in Requests(Method(c)) /\ resp[c] \in Responses(Method(c))
    BY <1>4 DEF ServiceInv, CallInv, CallTyped
  <2>2. Method(c) \in Methods
    BY <2>1, ScriptFacts DEF Method
  <2> QED BY <2>1, <2>2, ClassValues
<1> QED BY <1>1, <1>2, <1>3, <1>4 DEF TypeOK

\* Every field holds a value of its class, an answer is parsed as the handler set it, a
\* request is parsed back from what it is written as, and ByteSizeLong, which is
\* computed first, is the number of bytes then written.
THEOREM ServiceWritten == Spec => []WrittenInFull
<1>1. ServiceInv /\ RateTypeOK => WrittenInFull
  <2> SUFFICES ASSUME ServiceInv, RateTypeOK PROVE WrittenInFull
    OBVIOUS
  <2>1. TypeOK
    BY ServiceTyped
  <2>2. ASSUME NEW c \in Calls, phase[c] = "done"
        PROVE  /\ status[c] = "OK" => answer[c] = [ok |-> TRUE, msg |-> resp[c]]
               /\ \A asked \in {Serialize(InFields(c), req[c])},
                     told \in {Serialize(OutFields(c), resp[c])} :
                     /\ ParseFrom(InFields(c), req[c], asked) = [ok |-> TRUE, msg |-> req[c]]
                     /\ ByteSizeLong(InFields(c), req[c]) = WireLength(InFields(c), asked)
                     /\ ByteSizeLong(OutFields(c), resp[c]) = WireLength(OutFields(c), told)
    <3>1. script[c] \in Scripts /\ req[c] \in Requests(Method(c)) /\ resp[c] \in Responses(Method(c))
      BY <2>2 DEF ServiceInv, CallInv, CallTyped
    <3>2. Method(c) \in Methods
      BY <3>1, ScriptFacts DEF Method
    <3>3. status[c] = "OK" => answer[c] = [ok |-> TRUE, msg |-> resp[c]]
      BY DEF ServiceInv, CallInv, CallAnswered
    <3>4. PICK method, q, p :
            /\ method \in Methods /\ q \in Requests(method) /\ p \in Responses(method)
            /\ method = Method(c) /\ q = req[c] /\ p = resp[c]
      BY <3>1, <3>2
    <3>5. ParseFrom(RequestFields(method), q, Serialize(RequestFields(method), q)) = [ok |-> TRUE, msg |-> q]
      BY <3>4, ParseFromIs, RequestsSendable, FieldTables, Trip
    <3>6. /\ ByteSizeLong(RequestFields(method), q) =
               WireLength(RequestFields(method), Serialize(RequestFields(method), q))
          /\ ByteSizeLong(ResponseFields(method), p) =
               WireLength(ResponseFields(method), Serialize(ResponseFields(method), p))
      BY <3>4, RequestSize, ResponseSize
    <3>7. InFields(c) = RequestFields(method) /\ OutFields(c) = ResponseFields(method)
      BY <3>4 DEF InFields, OutFields
    <3> QED BY <3>3, <3>4, <3>5, <3>6, <3>7
  <2> QED BY <2>1, <2>2 DEF WrittenInFull
<1> QED BY <1>1, ServiceInductive, ServiceLimits, RateTypeCorrect, PTL
=============================================================================
