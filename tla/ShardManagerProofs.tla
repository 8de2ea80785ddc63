------------------------- MODULE ShardManagerProofs -------------------------
(***************************************************************************)
(* Theorems about the two things a ShardManager decides: which shard owns  *)
(* an id (HashRing), for every hash function that keeps the virtual nodes  *)
(* apart and any numbers of shards, virtual nodes and ids; and what a      *)
(* search over all shards answers (Search), for any number of shards,      *)
(* searches and vectors, any top_k and any distances.                      *)
(*                                                                         *)
(* MissingIsExplained speaks of a search that has answered; IInv says what *)
(* has to be so while it runs.  Health flags are the one thing searches    *)
(* share: a flag that is gone names a search that has gathered an          *)
(* exception, and nothing takes that back.                                 *)
(***************************************************************************)
EXTENDS HashRing, Search, FiniteSetTheorems, WellFoundedInduction, TLAPS

-----------------------------------------------------------------------------
(* The ring                                                                 *)

\* The ring is the one the constructor makes for the present number of shards.
RingInv == RingTypeOK /\ Distinct /\ ring = RingOf(shards)

\* Every set of positions has a least one.
LEMMA LeastExists ==
    ASSUME NEW S \in SUBSET Nat, S # {}
    PROVE  Least(S) \in S /\ \A q \in S : Least(S) <= q
<1>1. PICK p \in S : \A q \in S : ~(<<q, p>> \in OpToRel(<, Nat))
  BY NatLessThanWellFounded, WFMin
<1>2. \A q \in S : p <= q
  <2> SUFFICES ASSUME NEW q \in S PROVE p <= q
    OBVIOUS
  <2>1. ~(q < p)  BY <1>1 DEF OpToRel
  <2> QED  BY <2>1
<1> QED  BY <1>2 DEF Least

\* lower_bound with the step past the end: the first position from h on, or the
\* first of all if there is none.
LEMMA NextAtFirst ==
    ASSUME NEW P \in SUBSET Nat, P # {}, NEW h \in Nat
    PROVE  /\ NextAt(P, h) \in P
           /\ \/ h <= NextAt(P, h) /\ \A q \in P : h <= q => NextAt(P, h) <= q
              \/ (\A q \in P : q < h) /\ \A q \in P : NextAt(P, h) <= q
<1> DEFINE Up == {p \in P : p >= h}
<1>1. CASE Up # {}
  <2>1. NextAt(P, h) = Least(Up)  BY <1>1 DEF NextAt
  <2>2. Least(Up) \in Up /\ \A q \in Up : Least(Up) <= q
    <3>1. Up \in SUBSET Nat  OBVIOUS
    <3> HIDE DEF Up
    <3> QED  BY <1>1, <3>1, LeastExists
  <2> QED  BY <2>1, <2>2
<1>2. CASE Up = {}
  <2>1. NextAt(P, h) = Least(P)  BY <1>2 DEF NextAt
  <2> QED  BY <1>2, <2>1, LeastExists
<1> QED  BY <1>1, <1>2

\* More positions: whoever was first and still is keeps h; a new first position q
\* takes it from the one that owned q.
LEMMA NextAtOfMore ==
    ASSUME NEW Q \in SUBSET Nat, NEW P \in SUBSET Q, P # {}, NEW h \in Nat
    PROVE  /\ NextAt(Q, h) \in P => NextAt(P, h) = NextAt(Q, h)
           /\ NextAt(Q, h) \notin P => NextAt(P, h) = NextAt(P, NextAt(Q, h))
<1> DEFINE x == NextAt(Q, h)
<1>1. /\ x \in Q
      /\ \/ h <= x /\ \A q \in Q : h <= q => x <= q
         \/ (\A q \in Q : q < h) /\ \A q \in Q : x <= q
  BY NextAtFirst
<1>2. /\ NextAt(P, h) \in P
      /\ \/ h <= NextAt(P, h) /\ \A q \in P : h <= q => NextAt(P, h) <= q
         \/ (\A q \in P : q < h) /\ \A q \in P : NextAt(P, h) <= q
  BY NextAtFirst
<1>3. /\ NextAt(P, x) \in P
      /\ \/ x <= NextAt(P, x) /\ \A q \in P : x <= q => NextAt(P, x) <= q
         \/ (\A q \in P : q < x) /\ \A q \in P : NextAt(P, x) <= q
  BY <1>1, NextAtFirst
<1> DEFINE y == NextAt(P, h)
           z == NextAt(P, x)
<1> HIDE DEF x, y, z
<1>4. /\ x \in Nat /\ y \in P /\ y \in Q /\ y \in Nat /\ z \in P /\ z \in Q /\ z \in Nat
  BY <1>1, <1>2, <1>3 DEF y, z
<1>5. x \in P => y = x
  <2> SUFFICES ASSUME x \in P PROVE y <= x /\ x <= y
    BY <1>4
  <2>1. (h <= y /\ (h <= x => y <= x)) \/ (x < h /\ y <= x)
    BY <1>2 DEF y
  <2>2. (h <= x /\ (h <= y => x <= y)) \/ (y < h /\ x <= y)
    BY <1>1, <1>4
  <2> QED  BY <1>4, <2>1, <2>2
<1>6. y = z
  <2>1. (h <= y /\ (h <= z => y <= z)) \/ (z < h /\ y <= z)
    BY <1>2, <1>4 DEF y
  <2>2. (x <= z /\ (x <= y => z <= y)) \/ (y < x /\ z <= y)
    BY <1>3, <1>4 DEF z
  <2>3. (h <= x /\ (h <= y => x <= y) /\ (h <= z => x <= z))
        \/ (y < h /\ z < h /\ x <= y /\ x <= z)
    BY <1>1, <1>4
  <2> QED  BY <1>4, <2>1, <2>2, <2>3
<1> QED  BY <1>5, <1>6 DEF x, y, z

\* A virtual node's position leads to its shard.
LEMMA RingOfVNode ==
    ASSUME Distinct, NEW n \in 1..MaxShards, NEW k \in VNodeKeys(n)
    PROVE  RingOf(n)[hash[k]] = k[1]
<1>1. VNodeKeys(n) \subseteq VNodeKeys(MaxShards)
  BY RingAssumption DEF VNodeKeys
<1>2. \A j \in VNodeKeys(n) : hash[j] = hash[k] => j = k
  BY <1>1 DEF Distinct
<1>3. (CHOOSE j \in VNodeKeys(n) : hash[j] = hash[k]) = k
  BY <1>2
<1>4. hash[k] \in Points(n)  BY DEF Points
<1> QED  BY <1>3, <1>4 DEF RingOf

\* The ring of n shards is not empty, lies on the positions and names n shards.
LEMMA RingOfType ==
    ASSUME hash \in [Keys -> Positions], Distinct, NEW n \in 1..MaxShards
    PROVE  /\ RingOf(n) \in [Points(n) -> 0..(n - 1)]
           /\ Points(n) \in SUBSET Nat /\ Points(n) # {}
<1>1. VNodeKeys(n) \subseteq Keys
  BY RingAssumption DEF VNodeKeys
<1>2. <<0, 0>> \in VNodeKeys(n)
  BY RingAssumption DEF VNodeKeys
<1>3. Points(n) \in SUBSET Nat /\ Points(n) # {}
  BY <1>1, <1>2, RingAssumption DEF Points
<1>4. \A p \in Points(n) : RingOf(n)[p] \in 0..(n - 1)
  <2> SUFFICES ASSUME NEW p \in Points(n) PROVE RingOf(n)[p] \in 0..(n - 1)
    OBVIOUS
  <2>1. PICK k \in VNodeKeys(n) : p = hash[k]  BY DEF Points
  <2>2. RingOf(n)[p] = k[1]  BY <2>1, RingOfVNode
  <2> QED  BY <2>2 DEF VNodeKeys
<1>5. RingOf(n) = [p \in Points(n) |-> RingOf(n)[p]]
  BY DEF RingOf
<1> QED  BY <1>3, <1>4, <1>5

-----------------------------------------------------------------------------

LEMMA InitRingInv == RingInit => RingInv
<1> SUFFICES ASSUME RingInit PROVE RingInv
  OBVIOUS
<1>1. 1 \in 1..MaxShards  BY RingAssumption
<1>2. RingOf(1) \in [Points(1) -> 0..(1 - 1)]
  BY <1>1, RingOfType DEF RingInit
<1> QED  BY <1>1, <1>2 DEF RingInit, RingInv, RingTypeOK

LEMMA AddShardRingInv == RingInv /\ AddShard => RingInv'
<1> SUFFICES ASSUME RingInv, AddShard PROVE RingInv'
  OBVIOUS
<1>1. hash' = hash /\ shards' = shards + 1 /\ ring' = RingOf(shards + 1)
  BY DEF AddShard
<1>2. shards + 1 \in 1..MaxShards
  BY RingAssumption DEF RingInv, RingTypeOK, AddShard
<1>3. RingOf(shards + 1) \in [Points(shards + 1) -> 0..((shards + 1) - 1)]
  BY <1>2, RingOfType DEF RingInv, RingTypeOK
<1>4. Points(shards)' = Points(shards + 1) /\ RingOf(shards)' = RingOf(shards + 1)
  BY <1>1 DEF Points, RingOf
<1>5. RingTypeOK'
  <2>1. ring' \in [Points(shards)' -> 0..(shards' - 1)]
    BY <1>1, <1>3, <1>4
  <2> QED  BY <1>1, <1>2, <2>1 DEF RingInv, RingTypeOK
<1>6. Distinct'
  BY <1>1 DEF RingInv, Distinct
<1> QED  BY <1>1, <1>4, <1>5, <1>6 DEF RingInv

\* The invariant that the other theorems rest on.
THEOREM RingInductive == RingSpec => []RingInv
<1>1. RingInv /\ UNCHANGED ringVars => RingInv'
  <2> SUFFICES ASSUME RingInv, UNCHANGED ringVars PROVE RingInv'
    OBVIOUS
  <2>1. hash' = hash /\ shards' = shards /\ ring' = ring  BY DEF ringVars
  <2>2. Points(shards)' = Points(shards) /\ RingOf(shards)' = RingOf(shards)
    BY <2>1 DEF Points, RingOf
  <2>3. RingTypeOK'  BY <2>1, <2>2 DEF RingInv, RingTypeOK
  <2>4. Distinct'  BY <2>1 DEF RingInv, Distinct
  <2> QED  BY <2>1, <2>2, <2>3, <2>4 DEF RingInv
<1>2. RingInv /\ [RingNext]_ringVars => RingInv'
  BY <1>1, AddShardRingInv DEF RingNext
<1> QED  BY InitRingInv, <1>2, PTL DEF RingSpec

\* The ring keeps its type: only shards that exist own positions.
THEOREM RingTypeCorrect == RingSpec => []RingTypeOK
<1>1. RingInv => RingTypeOK  BY DEF RingInv
<1> QED  BY RingInductive, <1>1, PTL

\* The ids that number virtual nodes are on those nodes' shards; the first
\* VirtualNodes ids are all on shard 0.  (get_shard and hash_vnode)
THEOREM RingPinsVNodeIds == RingSpec => []VNodeIdsPinned
<1>1. RingInv => VNodeIdsPinned
  <2> SUFFICES ASSUME RingInv, NEW s \in 0..(shards - 1), NEW v \in 0..(VirtualNodes - 1)
               PROVE  GetShard(<<s, v>>) = s
    BY DEF VNodeIdsPinned
  <2>1. shards \in 1..MaxShards /\ hash \in [Keys -> Positions] /\ Distinct
    BY DEF RingInv, RingTypeOK
  <2>2. <<s, v>> \in VNodeKeys(shards)  BY DEF VNodeKeys
  <2> DEFINE h == hash[<<s, v>>]
  <2>3. ring = RingOf(shards) /\ DOMAIN ring = Points(shards)
    BY DEF RingInv, RingOf
  <2>4. h \in Points(shards)  BY <2>2 DEF Points
  <2>5. Points(shards) \in SUBSET Nat /\ Points(shards) # {}
    BY <2>1, RingOfType
  <2>6. NextAt(Points(shards), h) = h
    <3> HIDE DEF h
    <3>1. h \in Nat  BY <2>4, <2>5
    <3>2. /\ NextAt(Points(shards), h) \in Points(shards)
          /\ \/ h <= NextAt(Points(shards), h)
                /\ \A q \in Points(shards) : h <= q => NextAt(Points(shards), h) <= q
             \/ \A q \in Points(shards) : q < h
      BY <2>5, <3>1, NextAtFirst
    <3> QED  BY <2>4, <2>5, <3>1, <3>2
  <2>7. RingOf(shards)[h] = s  BY <2>1, <2>2, RingOfVNode
  <2> QED  BY <2>3, <2>6, <2>7 DEF GetShard
<1> QED  BY RingInductive, <1>1, PTL

\* What one more shard does to an id: it stays, or moves to the new shard from a
\* shard that affected_shards_on_add names.
LEMMA AddShardMoves ==
    ASSUME RingInv, AddShard, NEW key \in Keys
    PROVE  \/ GetShard(key)' = GetShard(key)
           \/ GetShard(key)' = shards /\ GetShard(key) \in AffectedShardsOnAdd
<1> DEFINE n == shards
           P == Points(n)
           Q == Points(n + 1)
           h == hash[key]
           x == NextAt(Q, h)
<1>1. n \in 1..MaxShards /\ n + 1 \in 1..MaxShards /\ hash \in [Keys -> Positions] /\ Distinct
  BY RingAssumption DEF RingInv, RingTypeOK, AddShard
<1>2. ring = RingOf(n) /\ DOMAIN ring = P
  BY DEF RingInv, RingOf
<1>3. ring' = RingOf(n + 1) /\ DOMAIN ring' = Q /\ hash' = hash
  BY DEF AddShard, RingOf
<1>4. GetShard(key) = RingOf(n)[NextAt(P, h)] /\ GetShard(key)' = RingOf(n + 1)[x]
  BY <1>2, <1>3 DEF GetShard, NextAt, Least
<1>5. VNodeKeys(n) \subseteq VNodeKeys(n + 1)
  BY <1>1 DEF VNodeKeys
<1>6. P \subseteq Q /\ Q \in SUBSET Nat /\ P # {}
  BY <1>1, <1>5, RingOfType DEF Points
<1>7. h \in Nat  BY <1>1, RingAssumption
<1>8. x \in Q  BY <1>6, <1>7, NextAtFirst
<1>9. PICK k \in VNodeKeys(n + 1) : x = hash[k]
  BY <1>8 DEF Points
<1>10. RingOf(n + 1)[x] = k[1]  BY <1>1, <1>9, RingOfVNode
<1>11. CASE k \in VNodeKeys(n)
  <2>1. x \in P  BY <1>9, <1>11 DEF Points
  <2>2. NextAt(P, h) = x  BY <1>6, <1>7, <2>1, NextAtOfMore
  <2>3. RingOf(n)[x] = k[1]  BY <1>1, <1>9, <1>11, RingOfVNode
  <2> QED  BY <1>4, <1>10, <2>2, <2>3
<1>12. CASE k \notin VNodeKeys(n)
  <2>1. PICK v \in 0..(VirtualNodes - 1) : k = <<n, v>>
    <3>1. k[1] \in 0..n /\ k[2] \in 0..(VirtualNodes - 1) /\ k = <<k[1], k[2]>>
      BY <1>1 DEF VNodeKeys
    <3>2. k[1] \notin 0..(n - 1)  BY <1>12, <3>1 DEF VNodeKeys
    <3> QED  BY <1>1, <3>1, <3>2
  <2>2. x \notin P
    <3> SUFFICES ASSUME x \in P PROVE FALSE
      OBVIOUS
    <3>1. PICK j \in VNodeKeys(n) : hash[j] = x  BY DEF Points
    <3>2. VNodeKeys(n + 1) \subseteq VNodeKeys(MaxShards)
      BY <1>1, RingAssumption DEF VNodeKeys
    <3>3. j = k  BY <1>1, <1>5, <1>9, <3>1, <3>2 DEF Distinct
    <3> QED  BY <1>12, <3>1, <3>3
  <2>3. NextAt(P, h) = NextAt(P, x)  BY <1>6, <1>7, <2>2, NextAtOfMore
  <2>4. GetShard(key) = ring[NextAt(DOMAIN ring, hash[<<shards, v>>])]
    BY <1>2, <1>4, <1>9, <2>1, <2>3
  <2>5. GetShard(key) \in AffectedShardsOnAdd
    BY <2>4 DEF AffectedShardsOnAdd
  <2>6. GetShard(key)' = shards  BY <1>4, <1>10, <2>1
  <2> QED  BY <2>5, <2>6
<1> QED  BY <1>11, <1>12

\* When a shard is added, ids move to it and nowhere else.
THEOREM RingOnlyNewGains == RingSpec => OnlyNewShardGains
<1>1. RingInv /\ [RingNext]_ringVars =>
        [\A key \in Keys : GetShard(key)' \in {GetShard(key), shards}]_ringVars
  BY AddShardMoves DEF RingNext
<1> QED  BY RingInductive, <1>1, PTL DEF RingSpec, OnlyNewShardGains

\* Ids that move were on a shard that affected_shards_on_add names.
THEOREM RingMovesFromAffected == RingSpec => MovesOnlyFromAffected
<1>1. RingInv /\ [RingNext]_ringVars =>
        [\A key \in Keys :
           GetShard(key)' # GetShard(key) => GetShard(key) \in AffectedShardsOnAdd]_ringVars
  BY AddShardMoves DEF RingNext
<1> QED  BY RingInductive, <1>1, PTL DEF RingSpec, MovesOnlyFromAffected

\* get_shard of any id names a shard that exists, which is what Search assumes of its
\* Owner and HttpApi of its ShardOf.
THEOREM RingOwnersExist == RingSpec => [](\A key \in Keys : GetShard(key) \in 0..(shards - 1))
<1>1. RingInv => \A key \in Keys : GetShard(key) \in 0..(shards - 1)
  <2> SUFFICES ASSUME RingInv, NEW key \in Keys PROVE GetShard(key) \in 0..(shards - 1)
    OBVIOUS
  <2>1. /\ shards \in 1..MaxShards /\ hash \in [Keys -> Positions] /\ Distinct
        /\ ring \in [Points(shards) -> 0..(shards - 1)]
    BY DEF RingInv, RingTypeOK
  <2>2. Points(shards) \in SUBSET Nat /\ Points(shards) # {} /\ hash[key] \in Nat
    BY <2>1, RingOfType, RingAssumption
  <2>3. NextAt(Points(shards), hash[key]) \in Points(shards)
    BY <2>2, NextAtFirst
  <2> QED BY <2>1, <2>3 DEF GetShard
<1> QED BY RingInductive, <1>1, PTL

-----------------------------------------------------------------------------
(* Search                                                                   *)

\* What is gathered was answered; only a task that found something holds hits; an
\* exception that was gathered is in the tally; a shard is skipped for a reason.
InvTasks ==
    \A q \in Searches, s \in Shards :
        /\ gathered[q] > s => Answered(q, s)
        /\ found[q][s] # {} => task[q][s] = "found"
        /\ Threw(q, s) => tally[q].degraded
        /\ task[q][s] = "skipped" => \E p \in Searches : Threw(p, s)

InvHealth == \A s \in Shards : ~healthy[s] => \E p \in Searches : Threw(p, s)

\* An answer is a choice of the nearest of what the tasks found.
InvAnswer ==
    \A q \in returned : gathered[q] = ShardCount /\ Nearest(results[q], Partials(q))

IInv == TypeOK /\ InvTasks /\ InvHealth /\ InvAnswer

-----------------------------------------------------------------------------
(* Lemmas                                                                   *)

\* Indexes only grow: a hit stays one, at the same distance.
LEMMA HitsStay ==
    ASSUME TypeOK, NEW v \in Vectors, Insert(v), NEW s \in Shards
    PROVE  /\ Hits(s) \subseteq Hits(s)'
           /\ \A h \in Hits(s) : DistanceOf(h)' = DistanceOf(h)
<1>1. contents[s] \in Seq(Vectors) /\ contents[Owner[v]] \in Seq(Vectors) /\ Owner[v] \in Shards
  BY SearchAssumption DEF TypeOK
<1>2. \/ contents'[s] = contents[s]
      \/ contents'[s] = Append(contents[s], v)
  BY <1>1 DEF Insert, TypeOK
<1>3. /\ DOMAIN contents[s] \subseteq DOMAIN contents'[s]
      /\ \A n \in DOMAIN contents[s] : contents'[s][n] = contents[s][n]
  BY <1>1, <1>2
<1> QED BY <1>3 DEF Hits, DistanceOf

LEMMA HitsFinite == ASSUME TypeOK, NEW s \in Shards PROVE IsFiniteSet(Hits(s))
<1> DEFINE D == DOMAIN contents[s]
           f == [n \in D |-> [shard |-> s, node |-> n]]
<1>1. contents[s] \in Seq(Vectors)
  BY DEF TypeOK
<1>2. PICK k \in Nat : D = 1..k
  BY <1>1
<1>3. IsFiniteSet(D)
  <2>1. 1 \in Int /\ k \in Int
    OBVIOUS
  <2> QED BY <2>1, <1>2, FS_Interval
<1>4. f \in Surjection(D, Hits(s))
  BY DEF Hits, Surjection
<1> QED BY <1>3, <1>4, FS_Surjection

LEMMA PartialsFinite == ASSUME TypeOK, NEW q \in Searches PROVE IsFiniteSet(Partials(q))
<1> DEFINE f == [s \in Shards |-> found[q][s]]
           T == {found[q][s] : s \in Shards}
<1>1. IsFiniteSet(Shards)
  <2>1. 0 \in Int /\ ShardCount - 1 \in Int
    BY SearchAssumption
  <2> QED BY <2>1, FS_Interval DEF Shards
<1>2. ASSUME NEW s \in Shards PROVE IsFiniteSet(found[q][s])
  <2>1. found[q][s] \in SUBSET Hits(s)
    BY DEF TypeOK
  <2> QED BY <2>1, HitsFinite, FS_Subset
<1>3. IsFiniteSet(T)
  <2>1. f \in Surjection(Shards, T)
    BY DEF Surjection
  <2> QED BY <2>1, <1>1, FS_Surjection
<1>4. \A F \in T : IsFiniteSet(F)
  BY <1>2
<1>5. IsFiniteSet(UNION T)
  <2> HIDE DEF T
  <2> QED BY <1>3, <1>4, FS_UNION
<1> QED BY <1>5 DEF Partials

-----------------------------------------------------------------------------
(* Types                                                                    *)

\* What a step that inserts nothing keeps.
LEMMA SameHits ==
    ASSUME contents' = contents
    PROVE  /\ \A s \in Shards : Hits(s)' = Hits(s)
           /\ AllHits' = AllHits
           /\ \A h : DistanceOf(h)' = DistanceOf(h)
BY DEF Hits, AllHits, DistanceOf

LEMMA TypeStep == TypeOK /\ [Next]_vars => TypeOK'
<1> SUFFICES ASSUME TypeOK, [Next]_vars PROVE TypeOK'
  OBVIOUS
<1> USE SearchAssumption
<1>1. ASSUME NEW v \in Vectors, Insert(v) PROVE TypeOK'
  <2>1. contents' \in [Shards -> Seq(Vectors)]
    BY <1>1 DEF TypeOK, Insert
  <2>2. \A s \in Shards : Hits(s) \subseteq Hits(s)'
    BY <1>1, HitsStay
  <2>3. AllHits \subseteq AllHits'
    BY <2>2 DEF AllHits
  <2>4. found' = found /\ results' = results /\ present' = present
    BY <1>1 DEF Insert, searchVars
  <2>5. /\ found' \in [Searches -> [Shards -> SUBSET AllHits']]
        /\ \A q \in Searches, s \in Shards : found'[q][s] \subseteq Hits(s)'
        /\ results' \in [Searches -> SUBSET AllHits']
        /\ present' \in [Searches -> SUBSET AllHits']
    <3> HIDE DEF Hits, AllHits
    <3> QED BY <2>2, <2>3, <2>4 DEF TypeOK
  <2> QED BY <1>1, <2>1, <2>5 DEF TypeOK, Insert, searchVars
<1>2. ASSUME NEW q \in Searches, Scatter(q) PROVE TypeOK'
  <2>1. /\ AllHits' = AllHits
        /\ \A s \in Shards : Hits(s)' = Hits(s)
    BY <1>2, SameHits DEF Scatter
  <2>2. present' \in [Searches -> SUBSET AllHits]
    BY <1>2 DEF TypeOK, Scatter
  <2>3. task' \in [Searches -> [Shards -> TaskStates]]
    BY <1>2 DEF TypeOK, Scatter, TaskStates
  <2> QED BY <1>2, <2>1, <2>2, <2>3 DEF TypeOK, Scatter
<1>3. ASSUME NEW q \in Searches, Gather(q) PROVE TypeOK'
  <2>1. /\ AllHits' = AllHits
        /\ \A s \in Shards : Hits(s)' = Hits(s)
    BY <1>3, SameHits DEF Gather
  <2>2. gathered[q] \in 0..ShardCount /\ gathered[q] < ShardCount /\ gathered[q] \in Shards
    BY <1>3 DEF TypeOK, Gather, Shards
  <2>3. healthy' \in [Shards -> BOOLEAN]
    BY <1>3, <2>2 DEF TypeOK, Gather
  <2>4. gathered' \in [Searches -> 0..ShardCount] /\ gathered'[q] = gathered[q] + 1
    BY <1>3, <2>2 DEF TypeOK, Gather
  <2>5. /\ tally' \in [Searches -> [ok : Nat, err : Nat, degraded : BOOLEAN]]
        /\ tally'[q].ok + tally'[q].err = gathered[q] + 1
        /\ \A p \in Searches \ {q} : tally'[p] = tally[p]
    <3>1. tally[q] \in [ok : Nat, err : Nat, degraded : BOOLEAN]
          /\ tally[q].ok + tally[q].err = gathered[q]
      BY DEF TypeOK
    <3>2. CASE task[q][gathered[q]] = "threw"
      <4>1. tally' = [tally EXCEPT ![q] = [ok |-> tally[q].ok, err |-> tally[q].err + 1, degraded |-> TRUE]]
        BY <1>3, <3>1, <3>2 DEF TypeOK, Gather
      <4> QED BY <4>1, <3>1, <2>2 DEF TypeOK
    <3>3. CASE task[q][gathered[q]] # "threw"
      <4>1. tally' = [tally EXCEPT ![q] = [ok |-> tally[q].ok + 1, err |-> tally[q].err, degraded |-> tally[q].degraded]]
        BY <1>3, <3>1, <3>3 DEF TypeOK, Gather
      <4> QED BY <4>1, <3>1, <2>2 DEF TypeOK
    <3> QED BY <3>2, <3>3
  <2>6. \A p \in Searches : tally'[p].ok + tally'[p].err = gathered'[p]
    <3>1. \A p \in Searches \ {q} : gathered'[p] = gathered[p]
      BY <1>3 DEF TypeOK, Gather
    <3> QED BY <2>4, <2>5, <3>1 DEF TypeOK
  <2>7. UNCHANGED <<contents, task, found, results, returned, present>>
    BY <1>3 DEF Gather
  <2>8. \A p \in Searches, s \in Shards : found[p][s] \subseteq Hits(s)'
    BY <2>1 DEF TypeOK
  <2> HIDE DEF Hits, AllHits
  <2> QED BY <2>1, <2>3, <2>4, <2>5, <2>6, <2>7, <2>8 DEF TypeOK
<1>4. ASSUME NEW q \in Searches, Merge(q) PROVE TypeOK'
  <2>1. /\ AllHits' = AllHits
        /\ \A s \in Shards : Hits(s)' = Hits(s)
    BY <1>4, SameHits DEF Merge
  <2>2. Partials(q) \subseteq AllHits
    BY DEF TypeOK, Partials, AllHits
  <2>3. results' \in [Searches -> SUBSET AllHits]
    BY <1>4, <2>2 DEF TypeOK, Merge
  <2>4. returned' \subseteq Searches
    BY <1>4 DEF TypeOK, Merge
  <2> QED BY <1>4, <2>1, <2>3, <2>4 DEF TypeOK, Merge
<1>5. ASSUME NEW q \in Searches, NEW s \in Shards, Task(q, s) PROVE TypeOK'
  <2>1. contents' = contents /\ UNCHANGED <<healthy, gathered, tally, results, returned, present>>
    BY <1>5 DEF Task, TaskChecks, TaskSearches, TaskThrows
  <2>2. AllHits' = AllHits /\ \A r \in Shards : Hits(r)' = Hits(r)
    BY <2>1, SameHits
  <2>3. task' \in [Searches -> [Shards -> TaskStates]]
    <3>1. PICK z \in TaskStates : task' = [task EXCEPT ![q][s] = z]
      BY <1>5 DEF Task, TaskChecks, TaskSearches, TaskThrows, TaskStates
    <3>2. task[q] \in [Shards -> TaskStates]
      BY DEF TypeOK
    <3>3. task' = [task EXCEPT ![q] = [task[q] EXCEPT ![s] = z]]
      BY <3>1
    <3>4. [task[q] EXCEPT ![s] = z] \in [Shards -> TaskStates]
      BY <3>2
    <3> QED BY <3>3, <3>4 DEF TypeOK
  <2>4. \/ found' = found
        \/ \E F \in SUBSET Hits(s) : found' = [found EXCEPT ![q][s] = F]
    BY <1>5 DEF Task, TaskChecks, TaskSearches, TaskThrows
  <2>5. Hits(s) \subseteq AllHits
    BY DEF AllHits
  <2>6. /\ found' \in [Searches -> [Shards -> SUBSET AllHits]]
        /\ \A p \in Searches, r \in Shards : found'[p][r] \subseteq Hits(r)
    <3>1. CASE found' = found
      BY <3>1 DEF TypeOK
    <3>2. ASSUME NEW F \in SUBSET Hits(s), found' = [found EXCEPT ![q][s] = F]
          PROVE  /\ found' \in [Searches -> [Shards -> SUBSET AllHits]]
                 /\ \A p \in Searches, r \in Shards : found'[p][r] \subseteq Hits(r)
      <4> HIDE DEF Hits, AllHits
      <4>1. found[q] \in [Shards -> SUBSET AllHits] /\ F \in SUBSET AllHits
        BY <2>5 DEF TypeOK
      <4>2. [found[q] EXCEPT ![s] = F] \in [Shards -> SUBSET AllHits]
        BY <4>1
      <4>3. found' = [found EXCEPT ![q] = [found[q] EXCEPT ![s] = F]]
        BY <3>2
      <4>4. found' \in [Searches -> [Shards -> SUBSET AllHits]]
        BY <4>2, <4>3 DEF TypeOK
      <4>5. ASSUME NEW p \in Searches, NEW r \in Shards PROVE found'[p][r] \subseteq Hits(r)
        <5>1. CASE p = q /\ r = s
          BY <5>1, <4>1, <4>3 DEF TypeOK
        <5>2. CASE p # q \/ r # s
          BY <5>2, <4>1, <4>3 DEF TypeOK
        <5> QED BY <5>1, <5>2
      <4> QED BY <4>4, <4>5
    <3> QED BY <2>4, <3>1, <3>2
  <2> QED BY <2>1, <2>2, <2>3, <2>6 DEF TypeOK
<1>6. CASE UNCHANGED vars
  BY <1>6, SameHits DEF TypeOK, vars, searchVars
<1> QED BY <1>1, <1>2, <1>3, <1>4, <1>5, <1>6 DEF Next

LEMMA TypeInit == Init => TypeOK
<1> SUFFICES ASSUME Init PROVE TypeOK
  OBVIOUS
<1>1. contents \in [Shards -> Seq(Vectors)]
  BY DEF Init
<1>2. gathered \in [Searches -> 0..ShardCount] /\ \A q \in Searches : gathered[q] = 0
  BY SearchAssumption DEF Init
<1>3. /\ tally \in [Searches -> [ok : Nat, err : Nat, degraded : BOOLEAN]]
      /\ \A q \in Searches : tally[q].ok + tally[q].err = 0
  BY DEF Init
<1> QED BY <1>1, <1>2, <1>3 DEF Init, TypeOK, TaskStates

\* Every variable keeps its type.
THEOREM SearchTypeCorrect == Spec => []TypeOK
BY TypeInit, TypeStep, PTL DEF Spec

-----------------------------------------------------------------------------
(* The inductive invariant                                                  *)

\* A task changes only from where it is; a search that has gathered it never again.
LEMMA TaskMoves ==
    ASSUME TypeOK, NEW q \in Searches, NEW s \in Shards, Task(q, s)
    PROVE  /\ ~Answered(q, s)
           /\ \A p \in Searches, r \in Shards : <<p, r>> # <<q, s>> => task'[p][r] = task[p][r]
           /\ \A p \in Searches, r \in Shards : <<p, r>> # <<q, s>> => found'[p][r] = found[p][r]
           /\ \/ /\ task[q][s] = "launched" /\ found'[q][s] = found[q][s]
                 /\ task'[q][s] = (IF healthy[s] THEN "searching" ELSE "skipped")
              \/ task[q][s] = "searching" /\ task'[q][s] = "found"
              \/ task[q][s] = "searching" /\ task'[q][s] = "threw" /\ found'[q][s] = found[q][s]
<1> HIDE DEF Hits, AllHits
<1> USE DEF TypeOK, Answered
<1>1. CASE TaskChecks(q, s)
  BY <1>1 DEF TaskChecks
<1>2. CASE TaskSearches(q, s)
  BY <1>2 DEF TaskSearches
<1>3. CASE TaskThrows(q, s)
  BY <1>3 DEF TaskThrows
<1> QED BY <1>1, <1>2, <1>3 DEF Task

\* An exception that a search has gathered stays one.
LEMMA ThrewStays ==
    ASSUME TypeOK, TypeOK', InvTasks, [Next]_vars, NEW p \in Searches, NEW s \in Shards, Threw(p, s)
    PROVE  Threw(p, s)'
<1> USE DEF Threw
<1>1. gathered[p] \in Nat /\ gathered'[p] \in Nat /\ s \in Nat
  BY SearchAssumption DEF TypeOK, Shards
<1>2. ASSUME NEW v \in Vectors, Insert(v) PROVE Threw(p, s)'
  BY <1>2 DEF Insert, searchVars
<1>3. ASSUME NEW q \in Searches, Scatter(q) PROVE Threw(p, s)'
  BY <1>3 DEF Scatter, TypeOK
<1>4. ASSUME NEW q \in Searches, Gather(q) PROVE Threw(p, s)'
  BY <1>4, <1>1 DEF Gather, TypeOK
<1>5. ASSUME NEW q \in Searches, Merge(q) PROVE Threw(p, s)'
  BY <1>5 DEF Merge
<1>6. ASSUME NEW q \in Searches, NEW r \in Shards, Task(q, r) PROVE Threw(p, s)'
  <2>1. gathered' = gathered
    BY <1>6 DEF Task, TaskChecks, TaskSearches, TaskThrows
  <2>2. <<p, s>> # <<q, r>>
    BY <1>6, TaskMoves DEF Answered
  <2> QED BY <1>6, <2>1, <2>2, TaskMoves
<1>7. CASE UNCHANGED vars
  BY <1>7 DEF vars, searchVars
<1> QED BY <1>2, <1>3, <1>4, <1>5, <1>6, <1>7 DEF Next

\* An answer was merged of everything gathered, and what was gathered stays.
LEMMA AnswersStay ==
    ASSUME IInv, TypeOK', [Next]_vars
    PROVE  InvAnswer'
<1>1. ASSUME NEW v \in Vectors, Insert(v) PROVE InvAnswer'
  <2>1. /\ UNCHANGED <<gathered, found, results, returned>>
        /\ \A q \in Searches : Partials(q)' = Partials(q)
    BY <1>1 DEF Insert, searchVars, Partials
  <2>2. ASSUME NEW q \in returned PROVE gathered[q] = ShardCount /\ Nearest(results[q], Partials(q))'
    <3>1. \A h \in Partials(q) : DistanceOf(h)' = DistanceOf(h)
      <4>1. \A s \in Shards : found[q][s] \subseteq Hits(s)
        BY <2>2 DEF IInv, TypeOK
      <4> QED BY <1>1, <4>1, HitsStay DEF Partials, IInv
    <3>2. Nearest(results[q], Partials(q)) /\ gathered[q] = ShardCount /\ q \in Searches
      BY <2>2 DEF IInv, InvAnswer, TypeOK
    <3> HIDE DEF Partials, DistanceOf
    <3> QED BY <2>1, <3>1, <3>2 DEF Nearest
  <2> QED BY <2>1, <2>2 DEF InvAnswer
<1>2. ASSUME NEW q \in Searches, Scatter(q) PROVE InvAnswer'
  BY <1>2, SameHits DEF Scatter, IInv, InvAnswer, Nearest, Partials
<1>3. ASSUME NEW q \in Searches, Gather(q) PROVE InvAnswer'
  <2>1. \A p \in returned : p # q /\ p \in Searches /\ gathered'[p] = gathered[p]
    BY <1>3, SearchAssumption DEF IInv, InvAnswer, TypeOK, Gather
  <2>2. UNCHANGED <<contents, found, results, returned>>
    BY <1>3 DEF Gather
  <2>3. /\ \A h : DistanceOf(h)' = DistanceOf(h)
        /\ \A p \in returned : Partials(p)' = Partials(p)
    BY <2>2, SameHits DEF Partials
  <2>4. \A p \in returned : gathered[p] = ShardCount /\ Nearest(results[p], Partials(p))
    BY DEF IInv, InvAnswer
  <2> QED BY <2>1, <2>2, <2>3, <2>4 DEF InvAnswer, Nearest
<1>4. ASSUME NEW q \in Searches, Merge(q) PROVE InvAnswer'
  <2>1. /\ \A p \in Searches : Partials(p)' = Partials(p)
        /\ \A h : DistanceOf(h)' = DistanceOf(h)
    BY <1>4, SameHits DEF Merge, Partials
  <2>2. PICK N \in SUBSET Partials(q) : Nearest(N, Partials(q)) /\ results' = [results EXCEPT ![q] = N]
    BY <1>4 DEF Merge
  <2>3. /\ results'[q] = N /\ \A p \in Searches \ {q} : results'[p] = results[p]
        /\ gathered' = gathered /\ gathered[q] = ShardCount /\ returned' = returned \cup {q}
        /\ returned \subseteq Searches
    BY <1>4, <2>2 DEF Merge, IInv, TypeOK
  <2> HIDE DEF Partials, DistanceOf
  <2> QED BY <2>1, <2>2, <2>3 DEF IInv, InvAnswer, Nearest
<1>5. ASSUME NEW q \in Searches, NEW s \in Shards, Task(q, s) PROVE InvAnswer'
  <2>1. UNCHANGED <<contents, gathered, results, returned>>
    BY <1>5 DEF Task, TaskChecks, TaskSearches, TaskThrows
  <2>2. q \notin returned
    <3>1. ~Answered(q, s)
      BY <1>5, TaskMoves DEF IInv
    <3>2. ~(gathered[q] > s)
      BY <3>1 DEF IInv, InvTasks
    <3>3. s < ShardCount
      BY SearchAssumption DEF Shards
    <3> QED BY <3>2, <3>3 DEF IInv, InvAnswer
  <2>3. \A p \in returned, r \in Shards : found'[p][r] = found[p][r]
    <3>1. returned \subseteq Searches /\ TypeOK
      BY DEF IInv, TypeOK
    <3> QED BY <1>5, <2>2, <3>1, TaskMoves
  <2>4. \A p \in returned : Partials(p)' = Partials(p)
    BY <2>3 DEF Partials
  <2>5. \A h : DistanceOf(h)' = DistanceOf(h)
    BY <2>1, SameHits
  <2> HIDE DEF Partials, DistanceOf
  <2> QED BY <2>1, <2>4, <2>5 DEF IInv, InvAnswer, Nearest
<1>6. CASE UNCHANGED vars
  BY <1>6, SameHits DEF vars, searchVars, IInv, InvAnswer, Nearest, Partials
<1> QED BY <1>1, <1>2, <1>3, <1>4, <1>5, <1>6 DEF Next

LEMMA TasksStep ==
    ASSUME IInv, TypeOK', [Next]_vars
    PROVE  InvTasks' /\ InvHealth'
<1> USE DEF IInv
<1>0. \A p \in Searches, s \in Shards : Threw(p, s) => Threw(p, s)'
  BY ThrewStays
<1>1. ASSUME NEW v \in Vectors, Insert(v) PROVE InvTasks' /\ InvHealth'
  BY <1>1 DEF Insert, searchVars, InvTasks, InvHealth, Answered, Threw
<1>2. ASSUME NEW q \in Searches, Scatter(q) PROVE InvTasks' /\ InvHealth'
  <2>1. /\ UNCHANGED <<healthy, found, gathered, tally>>
        /\ \A p \in Searches \ {q} : task'[p] = task[p]
        /\ \A s \in Shards : task[q][s] = "idle" /\ task'[q][s] = "launched"
    BY <1>2 DEF Scatter, TypeOK
  <2>2. InvHealth'
    BY <1>0, <2>1 DEF InvHealth
  <2>3. ASSUME NEW p \in Searches, NEW s \in Shards
        PROVE  /\ gathered[p] > s => Answered(p, s)'
               /\ found[p][s] # {} => task'[p][s] = "found"
               /\ Threw(p, s)' => tally[p].degraded
               /\ task'[p][s] = "skipped" => \E r \in Searches : Threw(r, s)'
    <3>1. CASE p = q
      BY <2>1, <3>1 DEF InvTasks, Answered, Threw
    <3>2. CASE p # q
      BY <1>0, <2>1, <3>2 DEF InvTasks, Answered, Threw
    <3> QED BY <3>1, <3>2
  <2> QED BY <2>1, <2>2, <2>3 DEF InvTasks
<1>3. ASSUME NEW q \in Searches, Gather(q) PROVE InvTasks' /\ InvHealth'
  <2>0. PICK g \in Shards : g = gathered[q]
    BY <1>3, SearchAssumption DEF Gather, TypeOK, Shards
  <2>1. /\ g = gathered[q] /\ g \in Nat /\ Answered(q, g)
        /\ gathered'[q] = g + 1 /\ \A p \in Searches \ {q} : gathered'[p] = gathered[p]
        /\ UNCHANGED <<task, found>>
    BY <1>3, <2>0, SearchAssumption DEF Gather, TypeOK, Shards
  <2>2. /\ \A p \in Searches : tally[p].degraded => tally'[p].degraded
        /\ task[q][g] = "threw" => tally'[q].degraded
    <3>1. tally \in [Searches -> [ok : Nat, err : Nat, degraded : BOOLEAN]]
      BY DEF TypeOK
    <3>2. /\ \A p \in Searches \ {q} : tally'[p] = tally[p]
          /\ tally'[q].degraded = IF task[q][g] = "threw" THEN TRUE ELSE tally[q].degraded
      BY <1>3, <2>0, <3>1 DEF Gather
    <3> QED BY <3>2, Zenon
  <2>3. \A s \in Shards : s \in Nat /\ (g + 1 > s <=> g > s \/ s = g)
    BY <2>1, SearchAssumption DEF Shards
  <2>4. task[q][g] = "threw" => tally'[q].degraded /\ Threw(q, g)'
    <3>1. gathered'[q] > g
      BY <2>1
    <3> QED BY <2>1, <2>2, <3>1, Zenon DEF Threw
  <2>5. \A s \in Shards : ~healthy'[s] => ~healthy[s] \/ (s = g /\ task[q][g] = "threw")
    <3>1. CASE task[q][g] = "threw"
      <4>1. \A s \in Shards \ {g} : healthy'[s] = healthy[s]
        BY <1>3, <2>0, <3>1 DEF Gather, TypeOK
      <4> QED BY <3>1, <4>1, Zenon
    <3>2. CASE task[q][g] # "threw"
      <4>1. healthy' = healthy
        BY <1>3, <2>0, <3>2 DEF Gather
      <4> QED BY <4>1
    <3> QED BY <3>1, <3>2
  <2>6. InvHealth'
    <3>1. ASSUME NEW s \in Shards, ~healthy'[s] PROVE \E p \in Searches : Threw(p, s)'
      <4>1. CASE ~healthy[s]
        BY <1>0, <4>1, Zenon DEF InvHealth
      <4>2. CASE s = g /\ task[q][g] = "threw"
        BY <2>4, <4>2
      <4> QED BY <2>5, <3>1, <4>1, <4>2, Zenon
    <3> QED BY <3>1, Zenon DEF InvHealth
  <2>7. ASSUME NEW p \in Searches, NEW s \in Shards
        PROVE  /\ gathered'[p] > s => Answered(p, s)'
               /\ found'[p][s] # {} => task'[p][s] = "found"
               /\ Threw(p, s)' => tally'[p].degraded
               /\ task'[p][s] = "skipped" => \E r \in Searches : Threw(r, s)'
    <3>1. gathered'[p] > s => gathered[p] > s \/ (p = q /\ s = g)
      BY <2>1, <2>3
    <3>2. gathered'[p] > s => Answered(p, s)'
      BY <2>1, <3>1 DEF InvTasks, Answered
    <3>3. Threw(p, s)' => tally'[p].degraded
      BY <2>1, <2>2, <2>4, <3>1 DEF InvTasks, Threw
    <3> QED BY <1>0, <2>1, <3>2, <3>3 DEF InvTasks
  <2> QED BY <2>6, <2>7 DEF InvTasks
<1>4. ASSUME NEW q \in Searches, Merge(q) PROVE InvTasks' /\ InvHealth'
  BY <1>4 DEF Merge, InvTasks, InvHealth, Answered, Threw
<1>5. ASSUME NEW q \in Searches, NEW s \in Shards, Task(q, s) PROVE InvTasks' /\ InvHealth'
  <2>1. UNCHANGED <<healthy, gathered, tally>>
    BY <1>5 DEF Task, TaskChecks, TaskSearches, TaskThrows
  <2>2. InvHealth'
    BY <1>0, <2>1 DEF InvHealth
  <2>3. ~(gathered[q] > s)
    BY <1>5, TaskMoves DEF InvTasks
  <2>4. ASSUME NEW p \in Searches, NEW r \in Shards
        PROVE  /\ gathered'[p] > r => Answered(p, r)'
               /\ found'[p][r] # {} => task'[p][r] = "found"
               /\ Threw(p, r)' => tally'[p].degraded
               /\ task'[p][r] = "skipped" => \E u \in Searches : Threw(u, r)'
    <3>1. CASE <<p, r>> = <<q, s>>
      <4>1. found'[q][s] # {} => task'[q][s] = "found"
        BY <1>5, TaskMoves DEF InvTasks
      <4>2. task'[q][s] = "skipped" => ~healthy[s]
        BY <1>5, TaskMoves
      <4> QED BY <1>0, <2>1, <2>3, <3>1, <4>1, <4>2 DEF InvHealth, Threw
    <3>2. CASE <<p, r>> # <<q, s>>
      <4>1. task'[p][r] = task[p][r] /\ found'[p][r] = found[p][r]
        BY <1>5, <3>2, TaskMoves
      <4> QED BY <1>0, <2>1, <4>1 DEF InvTasks, Answered, Threw
    <3> QED BY <3>1, <3>2
  <2> QED BY <2>2, <2>4 DEF InvTasks
<1>6. CASE UNCHANGED vars
  BY <1>6 DEF vars, searchVars, InvTasks, InvHealth, Answered, Threw
<1> QED BY <1>1, <1>2, <1>3, <1>4, <1>5, <1>6 DEF Next

\* The four facts hold in every state: what was gathered was answered, only what a
\* task found holds hits, a lost health flag has a search that lost it, and an
\* answer is a choice of the nearest.
THEOREM SearchInductive == Spec => []IInv
<1>1. Init => IInv
  <2> SUFFICES ASSUME Init PROVE IInv
    OBVIOUS
  <2>1. TypeOK
    BY TypeInit
  <2>2. \A q \in Searches, s \in Shards :
           ~(gathered[q] > s) /\ found[q][s] = {} /\ task[q][s] = "idle"
    BY SearchAssumption DEF Init, Shards
  <2>3. \A s \in Shards : healthy[s]
    BY Zenon DEF Init
  <2>4. InvTasks
    BY <2>2 DEF InvTasks, Threw
  <2>5. InvHealth
    BY <2>3, Zenon DEF InvHealth
  <2>6. InvAnswer
    BY DEF InvAnswer, Init
  <2> QED BY <2>1, <2>4, <2>5, <2>6 DEF IInv
<1>2. IInv /\ [Next]_vars => IInv'
  BY TypeStep, TasksStep, AnswersStay DEF IInv
<1> QED BY <1>1, <1>2, PTL DEF Spec

\* The reasons there can be for a hit that an answer leaves out.
LEMMA Explained ==
    ASSUME IInv, NEW q \in returned, NEW h \in present[q] \ results[q]
    PROVE  \/ /\ Cardinality(results[q]) = TopK
              /\ \A n \in results[q] : DistanceOf(n) <= DistanceOf(h)
           \/ task[q][h.shard] = "found" /\ h \notin found[q][h.shard]
           \/ task[q][h.shard] = "threw" /\ tally[q].degraded
           \/ /\ task[q][h.shard] = "skipped"
              /\ \E p \in Searches \ {q} : Threw(p, h.shard) /\ tally[p].degraded
<1> DEFINE s == h.shard
<1>1. q \in Searches /\ s \in Shards
  BY DEF IInv, TypeOK, AllHits, Hits
<1>2. gathered[q] > s
  BY <1>1, SearchAssumption DEF IInv, InvAnswer, Shards
<1>3. Answered(q, s)
  BY <1>1, <1>2 DEF IInv, InvTasks
<1>4. CASE task[q][s] = "skipped"
  BY <1>1, <1>4 DEF IInv, InvTasks, Threw
<1>5. CASE task[q][s] = "threw"
  BY <1>1, <1>2, <1>5 DEF IInv, InvTasks, Threw
<1>6. CASE h \in found[q][s]
  <2> DEFINE P == Partials(q)
             N == results[q]
  <2>1. h \in P \ N /\ Nearest(N, P)
    BY <1>1, <1>6 DEF Partials, IInv, InvAnswer
  <2>2. IsFiniteSet(P)
    BY <1>1, PartialsFinite DEF IInv
  <2> HIDE DEF P, N
  <2>3. Cardinality(N) # Cardinality(P)
    <3>1. N \in SUBSET P
      BY <2>1 DEF Nearest
    <3> QED BY <2>1, <2>2, <3>1, FS_Subset
  <2>4. Cardinality(N) = TopK /\ \A n \in N : DistanceOf(n) <= DistanceOf(h)
    BY <2>1, <2>3 DEF Nearest
  <2> QED BY <2>4 DEF N
<1> QED BY <1>3, <1>4, <1>5, <1>6 DEF Answered

\* No search, whatever others do beside it, leaves out a vector without one of the
\* four reasons: nearer results, an index that did not find it, or an exception
\* that an answer reported.
THEOREM SearchMissingExplained == Spec => []MissingIsExplained
<1>1. IInv => MissingIsExplained
  BY Explained DEF MissingIsExplained, IInv
<1> QED BY <1>1, SearchInductive, PTL
=============================================================================
