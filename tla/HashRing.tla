------------------------------ MODULE HashRing ------------------------------
(***************************************************************************)
(* ConsistentHashRing (shard/consistent_hash.cpp): which shard owns a      *)
(* vector id, and what changes when the ring is built again with one more  *)
(* shard (a restart with a larger --shards, or a second ring as in the     *)
(* unit test).                                                             *)
(*                                                                         *)
(* A 64-bit number is the pair of its halves, since hash_vnode packs a     *)
(* shard and an index into one, and `hash' is hash_key: any function from  *)
(* such numbers to positions.  The sorted array of virtual nodes is a      *)
(* function from the positions in use to their shards; lower_bound finds   *)
(* the least such position that is not below its argument.                 *)
(***************************************************************************)
EXTENDS Integers

CONSTANTS
    Keys,          \* the 64-bit numbers that are hashed: vector ids and virtual nodes
    Positions,     \* the values of hash_key
    VirtualNodes,  \* virtual_nodes_
    MaxShards      \* BOUND: the ring grows up to this many shards

VNodeKeys(n) == (0..(n - 1)) \X (0..(VirtualNodes - 1))

ASSUME RingAssumption ==
    /\ VirtualNodes \in Nat \ {0} /\ MaxShards \in Nat \ {0}
    /\ Positions \subseteq Nat
    /\ VNodeKeys(MaxShards) \subseteq Keys

VARIABLES
    hash,    \* hash_key, the same for ever
    shards,  \* shard_count_
    ring     \* ring_: position |-> shard_id

ringVars == <<hash, shards, ring>>

\* Positions of the virtual nodes of the first n shards.
Points(n) == {hash[k] : k \in VNodeKeys(n)}

\* MUTANT: one loop over all virtual nodes, dealt out to the shards in turn.
RingOfDealt(n) ==
    [p \in Points(n) |->
        LET k == CHOOSE k \in VNodeKeys(n) : hash[k] = p
        IN  (k[1] * VirtualNodes + k[2]) % n]

\* The constructor: each shard gets VirtualNodes positions.
RingOf(n) == [p \in Points(n) |-> (CHOOSE k \in VNodeKeys(n) : hash[k] = p)[1]]

Least(S) == CHOOSE p \in S : \A q \in S : p <= q

\* lower_bound on the sorted positions P, from the start again past the last one.
NextAt(P, h) ==
    LET up == {p \in P : p >= h} IN Least(IF up # {} THEN up ELSE P)

\* get_shard, of a vector id and of a string key alike.
GetShard(key) == ring[NextAt(DOMAIN ring, hash[key])]

\* MUTANT: a new position past the last one splits nobody's range.
AffectedNoWrap ==
    {ring[NextAt(DOMAIN ring, hash[<<shards, v>>])] :
        v \in {w \in 0..(VirtualNodes - 1) : \E p \in DOMAIN ring : p >= hash[<<shards, w>>]}}

\* affected_shards_on_add: who owns the positions that shard number shard_count_ takes.
AffectedShardsOnAdd ==
    {ring[NextAt(DOMAIN ring, hash[<<shards, v>>])] : v \in 0..(VirtualNodes - 1)}

RingTypeOK ==
    /\ hash \in [Keys -> Positions]
    /\ shards \in 1..MaxShards
    /\ ring \in [Points(shards) -> 0..(shards - 1)]

\* Virtual nodes are taken not to collide.  ("Using a mix of both values ensures
\* different shards don't collide"; the order of equal ones after std::sort is open.)
Distinct == \A j, k \in VNodeKeys(MaxShards) : hash[j] = hash[k] => j = k

RingInit ==
    /\ hash \in [Keys -> Positions] /\ Distinct
    /\ shards = 1 /\ ring = RingOf(1)

AddShard ==
    /\ shards < MaxShards
    /\ shards' = shards + 1
    /\ ring' = RingOf(shards + 1)
    /\ UNCHANGED hash

RingNext == AddShard

RingSpec == RingInit /\ [][RingNext]_ringVars

-----------------------------------------------------------------------------
(* Properties                                                               *)

\* An id whose number is that of a virtual node hashes to the very position of that
\* node: it is on that node's shard from the day the shard is added.  So the ids
\* 0 to virtual_nodes - 1 are all on shard 0, however many shards there are.
\* (hash_vnode and get_shard hash with the same function.)
VNodeIdsPinned ==
    \A s \in 0..(shards - 1), v \in 0..(VirtualNodes - 1) : GetShard(<<s, v>>) = s

\* When a shard is added, an id keeps its shard or moves to the new one.
OnlyNewShardGains ==
    [][\A key \in Keys : GetShard(key)' \in {GetShard(key), shards}]_ringVars

\* ... and those that move come from the shards affected_shards_on_add names.
MovesOnlyFromAffected ==
    [][\A key \in Keys :
         GetShard(key)' # GetShard(key) => GetShard(key) \in AffectedShardsOnAdd]_ringVars
=============================================================================
