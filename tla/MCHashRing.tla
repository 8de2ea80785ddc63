----------------------------- MODULE MCHashRing -----------------------------
(***************************************************************************)
(* A small instance of HashRing for TLC: every hash function is an initial *)
(* state.  One id is not the number of a virtual node.                     *)
(***************************************************************************)
EXTENDS HashRing

MCKeys == VNodeKeys(MaxShards) \cup {<<0, VirtualNodes>>}
=============================================================================
