------------------------------ MODULE MCSearch ------------------------------
(***************************************************************************)
(* Small instances of Search for TLC: vectors 1, 2, 3, of which 2 and 3    *)
(* are equally far from the query and 3 is alone on its shard.             *)
(***************************************************************************)
EXTENDS Search

MCVectors == 1..3
MCOwner   == <<0, 0, 1>>
MCDist    == <<1, 2, 2>>
=============================================================================
