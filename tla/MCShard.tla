------------------------------ MODULE MCShard ------------------------------
(***************************************************************************)
(* Small instances of Shard for TLC.  The vectors are numbered by their    *)
(* inserts, so the configurations only bound how often each call happens.  *)
(***************************************************************************)
EXTENDS Shard
=============================================================================
