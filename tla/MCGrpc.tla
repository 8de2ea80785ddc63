------------------------------- MODULE MCGrpc -------------------------------
(***************************************************************************)
(* A small instance of GrpcService for TLC: two calls at most, of thirteen *)
(* kinds; two shards, vectors of one float, 64 values for 64 bits.         *)
(***************************************************************************)
EXTENDS GrpcService

CONSTANTS f1, f2

MCWords    == {f1, f2}
MCShardOf  == [id \in 0..63 |-> id % 2]
MCDistance == (<<f1>> :> 0) @@ (<<f2>> :> 2)
MCLatencies == {3}

\* No definition tells one call from another but by what is stored for it.
MCSymmetry == Permutations(Calls)

InsertMsg(id, vec) == Serialize(InsertRequestFields,
    [vector_id |-> id, vector |-> vec, metadata |-> <<f2>>, unknown |-> <<>>])
SearchMsg(query, k) == Serialize(SearchRequestFields,
    [query |-> query, top_k |-> k, ef_search |-> 0, unknown |-> <<>>])

Bearer(t)  == [present |-> TRUE, prefix |-> "Bearer ", rest |-> t]
Missing    == [present |-> FALSE, prefix |-> "", rest |-> ""]
From(peer, meta, method, sent) == [peer |-> peer, meta |-> meta, method |-> method, sent |-> sent]

\* A stream whose second message has id 0 and no metadata, both for one shard; one with
\* a message of the wrong size and one that is cut; a search with top_k -1, and one
\* whose top_k is a long varint that is 2 in its low bits, with a field nobody knows.
MCScripts == {
    From("p1", Bearer("t1"), "Insert", << InsertMsg(0, <<f1>>) >>),
    From("p2", Bearer("t2"), "Insert", << InsertMsg(1, <<f2>>) >>),
    From("p2", Bearer("t1"), "Insert", << InsertMsg(1, <<f1, f2>>) >>),
    From("p1", Bearer("t1"), "Insert", << InsertMsg(1, <<f1>>) \o <<Malformed>> >>),
    From("p1", Missing, "Insert", << InsertMsg(1, <<f1>>) >>),
    From("p1", Bearer("t1"), "BulkInsert",
         << InsertMsg(2, <<f1>>), << Token(2, 2, <<f2>>) >> >>),
    From("p1", Bearer("t1"), "BulkInsert", << InsertMsg(1, <<f1, f1>>), InsertMsg(0, <<f1>>) >>),
    From("p2", Bearer("t1"), "BulkInsert",
         << InsertMsg(2, <<f1>>), InsertMsg(2, <<f2>>) \o <<Malformed>>, InsertMsg(3, <<f2>>) >>),
    From("p2", Bearer("t1"), "Search", << SearchMsg(<<f1>>, -1) >>),
    From("p1", Bearer("t1"), "Search",
         << << Token(1, 2, <<f1>>), Token(2, 0, 18), Token(9, 0, 5) >> >>),
    From("p2", [Bearer("") EXCEPT !.rest = ""], "Delete", << <<Token(1, 0, 1)>> >>),
    From("p1", Bearer("t1"), "Delete", << <<Token(1, 0, 1)>> >>),
    From("p2", Bearer("t1"), "GetInfo", << <<>> >>)
}
=============================================================================
