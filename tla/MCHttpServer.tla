---------------------------- MODULE MCHttpServer ----------------------------
(***************************************************************************)
(* A small instance of HttpServer for TLC: vectors of one float, two       *)
(* shards, decimal ids.  Each client connects once, so the number of       *)
(* clients bounds the counters.                                            *)
(***************************************************************************)
EXTENDS HttpServer

CONSTANTS f, junk

Req(route, vector, id) == [route |-> route, vector |-> vector, id |-> id, shard |-> 0]

\* Inserts without an id, with id 0, with one of two digits and a token that is no
\* number, and without a number; the other routes, a search without its query.
MCRequests == {
    Req("insert", <<f>>, None), Req("insert", <<f>>, 0), Req("insert", <<f, junk>>, 12),
    Req("insert", <<junk>>, None),
    Req("search", <<f>>, None), Req("search", <<>>, None),
    Req("info", <<>>, None), Req("metrics", <<>>, None), Req("node", <<>>, 0),
    [Req("node", <<>>, 10) EXCEPT !.shard = 2],
    Req("health", <<>>, None), Req("preflight", <<>>, None), Req("unknown", <<>>, None)
}
MCShardOf == [id \in Ids |-> id % 2]
=============================================================================
