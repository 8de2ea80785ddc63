---------------------------- MODULE GrpcService ----------------------------
(***************************************************************************)
(* The gRPC service: server/grpc_server.cpp with its AuthMiddleware and    *)
(* its RateLimiter, from the bytes of a client's call to the bytes of the  *)
(* answer.  Handlers run on the threads of the completion queues, side by  *)
(* side; a call is a client's one use of a method.                         *)
(*                                                                         *)
(* ShardManager is its indexes: an insert takes the exclusive lock of one, *)
(* so it is one step here, and it may throw anywhere, also when its vector *)
(* already has a node.  Its log is left out: append takes no lock, and     *)
(* what calls side by side make of a log is the subject of RacingInserts   *)
(* (of one call after the other: WAL and Shard).  How an index searches is *)
(* the subject of HNSW and Search.  The limiter is RateLimiter, whose      *)
(* Clients are ctx->peer(): address and port of a connection.              *)
(* Outside src/: gRPC parses the request of a unary call before it calls   *)
(* the handler, sends an answer only with status OK, and ends a stream at  *)
(* a message that does not parse.                                          *)
(***************************************************************************)
EXTENDS Messages, RateLimiter

CONSTANTS
    Calls,          \* calls that clients make, each at most once
    Scripts,        \* what a call may be: its method, its metadata, its messages
    BearerTokens,   \* strings that may be in tokens_
    ShardCount,     \* shard_count_
    ShardOf,        \* [UInt64 -> Shards]: ring_.get_shard
    Dim,            \* dim_; a word is one float
    Distance,       \* [vectors -> Nat]: the true distance to the query
    Latencies,      \* values that latency_us takes
    MaxAdmin        \* BOUND: changes of tokens_ and disabled_

Shards  == 0..(ShardCount - 1)
Methods == {"Insert", "BulkInsert", "Search", "Delete", "GetInfo"}
Prefix  == "Bearer "
Vectors == [1..Dim -> Words]

\* BOUND: the vectors of all shards, and the messages of a stream, are fewer than 2^64.
ASSUME ServiceAssumption ==
    /\ ShardCount \in UInt32 \ {0} /\ ShardCount * Narrow < Wide
    /\ Dim \in Int32 /\ Dim > 0 /\ MaxAdmin \in Nat
    /\ ShardOf \in [UInt64 -> Shards]
    /\ Distance \in [Vectors -> Nat] /\ Latencies \subseteq Int64
    /\ \A s \in Scripts :
         /\ s.method \in Methods /\ s.peer \in Clients
         /\ s.sent \in Seq(Seq(Tokens \cup {Malformed})) /\ Len(s.sent) < Wide
         /\ s.method # "BulkInsert" => s.sent # <<>>
    /\ "" \notin BearerTokens

VARIABLES
    valid_tokens,  \* AuthMiddleware::tokens_
    disabled,      \* AuthMiddleware::disabled_
    admin,         \* changes made to these two
    index,         \* per shard, what was inserted as each of its nodes: [id, vec, call, state]
                   \* (the nodes hold vectors only; id, call and state are HISTORY)
    healthy,       \* ShardState::healthy
    phase,         \* where each call is
    script,        \* the call's Script
    stream,        \* messages of the call not yet read
    req,           \* the request object
    resp,          \* the response object
    status,        \* the grpc::Status returned
    answer,        \* what the client parses from the answer
    progress,      \* GetInfo: shards of the loops of total_vectors and
                   \* load_distribution done so far
    outcome        \* HISTORY: what became of each message a call read

authVars == <<valid_tokens, disabled, admin>>
dataVars == <<index, healthy>>
callVars == <<phase, script, stream, req, resp, status, answer, progress, outcome>>
vars     == <<authVars, rateVars, dataVars, callVars>>

RequestFields(method) ==
    CASE method \in {"Insert", "BulkInsert"} -> InsertRequestFields
      [] method = "Search" -> SearchRequestFields
      [] method = "Delete" -> DeleteRequestFields
      [] method = "GetInfo" -> InfoRequestFields
ResponseFields(method) ==
    CASE method = "Insert" -> InsertResponseFields
      [] method = "BulkInsert" -> BulkInsertResponseFields
      [] method = "Search" -> SearchResponseFields
      [] method = "Delete" -> DeleteResponseFields
      [] method = "GetInfo" -> InfoResponseFields

Method(c)    == script[c].method
InFields(c)  == RequestFields(Method(c))
OutFields(c) == ResponseFields(Method(c))

Types(method) ==
    CASE method = "Insert" -> [in |-> InsertRequest, out |-> InsertResponse]
      [] method = "BulkInsert" -> [in |-> InsertRequest, out |-> BulkInsertResponse]
      [] method = "Search" -> [in |-> SearchRequest, out |-> SearchResponse]
      [] method = "Delete" -> [in |-> DeleteRequest, out |-> DeleteResponse]
      [] method = "GetInfo" -> [in |-> InfoRequest, out |-> InfoResponse]

Statuses == {"OK", "UNAUTHENTICATED", "RESOURCE_EXHAUSTED", "INVALID_ARGUMENT",
             "UNIMPLEMENTED", "UNKNOWN", "INTERNAL"}

\* What becomes of the insert of a vector.  It may throw before the index gives it a
\* node ("threw": append, or the copy of the vector); when it has a node that holds
\* nothing of it and has no links ("threw_blank": vectors_.resize); or when the node
\* holds it and is linked in part, or not at all ("threw_copied").
Kept     == {"stored", "threw_copied", "threw_blank"}
Outcomes == Kept \cup {"threw", "bad_size"}

Nodes == [id : UInt64, vec : Vectors, call : Calls, state : Kept]

TypeOK ==
    /\ valid_tokens \subseteq BearerTokens /\ disabled \in BOOLEAN /\ admin \in 0..MaxAdmin
    /\ RateTypeOK
    /\ \A s \in Shards : index[s] \in Seq(Nodes)
    /\ healthy \in [Shards -> BOOLEAN]
    /\ phase \in [Calls -> {"idle", "arrived", "handler", "done"}]
    /\ \A c \in Calls : phase[c] # "idle" =>
         /\ req[c] \in Types(Method(c)).in
         /\ resp[c] \in Types(Method(c)).out
    /\ status \in [Calls -> Statuses \cup {"none"}]
    /\ progress \in [Calls -> 0..(2 * ShardCount)]
    /\ \A c \in Calls : outcome[c] \in Seq(Outcomes)

Init ==
    /\ valid_tokens \in SUBSET BearerTokens /\ disabled = FALSE /\ admin = 0
    /\ RateInit
    /\ index = [s \in Shards |-> <<>>]
    /\ healthy = [s \in Shards |-> TRUE]
    /\ phase = [c \in Calls |-> "idle"]
    /\ script = [c \in Calls |-> <<>>] /\ stream = [c \in Calls |-> <<>>]
    /\ req = [c \in Calls |-> <<>>] /\ resp = [c \in Calls |-> <<>>]
    /\ status = [c \in Calls |-> "none"] /\ answer = [c \in Calls |-> <<>>]
    /\ progress = [c \in Calls |-> 0]
    /\ outcome = [c \in Calls |-> <<>>]

-----------------------------------------------------------------------------
(* AuthMiddleware                                                           *)

SetTokens(T) ==
    /\ admin < MaxAdmin
    /\ valid_tokens' = T /\ admin' = admin + 1
    /\ UNCHANGED <<disabled, rateVars, dataVars, callVars>>
AddToken(t)    == SetTokens(valid_tokens \cup {t})
RemoveToken(t) == SetTokens(valid_tokens \ {t})

SetDisabled(b) ==
    /\ admin < MaxAdmin
    /\ disabled' = b /\ admin' = admin + 1
    /\ UNCHANGED <<valid_tokens, rateVars, dataVars, callVars>>

\* check_value: the prefix, more than the prefix, and a token that is known.
CheckValue(value) ==
    /\ value.prefix = Prefix /\ value.rest # ""
    /\ value.rest \in valid_tokens

\* check: the "authorization" metadata may be missing.
Check(meta) == disabled \/ (meta.present /\ CheckValue(meta))

-----------------------------------------------------------------------------
(* A call arrives, passes the gate or not, and ends.                        *)

\* What the client reads: gRPC serializes the response of a call that is OK.
ClientReads(fields, m) == ParseFrom(fields, New(fields), Serialize(fields, m))

Ends(c, st, m) ==
    /\ phase' = [phase EXCEPT ![c] = "done"]
    /\ status' = [status EXCEPT ![c] = st]
    /\ resp' = [resp EXCEPT ![c] = m]
    /\ answer' = IF st = "OK" THEN [answer EXCEPT ![c] = ClientReads(OutFields(c), m)]
                              ELSE answer

\* The registered method's handler takes the call: a unary method's request is
\* parsed into a new object, and the response object is new.
Arrive(c, s) ==
    /\ phase[c] = "idle"
    /\ script' = [script EXCEPT ![c] = s]
    /\ LET new == New(RequestFields(s.method))
           p   == ParseFrom(RequestFields(s.method), new, s.sent[1])
           parsed == s.method = "BulkInsert" \/ p.ok
       IN  /\ req' = [req EXCEPT ![c] = IF s.method = "BulkInsert" THEN new ELSE p.msg]
           /\ phase' = [phase EXCEPT ![c] = IF parsed THEN "arrived" ELSE "done"]
           /\ status' = [status EXCEPT ![c] = IF parsed THEN "none" ELSE "INTERNAL"]
    /\ stream' = [stream EXCEPT ![c] = s.sent]
    /\ resp' = [resp EXCEPT ![c] = New(ResponseFields(s.method))]
    /\ UNCHANGED <<authVars, rateVars, dataVars, answer, progress, outcome>>

\* gate: a call that is not authenticated is turned away before it pays.
Unauthenticated(c) ==
    /\ phase[c] = "arrived" /\ ~Check(script[c].meta)
    /\ Ends(c, "UNAUTHENTICATED", resp[c])
    /\ UNCHANGED <<authVars, rateVars, dataVars, script, stream, req, progress, outcome>>

\* gate: the peer has no token left.
Limited(c) ==
    /\ phase[c] = "arrived" /\ Check(script[c].meta)
    /\ CheckRejects(script[c].peer)
    /\ Ends(c, "RESOURCE_EXHAUSTED", resp[c])
    /\ UNCHANGED <<authVars, dataVars, script, stream, req, progress, outcome>>

\* gate: the call has paid its token and goes on.
Admitted(c) ==
    /\ phase[c] = "arrived" /\ Check(script[c].meta)
    /\ CheckAdmits(script[c].peer)
    /\ phase' = [phase EXCEPT ![c] = "handler"]
    /\ UNCHANGED <<authVars, dataVars, script, stream, req, resp, status, answer, progress, outcome>>

Gate(c) == Unauthenticated(c) \/ Limited(c) \/ Admitted(c)
Serving(c, method) == phase[c] = "handler" /\ Method(c) = method

\* decode_vector: the size has to be dim floats.
Decodes(bytes) == Len(bytes) = Dim

-----------------------------------------------------------------------------
(* ShardManager::insert, as a handler sees it                               *)

\* BOUND: a shard has no more vectors than a node id has values, 2^32.
HasRoom(s) == Len(index[s]) < Narrow

\* The insert of message m of call c, and what becomes of it.  A throw behind
\* next_id_.fetch_add leaves the node where it is.
Store(c, m, what) ==
    LET s == ShardOf[m.vector_id]
    IN  /\ what \in Kept => HasRoom(s)
        /\ index' = IF what \notin Kept THEN index
                    ELSE [index EXCEPT ![s] = Append(@, [id |-> m.vector_id, vec |-> m.vector,
                                                         call |-> c, state |-> what])]
        /\ UNCHANGED healthy

\* Insert
InsertBadSize(c) ==
    /\ Serving(c, "Insert") /\ ~Decodes(req[c].vector)
    /\ Ends(c, "INVALID_ARGUMENT", resp[c])
    /\ UNCHANGED <<authVars, rateVars, dataVars, script, stream, req, progress, outcome>>

\* The id the index gives the next vector.
NextNode(s) == Len(index[s])

InsertStores(c) ==
    /\ Serving(c, "Insert") /\ Decodes(req[c].vector)
    /\ Store(c, req[c], "stored")
    /\ outcome' = [outcome EXCEPT ![c] = Append(@, "stored")]
    /\ LET s == ShardOf[req[c].vector_id]
       IN  \E us \in Latencies :
             Ends(c, "OK", [resp[c] EXCEPT !.shard_id = s, !.node_id = NextNode(s),
                                           !.latency_us = us])
    /\ UNCHANGED <<authVars, rateVars, script, stream, req, progress>>

\* gRPC turns an exception of the handler into a status.
InsertThrows(c) ==
    /\ Serving(c, "Insert") /\ Decodes(req[c].vector)
    /\ \E what \in {"threw", "threw_copied", "threw_blank"} :
         /\ Store(c, req[c], what)
         /\ outcome' = [outcome EXCEPT ![c] = Append(@, what)]
    /\ Ends(c, "UNKNOWN", resp[c])
    /\ UNCHANGED <<authVars, rateVars, script, stream, req, progress>>

InsertCall(c) == InsertBadSize(c) \/ InsertStores(c) \/ InsertThrows(c)

-----------------------------------------------------------------------------
(* BulkInsert: one request object for all messages of the stream            *)

ReadNext(c)  == ParseFrom(InsertRequestFields, req[c], Head(stream[c]))
CanRead(c)   == stream[c] # <<>> /\ ReadNext(c).ok

\* MUTANT: a vector that has a node counts as inserted, whether or not its insert threw.
CounterOfKept(what) == IF what \in Kept THEN "inserted" ELSE "failed"

\* The counter that a message goes to.
Counter(what) == IF what = "stored" THEN "inserted" ELSE "failed"

\* A turn of the loop.  resp holds the counters inserted and failed.
BulkRead(c) ==
    /\ Serving(c, "BulkInsert") /\ CanRead(c)
    /\ LET m == ReadNext(c).msg
       IN  /\ req' = [req EXCEPT ![c] = m]
           /\ \E what \in Outcomes :
                /\ what = "bad_size" <=> ~Decodes(m.vector)
                /\ IF what = "bad_size" THEN UNCHANGED dataVars ELSE Store(c, m, what)
                /\ outcome' = [outcome EXCEPT ![c] = Append(@, what)]
                /\ resp' = [resp EXCEPT ![c][Counter(what)] = @ + 1]
    /\ stream' = [stream EXCEPT ![c] = Tail(@)]
    /\ UNCHANGED <<authVars, rateVars, phase, script, status, answer, progress>>

\* Read returns false: the stream has ended, or its next message does not parse.
BulkEnds(c) ==
    /\ Serving(c, "BulkInsert") /\ ~CanRead(c)
    /\ \E us \in Latencies : Ends(c, "OK", [resp[c] EXCEPT !.latency_us = us])
    /\ UNCHANGED <<authVars, rateVars, dataVars, script, stream, req, progress, outcome>>

-----------------------------------------------------------------------------
(* Search, Delete, GetInfo                                                  *)

SearchRefuses(c) ==
    /\ Serving(c, "Search")
    /\ req[c].top_k <= 0 \/ ~Decodes(req[c].query)
    /\ Ends(c, "INVALID_ARGUMENT", resp[c])
    /\ UNCHANGED <<authVars, rateVars, dataVars, script, stream, req, progress, outcome>>

\* The nodes that a search of shard s may find: any that may have links.
Linked(s) == {n \in DOMAIN index[s] : index[s][n].state # "threw_blank"}
Hits(S)   == UNION {{[shard |-> s, node |-> n] : n \in Linked(s)} : s \in S}

\* Does an index among S have an entry point?  It does when an insert has returned.
HasEntry(S) == \E s \in S : \E n \in DOMAIN index[s] : index[s][n].state = "stored"

DistanceOf(h) == Distance[index[h.shard][h.node].vec]

\* MUTANT: the position in the model's sequence is taken for the node id.
NodeIdFromOne(h) == h.node

NodeId(h) == h.node - 1

\* The orders in which the merge may leave hits: nearest first.
Merges(H) == {q \in [1..Cardinality(H) -> H] :
                /\ IsInjective(q)
                /\ \A i, j \in 1..Cardinality(H) : i < j => DistanceOf(q[i]) <= DistanceOf(q[j])}

\* The results of the answer: every one says shard 0.
ResultsOf(q) == [k \in DOMAIN q |-> [shard_id |-> 0, node_id |-> NodeId(q[k]),
                                     distance |-> DistanceOf(q[k]),
                                     metadata |-> <<>>, unknown |-> <<>>]]

\* shard_mgr_.search: the tasks of the shards in `threw' fail, and cost them their
\* flag; shards without it give nothing; the others any hits, at most top_k and
\* at least the node where the search ends that begins at an entry point.
SearchAnswers(c) ==
    /\ Serving(c, "Search")
    /\ req[c].top_k > 0 /\ Decodes(req[c].query)
    /\ \E threw \in SUBSET {s \in Shards : healthy[s]}, us \in Latencies :
         /\ healthy' = [s \in Shards |-> healthy[s] /\ s \notin threw]
         /\ LET asked == {s \in Shards : healthy[s]} \ threw
            IN  \E H \in SUBSET Hits(asked) : \E q \in Merges(H) :
                  /\ Cardinality(H) <= req[c].top_k /\ (H # {} <=> HasEntry(asked))
                  /\ Ends(c, "OK", [resp[c] EXCEPT
                       !.results = ResultsOf(q), !.latency_us = us, !.degraded = threw # {},
                       !.shards_ok = ShardCount - Cardinality(threw),
                       !.shards_err = Cardinality(threw)])
    /\ UNCHANGED <<authVars, rateVars, index, script, stream, req, progress, outcome>>

DeleteRefuses(c) ==
    /\ Serving(c, "Delete")
    /\ Ends(c, "UNIMPLEMENTED", [resp[c] EXCEPT !.found = FALSE, !.latency_us = 0])
    /\ UNCHANGED <<authVars, rateVars, dataVars, script, stream, req, progress, outcome>>

\* MUTANT: load_distribution is read before total_vectors.
InTotalLoopSecond(done) == done >= ShardCount

InTotalLoop(done) == done < ShardCount

\* The loop of total_vectors and then that of load_distribution ask the indexes
\* for their sizes, one at a time, while inserts go on.
InfoReads(c) ==
    /\ Serving(c, "GetInfo") /\ progress[c] < 2 * ShardCount
    /\ progress' = [progress EXCEPT ![c] = @ + 1]
    /\ LET s == progress[c] % ShardCount
       IN  resp' = IF InTotalLoop(progress[c])
                   THEN [resp EXCEPT ![c].total_vectors = @ + Len(index[s])]
                   ELSE [resp EXCEPT ![c].shards = Append(@,
                           [shard_id |-> s, vector_count |-> Len(index[s]),
                            status |-> "", unknown |-> <<>>])]
    /\ UNCHANGED <<authVars, rateVars, dataVars, phase, script, stream, req, status, answer, outcome>>

InfoAnswers(c) ==
    /\ Serving(c, "GetInfo") /\ progress[c] = 2 * ShardCount
    /\ Ends(c, "OK", [resp[c] EXCEPT
         !.shard_count = ShardCount, !.dim = Dim,
         !.shards = [k \in DOMAIN @ |-> [@[k] EXCEPT
                        !.status = IF healthy[k - 1] THEN "healthy" ELSE "degraded"]]])
    /\ UNCHANGED <<authVars, rateVars, dataVars, script, stream, req, progress, outcome>>

-----------------------------------------------------------------------------

ClockTicks == Tick /\ UNCHANGED <<authVars, dataVars, callVars>>

Handler(c) ==
    \/ Gate(c) \/ InsertCall(c) \/ BulkRead(c) \/ BulkEnds(c)
    \/ SearchRefuses(c) \/ SearchAnswers(c) \/ DeleteRefuses(c)
    \/ InfoReads(c) \/ InfoAnswers(c)

Next ==
    \/ \E c \in Calls : Handler(c) \/ \E s \in Scripts : Arrive(c, s)
    \/ \E t \in BearerTokens : AddToken(t) \/ RemoveToken(t)
    \/ \E b \in BOOLEAN : SetDisabled(b)
    \/ ClockTicks

Spec == Init /\ [][Next]_vars

-----------------------------------------------------------------------------
(* Properties                                                               *)

\* What a client sends on a stream, as far as it parses.
Readable == [s \in {x \in Scripts : x.method = "BulkInsert"} |->
    LET parsed == [k \in DOMAIN s.sent |->
                     ParseFrom(InsertRequestFields, New(InsertRequestFields), s.sent[k])]
        good == {n \in 0..Len(parsed) : \A k \in 1..n : parsed[k].ok}
    IN  [k \in 1..(CHOOSE n \in good : \A j \in good : j <= n) |-> parsed[k].msg]]

\* The nodes of shard s that call c was given.
NodesOf(c, s) == {n \in DOMAIN index[s] : index[s][n].call = c}

\* In every index the nodes of a stream's messages stand in the order sent, each for
\* the id and the vector its sender sent and for what became of it, though other
\* inserts run between them and some throw.  (One request object for the whole
\* stream, proto3 leaves out id 0, and a throw does not take the node back.)
StreamStoredAsSent ==
    \A c \in Calls : phase[c] # "idle" /\ Method(c) = "BulkInsert" =>
        LET told == Readable[script[c]]
            kept(s) == {k \in DOMAIN outcome[c] :
                           outcome[c][k] \in Kept /\ ShardOf[told[k].vector_id] = s}
        IN  \A s \in Shards :
              Picked(index[s], NodesOf(c, s)) =
                [n \in 1..Cardinality(kept(s)) |->
                    LET k == Nth(kept(s), n)
                    IN  [id |-> told[k].vector_id, vec |-> told[k].vector,
                         call |-> c, state |-> outcome[c][k]]]

\* What a stream is answered with: as inserted, those of its vectors whose insert
\* returned, and with the failed ones all it sent up to the first message that did
\* not parse.  (So the vectors it counts as inserted are in the indexes; of those
\* it counts as failed some may be there as well.)
BulkCounts ==
    \A c \in Calls : status[c] = "OK" /\ Method(c) = "BulkInsert" =>
        LET mine   == UNION {{s} \X NodesOf(c, s) : s \in Shards}
            stored == UNION {{s} \X {n \in NodesOf(c, s) : index[s][n].state = "stored"} : s \in Shards}
            sum    == answer[c].msg.inserted + answer[c].msg.failed
        IN  /\ answer[c].msg.inserted = Cardinality(stored)
            /\ Cardinality(mine) <= sum
            /\ sum = Len(Readable[script[c]])

\* Messages survive the way: the client parses the answer its handler set, default
\* and negative values included, a handler's request is parsed back from what it is
\* written as, and the size computed before a message is written is the size of
\* what is written.
WrittenInFull ==
    TypeOK /\ \A c \in Calls : phase[c] = "done" =>
        /\ status[c] = "OK" => answer[c] = [ok |-> TRUE, msg |-> resp[c]]
        /\ \A asked \in {Serialize(InFields(c), req[c])},
              told \in {Serialize(OutFields(c), resp[c])} :
              /\ ParseFrom(InFields(c), req[c], asked) = [ok |-> TRUE, msg |-> req[c]]
              /\ ByteSizeLong(InFields(c), req[c]) = WireLength(InFields(c), asked)
              /\ ByteSizeLong(OutFields(c), resp[c]) = WireLength(OutFields(c), told)

\* The place an insert was answered with is, and stays, where its vector is.
InsertAnswerLocates ==
    \A c \in Calls : status[c] = "OK" /\ Method(c) = "Insert" =>
        LET s == answer[c].msg.shard_id
            n == answer[c].msg.node_id
        IN  /\ n < Len(index[s])
            /\ index[s][n + 1] = [id |-> req[c].vector_id, vec |-> req[c].vector,
                                  call |-> c, state |-> "stored"]

\* A result is a node of some shard, at the distance of a vector that was sent to be
\* inserted there: never a node that an insert left blank.
ResultIsAVector ==
    \A c \in Calls : status[c] = "OK" /\ Method(c) = "Search" =>
        \A k \in DOMAIN answer[c].msg.results :
            LET r == answer[c].msg.results[k]
            IN  \E s \in Shards : /\ r.node_id < Len(index[s])
                                  /\ index[s][r.node_id + 1].state # "threw_blank"
                                  /\ Distance[index[s][r.node_id + 1].vec] = r.distance

\* The two together: node ids that leave the service name places in an index.
AnswersLocate == InsertAnswerLocates /\ ResultIsAVector

\* GetInfo's total is never more than the sum of its shards' counts, though
\* inserts go on between the reads.  (It is read first, and indexes only grow.)
TotalWithinShards ==
    \A c \in Calls : status[c] = "OK" /\ Method(c) = "GetInfo" =>
        answer[c].msg.total_vectors <=
            SumOf([k \in DOMAIN answer[c].msg.shards |-> answer[c].msg.shards[k].vector_count])
=============================================================================
