------------------------------ MODULE HttpApi ------------------------------
(***************************************************************************)
(* What HttpApiServer does with a request (server/http_api.cpp): parsing   *)
(* of what one recv returned, the handlers, and the answer.  A handler is  *)
(* the list of its steps, each of which reads or changes what other        *)
(* threads also use: the shards, which the gRPC service may share, and the *)
(* metrics.  Which results a search finds is the subject of Search.        *)
(***************************************************************************)
EXTENDS Metrics, Sequences

CONSTANTS
    Requests,    \* requests that clients send: [route, vector, id, shard]
    Junk,        \* a token of a vector that is no number
    Dim,         \* mgr_.cfg_dim()
    ShardCount,  \* mgr_.shard_count()
    MaxId,       \* BOUND: the largest vector id
    ShardOf,     \* [Ids -> Shards]: the ring
    OtherIds,    \* ids that other users of the ShardManager insert under
    MaxOthers    \* BOUND: inserts by other users of the ShardManager

VARIABLES
    contents,  \* per shard, the vectors of its index: [id, auto, vector]
    others,    \* inserts made by others
    asked,     \* the request being served: as sent, as received
    steps,     \* what its handler still has to do
    loop,      \* index of the handler's loop over the shards
    reply      \* the answer as far as it is known

handlerVars == <<asked, steps, loop, reply>>
apiVars     == <<contents, others, handlerVars>>

Shards == 0..(ShardCount - 1)
Ids    == 0..MaxId
Base   == 10      \* ids are written in decimal
None   == -1      \* the default of parse_int64_field

Posts    == {"insert", "search"}
Routes   == Posts \cup {"info", "metrics", "node", "health", "preflight", "unknown"}
NoAsk    == [route |-> "unknown", vector |-> <<>>, id |-> None, shard |-> 0]
NoReply  == [kind |-> "none", shard |-> 0, node |-> 0, id |-> None, total |-> 0, parts |-> <<>>]
Steps    == {"sum", "parts", "store", "record", "recording"}

ASSUME ApiAssumption ==
    /\ ShardCount \in Nat \ {0} /\ Dim \in Nat \ {0} /\ MaxOthers \in Nat /\ MaxId \in Nat
    /\ ShardOf \in [Ids -> Shards] /\ OtherIds \subseteq Ids
    /\ \A r \in Requests :
         /\ DOMAIN r = {"route", "vector", "id", "shard"}
         /\ r.route \in Routes /\ r.id \in Int /\ r.id <= MaxId /\ r.shard \in Nat

ApiTypeOK ==
    /\ \A s \in Shards : \A k \in DOMAIN contents[s] :
         contents[s][k].id \in Nat /\ Len(contents[s][k].vector) = Dim
    /\ others \in 0..MaxOthers
    /\ asked.sent \in Requests \cup {NoAsk}
    /\ steps \in Seq(Steps) /\ loop \in Shards
    /\ reply.shard \in Shards /\ reply.node \in Nat /\ reply.total \in Nat

ApiInit ==
    /\ contents = [s \in Shards |-> <<>>] /\ others = 0
    /\ asked = [sent |-> NoAsk, got |-> NoAsk]
    /\ steps = <<>> /\ loop = 0 /\ reply = NoReply

-----------------------------------------------------------------------------
(* Parsing                                                                  *)

\* Where what recv returned may end: inside the path, before the body, inside the
\* array, before the digits of the id, after the first of them.
Cuts(r) == {"whole", "line"}
    \cup (IF r.route \in Posts THEN {"head", "array"} ELSE {})
    \cup (IF r.route \in Posts \cup {"node"} THEN {"id", "digits"} ELSE {})

\* parse_method to parse_body, and the searches in the JSON text and the query, on a
\* request that ends there.  A body that has no array has an empty one; no id is None;
\* the shard of a node comes after its id, and is 0 without one.
Received(r, cut) ==
    CASE cut = "line" -> NoAsk
      [] cut \in {"head", "array"} -> [r EXCEPT !.vector = <<>>, !.id = None]
      [] cut = "id" -> [r EXCEPT !.id = None, !.shard = 0]
      [] cut = "digits" -> [r EXCEPT !.id = IF @ >= Base THEN @ \div Base ELSE @, !.shard = 0]
      [] OTHER -> r

\* parse_float_array: what std::stof does not take is left out.
Floats(vector) ==
    LET floats[k \in 0..Len(vector)] ==
          IF k = 0 THEN <<>>
          ELSE IF vector[k] = Junk THEN floats[k - 1] ELSE Append(floats[k - 1], vector[k])
    IN  floats[Len(vector)]
GoodVector(r)  == Len(Floats(r.vector)) = Dim

-----------------------------------------------------------------------------
(* The handlers                                                             *)

\* MUTANT: an id of 0 is taken for none.
AutomaticFromZero(id) == id <= 0

\* handle_insert assigns an id if it has parsed none, or a negative one.
Automatic(id) == id < 0

\* handle_info asks for the total and then for the parts, handle_metrics the other
\* way round; an insert's answer has the total after the insert.
Program(r) ==
    CASE r.route = "insert" /\ GoodVector(r) ->
           (IF Automatic(r.id) THEN <<"sum">> ELSE <<>>) \o <<"store", "record", "sum">>
      [] r.route = "search" /\ GoodVector(r) -> <<"record">>
      [] r.route = "info" -> <<"sum", "parts">>
      [] r.route = "metrics" -> <<"parts", "sum">>
      [] OTHER -> <<>>

\* handle_node shows a node of a shard's index if both are there.
NodeShown(r) == r.shard \in Shards /\ r.id \in 0..(Len(contents[r.shard]) - 1)

\* Errors that handlers find are answers like others; they come with status 200.
Answer(r) ==
    CASE r.route \in Posts /\ ~GoodVector(r) -> [NoReply EXCEPT !.kind = "error"]
      [] r.route = "node" -> IF NodeShown(r)
                             THEN [NoReply EXCEPT !.kind = "node", !.node = r.id, !.shard = r.shard]
                             ELSE [NoReply EXCEPT !.kind = "error"]
      [] OTHER -> [NoReply EXCEPT !.kind = r.route]

\* The dispatch of handle_client.
Dispatch(r, cut) ==
    LET got == Received(r, cut)
    IN  /\ asked' = [sent |-> r, got |-> got]
        /\ steps' = Program(got) /\ loop' = 0
        /\ reply' = Answer(got)
        /\ UNCHANGED <<contents, others>>

\* A loop over the shards goes on, or the handler goes on after it.
Loops ==
    IF loop + 1 < ShardCount THEN loop' = loop + 1 /\ UNCHANGED steps
    ELSE loop' = 0 /\ steps' = Tail(steps)

\* MUTANT: total_vectors counts the first shard only.
SumFirst ==
    /\ steps # <<>> /\ Head(steps) = "sum"
    /\ reply' = [reply EXCEPT !.total = Len(contents[0])]
    /\ Loops
    /\ UNCHANGED <<contents, others, asked>>

\* total_vectors: one index after the other.
Sum ==
    /\ steps # <<>> /\ Head(steps) = "sum"
    /\ reply' = [reply EXCEPT !.total = (IF loop = 0 THEN 0 ELSE @) + Len(contents[loop])]
    /\ Loops
    /\ UNCHANGED <<contents, others, asked>>

\* load_distribution
Parts ==
    /\ steps # <<>> /\ Head(steps) = "parts"
    /\ reply' = [reply EXCEPT !.parts = Append(@, Len(contents[loop]))]
    /\ Loops
    /\ UNCHANGED <<contents, others, asked>>

\* ShardManager::insert
Store(s, id, auto, vector) ==
    contents' = [contents EXCEPT ![s] = Append(@, [id |-> id, auto |-> auto, vector |-> vector])]

StoreVector ==
    /\ steps # <<>> /\ Head(steps) = "store"
    /\ LET r   == asked.got
           vid == IF Automatic(r.id) THEN reply.total ELSE r.id
           s   == ShardOf[vid]
       IN  /\ vid \in Ids
           /\ Store(s, vid, Automatic(r.id), Floats(r.vector))
           /\ reply' = [reply EXCEPT !.shard = s, !.node = Len(contents[s]), !.id = vid]
    /\ steps' = Tail(steps)
    /\ UNCHANGED <<others, asked, loop>>

\* record_insert or record_search, whose steps are those of Metrics.
RecordStart ==
    /\ steps # <<>> /\ Head(steps) = "record"
    /\ steps' = [steps EXCEPT ![1] = "recording"]
    /\ \E b \in (IF asked.got.route = "search" THEN Buckets ELSE {1}) :
         StartRecord(asked.got.route, b)
    /\ UNCHANGED <<total, window, buckets, pct, published, tickerVars>>
    /\ UNCHANGED <<contents, others, asked, loop, reply>>

RecordStep ==
    /\ steps # <<>> /\ Head(steps) = "recording" /\ Record
    /\ steps' = IF rec'.pc = "idle" THEN Tail(steps) ELSE steps
    /\ UNCHANGED <<contents, others, asked, loop, reply>>

HandlerStep ==
    \/ (Sum \/ Parts \/ StoreVector) /\ UNCHANGED metricsVars
    \/ RecordStart \/ RecordStep

\* handle_client has sent the answer and returns: its variables are gone.
Forget ==
    /\ asked' = [sent |-> NoAsk, got |-> NoAsk] /\ reply' = NoReply
    /\ UNCHANGED <<contents, others, steps, loop>>

\* Another user of the shards inserts some vector, with an id it has chosen.
OtherInsert(id) ==
    /\ others < MaxOthers /\ others' = others + 1
    /\ \E r \in Requests : GoodVector(r) /\ Store(ShardOf[id], id, FALSE, Floats(r.vector))
    /\ UNCHANGED handlerVars

-----------------------------------------------------------------------------
(* Properties                                                               *)

\* Two automatically assigned ids are never the same, though others insert between
\* the reads of total_vectors: a later total has seen the earlier insert.  (They may
\* be ids that a client has chosen.)
AutoIdsDistinct ==
    \A s, t \in Shards : \A j \in DOMAIN contents[s], k \in DOMAIN contents[t] :
        contents[s][j].auto /\ contents[t][k].auto /\ <<s, j>> # <<t, k>> =>
            contents[s][j].id # contents[t][k].id

\* An insert is answered with the place its vector has.  One that recv got in one
\* piece is there under the id it asked for; a piece may end before the id, or in it.
InsertAsAsked ==
    reply.kind = "insert" /\ steps = <<>> =>
        /\ contents[reply.shard][reply.node + 1].id = reply.id
        /\ contents[reply.shard][reply.node + 1].vector = Floats(asked.sent.vector)
        /\ asked.got = asked.sent /\ asked.sent.id >= 0 => reply.id = asked.sent.id

\* The total of /api/info, which is read first, is at most the sum of its parts, that
\* of /api/metrics at least; an insert's total counts the vector it answers for.
TotalsAgree ==
    steps = <<>> =>
        /\ reply.kind = "info" => reply.total <= SumFunction(reply.parts)
        /\ reply.kind = "metrics" => reply.total >= SumFunction(reply.parts)
        /\ reply.kind = "insert" => reply.total > reply.node

AnswersHold == InsertAsAsked /\ TotalsAgree
=============================================================================
