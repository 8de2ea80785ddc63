------------------------------ MODULE Messages ------------------------------
(***************************************************************************)
(* The protobuf messages of the gRPC service: what the generated classes   *)
(* of proto/vecdb.pb.cc do, written once over a table of each message's    *)
(* fields, since protoc writes the same code for every message.            *)
(*                                                                         *)
(* A message on the wire is a sequence of tokens, one for each field sent: *)
(* the field's number, its wire type and its value.  A nested message is   *)
(* the sequence of its tokens.  `bytes' are a sequence of words of four    *)
(* bytes.  Malformed is the place where a message is cut or garbled.       *)
(***************************************************************************)
EXTENDS Integers, Sequences, FiniteSets, SequencesExt, FiniteSetsExt

CONSTANTS
    Wide,    \* how many values 64 bits have; smaller in an instance
    Narrow,  \* how many values 32 bits have
    Group,   \* how many values a byte of a varint holds, 2^7
    Words    \* the words that bytes are made of

ASSUME MessagesAssumption ==
    /\ Group \in Nat \ {0, 1}
    /\ Narrow \in Nat \ {0} /\ Narrow % 2 = 0
    /\ Wide \in Nat \ {0} /\ Wide % Narrow = 0

-----------------------------------------------------------------------------
(* The messages: their fields, in the order of their numbers, and the       *)
(* values each field of the class can hold.                                 *)

UInt64 == 0..(Wide - 1)
Int64  == -(Wide \div 2)..(Wide \div 2 - 1)
UInt32 == 0..(Narrow - 1)
Int32  == -(Narrow \div 2)..(Narrow \div 2 - 1)
Bytes  == Seq(Words)

\* The strings that are sent, and their lengths.
TextLength == [text \in {"", "healthy", "degraded"} |->
                 CASE text = "" -> 0 [] text = "healthy" -> 7 [] text = "degraded" -> 8]
Texts      == DOMAIN TextLength

\* What is sent of a field.  BOUND: the tag of every field is one byte.
Varint    == 0
Delimited == 2
Fixed32   == 5
Token(num, wt, val) == [num |-> num, wt |-> wt, val |-> val]
Malformed           == Token(0, 7, 0)

Tokens == [num : 1..15, wt : {Varint}, val : UInt64]
          \cup [num : 1..15, wt : {Delimited}, val : Bytes]
          \cup [num : 1..15, wt : {Fixed32}, val : Nat]

\* _internal_metadata_: the fields a parse did not know.
Unknowns == Seq(Tokens)

Field(num, name, type)    == [num |-> num, name |-> name, type |-> type, repeated |-> FALSE]
Repeated(num, name, type) == [Field(num, name, type) EXCEPT !.repeated = TRUE]

InsertRequestFields == << Field(1, "vector_id", "uint64"), Field(2, "vector", "bytes"),
                          Field(3, "metadata", "bytes") >>
InsertRequest == [vector_id : UInt64, vector : Bytes, metadata : Bytes, unknown : Unknowns]

InsertResponseFields == << Field(1, "shard_id", "uint32"), Field(2, "node_id", "uint32"),
                           Field(3, "latency_us", "int64") >>
InsertResponse == [shard_id : UInt32, node_id : UInt32, latency_us : Int64, unknown : Unknowns]

BulkInsertResponseFields == << Field(1, "inserted", "uint64"), Field(2, "failed", "uint64"),
                               Field(3, "latency_us", "int64") >>
BulkInsertResponse == [inserted : UInt64, failed : UInt64, latency_us : Int64, unknown : Unknowns]

SearchRequestFields == << Field(1, "query", "bytes"), Field(2, "top_k", "int32"),
                          Field(3, "ef_search", "int32") >>
SearchRequest == [query : Bytes, top_k : Int32, ef_search : Int32, unknown : Unknowns]

SearchResultFields == << Field(1, "shard_id", "uint32"), Field(2, "node_id", "uint32"),
                         Field(3, "distance", "float"), Field(4, "metadata", "bytes") >>
SearchResult == [shard_id : UInt32, node_id : UInt32, distance : Nat, metadata : Bytes, unknown : Unknowns]

SearchResponseFields == << Repeated(1, "results", "SearchResult"),
                           Field(2, "latency_us", "int64"), Field(3, "degraded", "bool"),
                           Field(4, "shards_ok", "uint32"), Field(5, "shards_err", "uint32") >>
SearchResponse == [latency_us : Int64, degraded : BOOLEAN, shards_ok : UInt32,
                   shards_err : UInt32, results : Seq(SearchResult), unknown : Unknowns]

DeleteRequestFields == << Field(1, "vector_id", "uint64") >>
DeleteRequest == [vector_id : UInt64, unknown : Unknowns]

DeleteResponseFields == << Field(1, "found", "bool"), Field(2, "latency_us", "int64") >>
DeleteResponse == [found : BOOLEAN, latency_us : Int64, unknown : Unknowns]

InfoRequestFields == << >>
InfoRequest == [unknown : Unknowns]

ShardInfoFields == << Field(1, "shard_id", "uint32"), Field(2, "vector_count", "uint64"),
                      Field(3, "status", "string") >>
ShardInfo == [shard_id : UInt32, vector_count : UInt64, status : Texts, unknown : Unknowns]

InfoResponseFields == << Field(1, "total_vectors", "uint64"), Field(2, "shard_count", "uint32"),
                         Field(3, "dim", "int32"), Repeated(4, "shards", "ShardInfo") >>
InfoResponse == [total_vectors : UInt64, shard_count : UInt32, dim : Int32,
                 shards : Seq(ShardInfo), unknown : Unknowns]

FieldsOfNested(type) == IF type = "SearchResult" THEN SearchResultFields ELSE ShardInfoFields

Names(fields) == {fields[k].name : k \in DOMAIN fields}

-----------------------------------------------------------------------------
(* Wire types, default values and the conversions of the scalar types.      *)

WireType(type) == CASE type \in {"uint64", "uint32", "int64", "int32", "bool"} -> Varint
                    [] type = "float" -> Fixed32
                    [] OTHER -> Delimited

Default(f) == CASE f.repeated \/ f.type = "bytes" -> <<>>
                [] f.type = "string" -> ""
                [] f.type = "bool" -> FALSE
                [] OTHER -> 0

\* The constructor and Clear(): every field has its default, none is unknown.
New(fields) == [name \in Names(fields) \cup {"unknown"} |->
                  IF name = "unknown" THEN <<>>
                  ELSE Default(fields[CHOOSE k \in DOMAIN fields : fields[k].name = name])]

\* A negative number is sign-extended to 64 bits before it becomes a varint.
EncodeScalar(type, v) ==
    CASE type \in {"int32", "int64"} -> v % Wide
      [] type = "bool" -> IF v THEN 1 ELSE 0
      [] OTHER -> v

Signed(n, width) == IF n < width \div 2 THEN n ELSE n - width

\* ReadVarint32 keeps the low 32 bits of what may be a longer varint.
DecodeScalar(type, n) ==
    CASE type = "uint32" -> n % Narrow
      [] type = "int32" -> Signed(n % Narrow, Narrow)
      [] type = "int64" -> Signed(n, Wide)
      [] type = "bool" -> n # 0
      [] OTHER -> n

-----------------------------------------------------------------------------
(* _InternalSerialize: proto3 sends a field only when it is not default.    *)
(* The nested messages of this service have scalar fields only.             *)

TokensOf(f, v, Encode(_, _)) ==
    CASE f.repeated -> [k \in DOMAIN v |-> Token(f.num, Delimited, Encode(f.type, v[k]))]
      [] ~f.repeated /\ v # Default(f) -> << Token(f.num, WireType(f.type), Encode(f.type, v)) >>
      [] OTHER -> <<>>

SerializeWith(fields, m, Encode(_, _)) ==
    FlattenSeq([k \in DOMAIN fields |-> TokensOf(fields[k], m[fields[k].name], Encode)])
    \o m.unknown

SerializeNested(type, m) == SerializeWith(FieldsOfNested(type), m, EncodeScalar)
EncodeNested(type, v) ==
    IF type \in {"SearchResult", "ShardInfo"} THEN SerializeNested(type, v)
                                              ELSE EncodeScalar(type, v)
Serialize(fields, m) == SerializeWith(fields, m, EncodeNested)

-----------------------------------------------------------------------------
(* ByteSizeLong, computed from the message before it is serialized, and the *)
(* bytes that its tokens take.  Every tag of these messages is one byte.    *)

SumOf(s) == LET t == s
                sum[k \in 0..Len(t)] == IF k = 0 THEN 0 ELSE sum[k - 1] + t[k]
            IN  sum[Len(t)]

VarintSize(n) == LET size[k \in 0..n] == IF k < Group THEN 1 ELSE 1 + size[k \div Group]
                 IN  size[n]

DelimitedSize(n) == VarintSize(n) + n

\* MUTANT: the size of an int32 is that of its low 32 bits.
ScalarSizeNarrow(type, v) ==
    CASE type = "float" -> 4
      [] type = "bytes" -> DelimitedSize(4 * Len(v))
      [] type = "string" -> DelimitedSize(TextLength[v])
      [] type = "int32" -> VarintSize(v % Narrow)
      [] OTHER -> VarintSize(EncodeScalar(type, v))

ScalarSize(type, v) ==
    CASE type = "float" -> 4
      [] type = "bytes" -> DelimitedSize(4 * Len(v))
      [] type = "string" -> DelimitedSize(TextLength[v])
      [] OTHER -> VarintSize(EncodeScalar(type, v))

\* Unknown fields are kept as the bytes they came in.
PayloadSize(t) == CASE t.wt = Varint -> VarintSize(t.val)
                    [] t.wt = Fixed32 -> 4
                    [] t.wt = Delimited -> DelimitedSize(4 * Len(t.val))
TokensSize(unknown) == SumOf([k \in DOMAIN unknown |-> 1 + PayloadSize(unknown[k])])

SizeWith(fields, m, Size(_, _)) ==
    LET size(f, v) ==
            CASE f.repeated -> SumOf([j \in DOMAIN v |-> 1 + Size(f.type, v[j])])
              [] ~f.repeated /\ v # Default(f) -> 1 + Size(f.type, v)
              [] OTHER -> 0
    IN  SumOf([k \in DOMAIN fields |-> size(fields[k], m[fields[k].name])])
        + TokensSize(m.unknown)

SizeNested(type, v) ==
    IF type \in {"SearchResult", "ShardInfo"}
      THEN DelimitedSize(SizeWith(FieldsOfNested(type), v, ScalarSize))
      ELSE ScalarSize(type, v)
ByteSizeLong(fields, m) == SizeWith(fields, m, SizeNested)

\* The bytes of a serialized message, from its tokens alone.
TokenLength(t, type, Length(_, _)) ==
    1 + CASE type = "string" -> DelimitedSize(TextLength[t.val])
          [] type \in {"SearchResult", "ShardInfo"} -> DelimitedSize(Length(type, t.val))
          [] OTHER -> PayloadSize(t)
TypeOfToken(fields, t) ==
    LET K == {k \in DOMAIN fields : fields[k].num = t.num}
    IN  IF K = {} THEN "unknown" ELSE fields[CHOOSE k \in K : TRUE].type
WireLengthWith(fields, w, Length(_, _)) ==
    SumOf([k \in DOMAIN w |-> TokenLength(w[k], TypeOfToken(fields, w[k]), Length)])
WireLength(fields, w) ==
    WireLengthWith(fields, w,
        LAMBDA type, x : WireLengthWith(FieldsOfNested(type), x, LAMBDA t, y : 0))

-----------------------------------------------------------------------------
(* _InternalParse: the tokens one after the other into the object as it is. *)
(* It stops at the first malformed token, with the fields before it stored. *)

\* The case labels of the switch: a field's number and wire type.
Carries(t, f) == t.num = f.num /\ t.wt = WireType(f.type)
IsKnown(fields, t) == \E k \in DOMAIN fields : Carries(t, fields[k])

\* A nested message may be malformed inside.  Decode gives [ok, val].
Fails(fields, t, Decode(_, _)) ==
    \/ t = Malformed
    \/ \E k \in DOMAIN fields : Carries(t, fields[k]) /\ ~Decode(fields[k].type, t.val).ok

\* The n-th of a set of places, and what a sequence has at these places, in order.
Nth(P, n)    == CHOOSE k \in P : Cardinality({j \in P : j <= k}) = n
Picked(w, P) == [n \in 1..Cardinality(P) |-> w[Nth(P, n)]]

\* What a field holds after it was sent these values: a repeated field grows by
\* each, another has the last.
Stored(f, old, values) ==
    CASE f.repeated -> old \o values
      [] ~f.repeated /\ values # <<>> -> Last(values)
      [] OTHER -> old

\* A token whose number is not a field's, or whose wire type is not that field's,
\* goes to the unknown fields.
ParseWith(fields, m, w, Decode(_, _)) ==
    LET failing == {k \in DOMAIN w : Fails(fields, w[k], Decode)}
        good    == IF failing = {} THEN w ELSE SubSeq(w, 1, Min(failing) - 1)
        sent(f) == Picked(good, {k \in DOMAIN good : Carries(good[k], f)})
        after(f) == Stored(f, m[f.name],
                           [k \in DOMAIN sent(f) |-> Decode(f.type, sent(f)[k].val).val])
    IN  [ok  |-> failing = {},
         msg |-> [name \in DOMAIN m |->
                    IF name = "unknown"
                      THEN m.unknown \o Picked(good, {k \in DOMAIN good : ~IsKnown(fields, good[k])})
                      ELSE after(fields[CHOOSE k \in DOMAIN fields : fields[k].name = name])]]

DecodeFlat(type, x) == [ok |-> TRUE, val |-> DecodeScalar(type, x)]
ParseNested(type, w) ==
    LET p == ParseWith(FieldsOfNested(type), New(FieldsOfNested(type)), w, DecodeFlat)
    IN  [ok |-> p.ok, val |-> p.msg]
DecodeNested(type, x) ==
    IF type \in {"SearchResult", "ShardInfo"} THEN ParseNested(type, x) ELSE DecodeFlat(type, x)

Parse(fields, m, w) == ParseWith(fields, m, w, DecodeNested)

\* MUTANT: Clear() empties the strings and leaves the scalars as they are.
ClearedStringsOnly(fields, m) ==
    [name \in DOMAIN m |->
        IF name = "unknown" THEN <<>>
        ELSE LET f == fields[CHOOSE k \in DOMAIN fields : fields[k].name = name]
             IN  IF WireType(f.type) = Delimited THEN Default(f) ELSE m[name]]

\* Clear() of an object that has been used.
Cleared(fields, m) == New(fields)

\* MessageLite::ParseFrom..., which gRPC calls: Clear() and then parse.
ParseFrom(fields, m, w) == Parse(fields, Cleared(fields, m), w)
=============================================================================
