-------------------------- MODULE HttpServerProofs --------------------------
(***************************************************************************)
(* Proofs about HttpServer: what the two threads count adds up, what the   *)
(* server leaves behind when it is gone, and what its answers are worth,   *)
(* for any numbers of clients, shards and buckets and any requests.        *)
(***************************************************************************)
EXTENDS HttpServer, FiniteSetTheorems, SequenceTheorems, WellFoundedInduction, TLAPS

-----------------------------------------------------------------------------
(* Sums                                                                     *)

\* A set of numbers has a least one.
LEMMA LeastNat == ASSUME NEW T \in SUBSET Nat, T # {} PROVE \E n \in T : \A m \in T : n <= m
<1>1. PICK n \in T : \A m \in T : ~(<<m, n>> \in OpToRel(<, Nat))
  BY NatLessThanWellFounded, WFMin, Zenon
<1>2. \A m \in T : ~(m < n)
  BY <1>1 DEF OpToRel
<1> QED BY <1>2

\* Induction over the subsets of a finite set: a set of them that holds one as soon as
\* it holds all that have one element less holds them all.
LEMMA SubsetInduction ==
    ASSUME NEW S, IsFiniteSet(S), NEW Good, {} \in Good,
           \A T \in SUBSET S : T # {} /\ (\A x \in T : T \ {x} \in Good) => T \in Good
    PROVE  \A T \in SUBSET S : T \in Good
<1> SUFFICES ASSUME NEW U \in SUBSET S, U \notin Good PROVE FALSE
  OBVIOUS
<1> DEFINE Bad == {n \in Nat : \E T \in SUBSET S : T \notin Good /\ Cardinality(T) = n}
<1>1. \A T \in SUBSET S : IsFiniteSet(T) /\ Cardinality(T) \in Nat
  BY FS_Subset, FS_CardinalityType
<1>2. Bad # {}
  BY <1>1
<1>3. PICK n \in Bad : \A m \in Bad : n <= m
  <2>1. Bad \in SUBSET Nat  OBVIOUS
  <2> HIDE DEF Bad
  <2> QED BY <1>2, <2>1, LeastNat
<1>4. PICK T \in SUBSET S : T \notin Good /\ Cardinality(T) = n
  BY <1>3
<1>5. PICK x \in T : T \ {x} \notin Good
  BY <1>4
<1>6. T \ {x} \notin Good /\ T \ {x} \in SUBSET S
  BY <1>5
<1>7. Cardinality(T \ {x}) = n - 1
  BY <1>1, <1>4, <1>5, FS_RemoveElement
<1>8. n - 1 \in Bad
  BY <1>1, <1>6, <1>7
<1> QED BY <1>3, <1>8

Any(s) == CHOOSE x \in s : TRUE

\* What MapThenFoldSet's recursive function is to satisfy.
IsFold(g, f, S) ==
    g = [s \in SUBSET S |-> IF s = {} THEN 0 ELSE f[Any(s)] + g[s \ {Any(s)}]]

\* The sum of the community modules is such a function's value.
LEMMA SumIsFold ==
    ASSUME NEW f, NEW S
    PROVE  SumFunctionOnSet(f, S) = (CHOOSE g : IsFold(g, f, S))[S]
BY DEF SumFunctionOnSet, FoldFunctionOnSet, MapThenFoldSet, IsFold, Any

\* A sum from which any element may be taken out first.
Sums(h, f, S) ==
    /\ h \in [SUBSET S -> Nat] /\ h[{}] = 0
    /\ \A T \in SUBSET S : \A x \in T : h[T] = f[x] + h[T \ {x}]

\* There is one, built by adding one element at a time.
LEMMA SumsExist ==
    ASSUME NEW S, IsFiniteSet(S), NEW f, \A x \in S : f[x] \in Nat
    PROVE  \E h : Sums(h, f, S)
<1> DEFINE Good == {T \in SUBSET S : \E h : Sums(h, f, T)}
<1>1. {} \in Good
  <2>1. Sums([T \in SUBSET {} |-> 0], f, {})
    BY DEF Sums
  <2> QED BY <2>1
<1>2. ASSUME NEW T \in SUBSET S, T # {}, \A x \in T : T \ {x} \in Good PROVE T \in Good
  <2>0. PICK a \in T : T \ {a} \in Good
    BY <1>2
  <2>1. PICK g : Sums(g, f, T \ {a})
    BY <2>0
  <2> DEFINE h == [U \in SUBSET T |-> IF a \in U THEN f[a] + g[U \ {a}] ELSE g[U]]
  <2>2. \A U \in SUBSET T : U \ {a} \in SUBSET (T \ {a}) /\ (a \notin U => U \in SUBSET (T \ {a}))
    OBVIOUS
  <2>3. f[a] \in Nat /\ \A U \in SUBSET (T \ {a}) : g[U] \in Nat
    BY <2>1 DEF Sums
  <2>4. h \in [SUBSET T -> Nat]
    BY <2>2, <2>3
  <2>5. h[{}] = 0
    BY <2>1 DEF Sums
  <2>6. ASSUME NEW U \in SUBSET T, NEW x \in U PROVE h[U] = f[x] + h[U \ {x}]
    <3>0. f[x] \in Nat /\ U \ {x} \in SUBSET T
      OBVIOUS
    <3>1. CASE x = a
      BY <3>1, <3>0
    <3>2. CASE x # a /\ a \in U
      <4>1. h[U] = f[a] + g[U \ {a}] /\ h[U \ {x}] = f[a] + g[(U \ {x}) \ {a}]
        BY <3>0, <3>2
      <4>2. g[U \ {a}] = f[x] + g[(U \ {a}) \ {x}]
        BY <2>1, <2>2, <3>2 DEF Sums
      <4>3. (U \ {a}) \ {x} = (U \ {x}) \ {a} /\ (U \ {x}) \ {a} \in SUBSET (T \ {a})
        OBVIOUS
      <4>4. g[(U \ {x}) \ {a}] \in Nat
        BY <4>3, <2>3
      <4>5. PICK v \in Nat : v = g[(U \ {x}) \ {a}]
        BY <4>4
      <4>6. h[U] = f[a] + (f[x] + v) /\ h[U \ {x}] = f[a] + v
        BY <4>1, <4>2, <4>3, <4>5
      <4> HIDE DEF h
      <4> QED BY <4>6, <3>0, <2>3
    <3>3. CASE a \notin U
      <4>1. g[U] = f[x] + g[U \ {x}]
        BY <2>1, <2>2, <3>3 DEF Sums
      <4> QED BY <4>1, <3>0, <3>3
    <3> QED BY <3>1, <3>2, <3>3
  <2>7. Sums(h, f, T)
    <3> HIDE DEF h
    <3> QED BY <2>4, <2>5, <2>6 DEF Sums
  <2> QED BY <2>7
<1>3. S \in Good
  <2>1. \A T \in SUBSET S : T # {} /\ (\A x \in T : T \ {x} \in Good) => T \in Good
    BY <1>2
  <2> HIDE DEF Good
  <2>2. \A T \in SUBSET S : T \in Good
    BY <1>1, <2>1, SubsetInduction
  <2> QED BY <2>2
<1> QED BY <1>3

\* ... and it is the sum, whatever order the CHOOSE of the definition takes.
LEMMA SumIsSums ==
    ASSUME NEW S, IsFiniteSet(S), NEW f, NEW h, Sums(h, f, S)
    PROVE  SumFunctionOnSet(f, S) = h[S]
<1>0. \A s \in SUBSET S : s # {} => Any(s) \in s
  BY DEF Any
<1>1. IsFold(h, f, S)
  <2>1. h = [s \in SUBSET S |-> h[s]]
    BY DEF Sums
  <2>2. \A s \in SUBSET S : h[s] = IF s = {} THEN 0 ELSE f[Any(s)] + h[s \ {Any(s)}]
    BY <1>0 DEF Sums
  <2> QED BY <2>1, <2>2 DEF IsFold
<1> DEFINE g == CHOOSE g : IsFold(g, f, S)
<1>2. IsFold(g, f, S)
  BY <1>1
<1> HIDE DEF g
<1> DEFINE Good == {T \in SUBSET S : g[T] = h[T]}
<1>3. \A T \in SUBSET S : g[T] = IF T = {} THEN 0 ELSE f[Any(T)] + g[T \ {Any(T)}]
  BY <1>2 DEF IsFold
<1>4. {} \in Good
  BY <1>3 DEF Sums
<1>5. ASSUME NEW T \in SUBSET S, T # {}, \A x \in T : T \ {x} \in Good PROVE T \in Good
  <2>1. Any(T) \in T /\ g[T \ {Any(T)}] = h[T \ {Any(T)}]
    BY <1>0, <1>5
  <2>2. h[T] = f[Any(T)] + h[T \ {Any(T)}]
    BY <2>1 DEF Sums
  <2> QED BY <1>3, <1>5, <2>1, <2>2
<1>6. S \in Good
  <2>1. \A T \in SUBSET S : T # {} /\ (\A x \in T : T \ {x} \in Good) => T \in Good
    BY <1>5
  <2> HIDE DEF Good
  <2>2. \A T \in SUBSET S : T \in Good
    BY <1>4, <2>1, SubsetInduction
  <2> QED BY <2>2
<1>7. SumFunctionOnSet(f, S) = g[S]
  BY SumIsFold DEF g
<1> QED BY <1>6, <1>7

\* The sum of no values is 0, and any of the values may be taken out first.
LEMMA SumFacts ==
    ASSUME NEW S, IsFiniteSet(S), NEW f, \A x \in S : f[x] \in Nat
    PROVE  /\ SumFunctionOnSet(f, S) \in Nat
           /\ S = {} => SumFunctionOnSet(f, S) = 0
           /\ \A x \in S : SumFunctionOnSet(f, S) = f[x] + SumFunctionOnSet(f, S \ {x})
<1>1. PICK h : Sums(h, f, S)
  BY SumsExist
<1>2. SumFunctionOnSet(f, S) = h[S]
  BY <1>1, SumIsSums
<1>3. ASSUME NEW x \in S PROVE SumFunctionOnSet(f, S \ {x}) = h[S \ {x}]
  <2> DEFINE g == [T \in SUBSET (S \ {x}) |-> h[T]]
  <2>1. Sums(g, f, S \ {x})
    BY <1>1 DEF Sums
  <2>2. IsFiniteSet(S \ {x})
    BY FS_RemoveElement
  <2> HIDE DEF g
  <2>3. SumFunctionOnSet(f, S \ {x}) = g[S \ {x}]
    BY <2>1, <2>2, SumIsSums
  <2> QED BY <2>3 DEF g
<1> QED BY <1>1, <1>2, <1>3 DEF Sums

\* Sums of the same values are the same.
LEMMA SumSame ==
    ASSUME NEW S, IsFiniteSet(S), NEW f, NEW g, \A x \in S : f[x] \in Nat /\ g[x] = f[x]
    PROVE  SumFunctionOnSet(g, S) = SumFunctionOnSet(f, S)
<1> DEFINE Good == {T \in SUBSET S : SumFunctionOnSet(g, T) = SumFunctionOnSet(f, T)}
<1>0. ASSUME NEW T \in SUBSET S
      PROVE  /\ SumFunctionOnSet(f, T) \in Nat
             /\ T = {} => SumFunctionOnSet(f, T) = 0 /\ SumFunctionOnSet(g, T) = 0
             /\ \A x \in T : /\ SumFunctionOnSet(f, T) = f[x] + SumFunctionOnSet(f, T \ {x})
                             /\ SumFunctionOnSet(g, T) = f[x] + SumFunctionOnSet(g, T \ {x})
  <2>1. IsFiniteSet(T) /\ (\A x \in T : f[x] \in Nat) /\ (\A x \in T : g[x] \in Nat)
    BY FS_Subset
  <2>2. \A x \in T : g[x] = f[x]
    OBVIOUS
  <2> QED BY <2>1, <2>2, SumFacts
<1>1. {} \in Good
  BY <1>0
<1>2. \A T \in SUBSET S : T # {} /\ (\A x \in T : T \ {x} \in Good) => T \in Good
  BY <1>0
<1>3. \A T \in SUBSET S : T \in Good
  <2> HIDE DEF Good
  <2> QED BY <1>1, <1>2, SubsetInduction
<1> QED BY <1>3

\* One value grows, and with it the sum.
LEMMA SumBump ==
    ASSUME NEW S, IsFiniteSet(S), NEW f, \A x \in S : f[x] \in Nat, NEW i \in S, NEW g,
           g[i] = f[i] + 1, \A x \in S \ {i} : g[x] = f[x]
    PROVE  SumFunctionOnSet(g, S) = SumFunctionOnSet(f, S) + 1
<1>1. SumFunctionOnSet(f, S) = f[i] + SumFunctionOnSet(f, S \ {i})
  BY SumFacts
<1>2. \A x \in S : g[x] \in Nat
  OBVIOUS
<1>3. SumFunctionOnSet(g, S) = g[i] + SumFunctionOnSet(g, S \ {i})
  BY <1>2, SumFacts
<1>4. IsFiniteSet(S \ {i})
  BY FS_RemoveElement
<1>5. SumFunctionOnSet(g, S \ {i}) = SumFunctionOnSet(f, S \ {i})
  BY <1>4, SumSame
<1>6. SumFunctionOnSet(f, S \ {i}) \in Nat
  BY <1>4, SumFacts
<1> QED BY <1>1, <1>3, <1>5, <1>6

\* Nothing adds up to nothing.
LEMMA SumZero ==
    ASSUME NEW S, IsFiniteSet(S), NEW f, \A x \in S : f[x] = 0
    PROVE  SumFunctionOnSet(f, S) = 0
<1> DEFINE Good == {T \in SUBSET S : SumFunctionOnSet(f, T) = 0}
<1>0. ASSUME NEW T \in SUBSET S
      PROVE  /\ T = {} => SumFunctionOnSet(f, T) = 0
             /\ \A x \in T : SumFunctionOnSet(f, T) = 0 + SumFunctionOnSet(f, T \ {x})
  <2>1. IsFiniteSet(T) /\ (\A x \in T : f[x] \in Nat)
    BY FS_Subset
  <2> QED BY <2>1, SumFacts
<1>1. {} \in Good
  BY <1>0
<1>2. ASSUME NEW T \in SUBSET S, T # {}, \A x \in T : T \ {x} \in Good PROVE T \in Good
  <2>1. PICK x \in T : SumFunctionOnSet(f, T \ {x}) = 0
    BY <1>2
  <2> QED BY <1>0, <2>1
<1>3. \A T \in SUBSET S : T \in Good
  <2> HIDE DEF Good
  <2> QED BY <1>1, <1>2, SubsetInduction
<1> QED BY <1>3

\* Sums over the numbers from m to n: the first or the last of them may be split off.
LEMMA SumInterval ==
    ASSUME NEW m \in Int, NEW n \in Int, NEW f, \A x \in m..n : f[x] \in Nat
    PROVE  /\ SumFunctionOnSet(f, m..n) \in Nat
           /\ m > n => SumFunctionOnSet(f, m..n) = 0
           /\ m <= n => /\ SumFunctionOnSet(f, m..n) = f[m] + SumFunctionOnSet(f, (m + 1)..n)
                        /\ SumFunctionOnSet(f, m..n) = SumFunctionOnSet(f, m..(n - 1)) + f[n]
                        /\ SumFunctionOnSet(f, (m + 1)..n) \in Nat
                        /\ SumFunctionOnSet(f, m..(n - 1)) \in Nat
<1>1. IsFiniteSet(m..n) /\ IsFiniteSet((m + 1)..n) /\ IsFiniteSet(m..(n - 1))
  BY FS_Interval
<1>2. SumFunctionOnSet(f, m..n) \in Nat /\ (m > n => m..n = {})
  BY <1>1, SumFacts
<1>3. m > n => SumFunctionOnSet(f, m..n) = 0
  BY <1>1, <1>2, SumFacts
<1>4. ASSUME m <= n
      PROVE  /\ SumFunctionOnSet(f, m..n) = f[m] + SumFunctionOnSet(f, (m + 1)..n)
             /\ SumFunctionOnSet(f, m..n) = SumFunctionOnSet(f, m..(n - 1)) + f[n]
             /\ SumFunctionOnSet(f, (m + 1)..n) \in Nat
             /\ SumFunctionOnSet(f, m..(n - 1)) \in Nat
  <2>1. m \in m..n /\ n \in m..n /\ (m..n) \ {m} = (m + 1)..n /\ (m..n) \ {n} = m..(n - 1)
    BY <1>4
  <2>2. /\ \A x \in (m + 1)..n : f[x] \in Nat
        /\ \A x \in m..(n - 1) : f[x] \in Nat
    OBVIOUS
  <2>3. SumFunctionOnSet(f, (m + 1)..n) \in Nat /\ SumFunctionOnSet(f, m..(n - 1)) \in Nat
    BY <1>1, <2>2, SumFacts
  <2>4. /\ SumFunctionOnSet(f, m..n) = f[m] + SumFunctionOnSet(f, (m + 1)..n)
        /\ SumFunctionOnSet(f, m..n) = f[n] + SumFunctionOnSet(f, m..(n - 1))
    <3>1. \A x \in m..n : SumFunctionOnSet(f, m..n) = f[x] + SumFunctionOnSet(f, (m..n) \ {x})
      BY <1>1, SumFacts
    <3> QED BY <2>1, <3>1
  <2>5. f[n] \in Nat
    BY <2>1
  <2> QED BY <2>3, <2>4, <2>5
<1> QED BY <1>2, <1>3, <1>4

-----------------------------------------------------------------------------
(* The inductive invariant                                                  *)

\* What is stored has a vector that some request sent, of the right length.
Vectors == {v \in {Floats(r.vector) : r \in Requests} : Len(v) = Dim}
Entries == [id : Ids, auto : BOOLEAN, vector : Vectors]

\* The request that is handled is the one sent, or a part of it.
AskedOK ==
    /\ asked.sent \in Requests \cup {NoAsk}
    /\ asked.got.route \in Routes /\ asked.got.id \in Int /\ asked.got.id <= MaxId
    /\ asked.got.shard \in Nat
    /\ asked.got.route \in Posts /\ GoodVector(asked.got) =>
         /\ asked.got.vector = asked.sent.vector /\ Floats(asked.got.vector) \in Vectors

Replies == [kind : {"none", "error"} \cup Routes, shard : Shards, node : Nat,
            id : Ids \cup {None}, total : Nat, parts : Seq(Nat)]

ReplyOK ==
    /\ reply \in Replies
    /\ reply.kind \in Posts => asked.got.route = reply.kind /\ GoodVector(asked.got)

\* The lists of steps that are left of a handler's program.
StepsLeft(kind) ==
    CASE kind = "insert" -> {<<"sum", "store", "record", "sum">>, <<"store", "record", "sum">>,
                             <<"record", "sum">>, <<"recording", "sum">>, <<"sum">>, <<>>}
      [] kind = "search" -> {<<"record">>, <<"recording">>, <<>>}
      [] kind = "info" -> {<<"sum", "parts">>, <<"parts">>, <<>>}
      [] kind = "metrics" -> {<<"parts", "sum">>, <<"sum">>, <<>>}
      [] OTHER -> {<<>>}

\* Where the handler is: in a loop only over shards, recording only in that step.
HandlerOK ==
    /\ steps \in StepsLeft(reply.kind) /\ loop \in Shards
    /\ server # "handle" => steps = <<>>
    /\ loop # 0 => steps # <<>> /\ Head(steps) \in {"sum", "parts"}
    /\ rec.pc # "idle" <=> steps # <<>> /\ Head(steps) = "recording"

ContentsOK == contents \in [Shards -> Seq(Entries)] /\ others \in 0..MaxOthers

\* The ticker lives between spawn and join.
TickerOK ==
    /\ server \in {"none", "socket", "listen", "spawn"} => tick = "none"
    /\ server = "ended" => tick \in {"none", "ended"}
    /\ tick = "count" => at \in Buckets
    /\ tick = "store" => at \in 1..3
    /\ tick = "swap" => at \in 1..2
    /\ tick \notin {"count", "store", "swap"} => at = 1

\* stop() is called twice, the second time when the server thread has ended.
StopsOK ==
    /\ main \in {"start", "reading"} => stops = 0
    /\ main \in {"flag", "close", "join"} => stops \in {1, 2}
    /\ main = "gone" => stops = 2
    /\ stops = 2 => server = "ended"
    /\ stops = 2 /\ main \in {"join", "gone"} => fd = -1

\* Who may be where: nothing runs before start(), and an open socket is in fd.
SocketOK ==
    /\ main = "start" => server = "none"
    /\ main # "aborted" /\ sock \in {"open", "listening"} => fd = 1

ThreadsOK   == ThreadsTypeOK /\ TickerOK /\ StopsOK /\ SocketOK
RequestOK   == AskedOK /\ ReplyOK /\ HandlerOK /\ ContentsOK
Control     == MetricsTypeOK /\ ThreadsOK /\ RequestOK

\* Which buckets the ticker has copied.
CopyOK ==
    /\ tick = "count" => \A b \in Buckets : counts[b] <= buckets[b] /\ (b >= at => counts[b] = 0)
    /\ tick = "store" =>
         /\ \A b \in Buckets : counts[b] <= buckets[b]
         /\ SumFunction(counts) > 0
         /\ \A i \in 1..3 : i < at => pct[i] = Percentile(counts, Quantiles[i])

RecordOK == rec.kind = "insert" => rec.pc # "bucket"

Counted == Control /\ RecordOK /\ CopyOK /\ CountsAddUp /\ PercentilesSound

\* How many vectors the shards before number n have, and those from n on.
Lengths   == [s \in Shards |-> Len(contents[s])]
Before(n) == SumFunctionOnSet(Lengths, 0..(n - 1))
From(n)   == SumFunctionOnSet(Lengths, n..(ShardCount - 1))

\* What the loop of total_vectors has added up so far.
SoFar == IF loop = 0 THEN 0 ELSE reply.total

\* Every automatic id is less than n.
AutoBelow(n) ==
    \A s \in Shards : \A k \in DOMAIN contents[s] : contents[s][k].auto => contents[s][k].id < n

AutoOK ==
    /\ AutoBelow(Before(ShardCount))
    /\ steps = <<"sum", "store", "record", "sum">> =>
         SoFar <= Before(loop) /\ AutoBelow(SoFar + From(loop))
    /\ steps = <<"store", "record", "sum">> /\ Automatic(asked.got.id) =>
         reply.total <= Before(ShardCount) /\ AutoBelow(reply.total)

\* An insert that has stored its vector knows its place.
InsertOK ==
    reply.kind = "insert" /\ steps \in {<<"record", "sum">>, <<"recording", "sum">>, <<"sum">>, <<>>} =>
        /\ reply.node < Len(contents[reply.shard])
        /\ contents[reply.shard][reply.node + 1].id = reply.id
        /\ contents[reply.shard][reply.node + 1].vector = Floats(asked.got.vector)
        /\ asked.got.id >= 0 => reply.id = asked.got.id
        /\ loop > reply.shard => reply.total > reply.node
        /\ steps = <<>> => reply.total > reply.node

\* The two loops of info and of metrics, of which the later one sees more.
LoopsOK ==
    /\ reply.kind = "info" =>
         /\ steps = <<"sum", "parts">> => reply.parts = <<>> /\ SoFar <= Before(loop)
         /\ steps = <<"parts">> =>
              reply.total <= SumFunction(reply.parts) + From(loop)
         /\ steps = <<>> => reply.total <= SumFunction(reply.parts)
    /\ reply.kind = "metrics" =>
         /\ steps = <<"parts", "sum">> => SumFunction(reply.parts) <= Before(loop)
         /\ steps = <<"sum">> => SumFunction(reply.parts) <= SoFar + From(loop)
         /\ steps = <<>> => SumFunction(reply.parts) <= reply.total

Answered == Control /\ AutoOK /\ AutoIdsDistinct /\ InsertOK /\ LoopsOK

-----------------------------------------------------------------------------
(* The threads                                                              *)

\* What a step does to the ticker, as far as the other threads are concerned.
LEMMA TickerMoves ==
    ASSUME MetricsTypeOK, TickerOK, TickerLoop \/ Compute
    PROVE  /\ tick \notin {"none", "ended"} /\ tick' # "none"
           /\ tick' = "count" => at' \in Buckets
           /\ tick' = "store" => at' \in 1..3
           /\ tick' = "swap" => at' \in 1..2
           /\ tick' \notin {"count", "store", "swap"} => at' = 1
<1> USE MetricsAssumption DEF MetricsTypeOK, TickerOK, Buckets
<1>1. CASE TickerLoop
  BY <1>1 DEF TickerLoop
<1>2. CASE StartCompute
  BY <1>2 DEF StartCompute
<1>3. CASE CountBucket
  <2>1. /\ tick = "count"
        /\ IF at < NBuckets THEN at' = at + 1 /\ tick' = tick
           ELSE at' = 1 /\ tick' \in {"store", "swap"}
    BY <1>3, Zenon DEF CountBucket
  <2>2. at \in Buckets
    BY <2>1
  <2>3. CASE at < NBuckets
    BY <2>1, <2>2, <2>3
  <2>4. CASE ~(at < NBuckets)
    BY <2>1, <2>4
  <2> QED BY <2>3, <2>4
<1>4. CASE StorePercentile
  <2>1. /\ tick = "store"
        /\ IF at < 3 THEN at' = at + 1 /\ tick' = tick ELSE at' = 1 /\ tick' = "swap"
    BY <1>4, Zenon DEF StorePercentile
  <2>2. at \in 1..3
    BY <2>1
  <2>3. CASE at < 3
    BY <2>1, <2>2, <2>3
  <2>4. CASE ~(at < 3)
    BY <2>1, <2>4
  <2> QED BY <2>3, <2>4
<1>5. CASE SwapWindow
  <2>1. /\ tick = "swap"
        /\ IF at = 1 THEN at' = 2 /\ tick' = tick ELSE at' = 1 /\ tick' = "check"
    BY <1>5, Zenon DEF SwapWindow
  <2>2. CASE at = 1
    BY <2>1, <2>2
  <2>3. CASE at # 1
    BY <2>1, <2>3
  <2> QED BY <2>2, <2>3
<1> QED BY <1>1, <1>2, <1>3, <1>4, <1>5 DEF Compute

\* Who changes the ticker's step and its index: the server thread when it starts
\* the ticker, and the ticker.
LEMMA TickSteps ==
    ASSUME Next
    PROVE  \/ UNCHANGED <<tick, at>>
           \/ server = "spawn" /\ server' = "check" /\ tick' = "check" /\ UNCHANGED at
           \/ (TickerLoop \/ Compute) /\ UNCHANGED server
<1>1. CASE Start \/ PressEnter \/ MainStep \/ Abort \/ ClientStep \/ OtherStep
  BY <1>1 DEF Start, PressEnter, MainStep, StopFlag, StopClose, StopJoin, Abort, ClientStep,
     OtherStep, dataVars, metricsVars
<1>2. CASE OpenSocket \/ Listen \/ CheckRunning \/ Accept \/ Receive \/ Respond \/ JoinTicker
  BY <1>2 DEF OpenSocket, Listen, CheckRunning, Accept, Receive, Respond, JoinTicker,
     dataVars, metricsVars
<1>3. CASE SpawnTicker
  BY <1>3 DEF SpawnTicker
<1>4. CASE Handle
  BY <1>4 DEF Handle, HandlerStep, RecordStart, RecordStep, Record, RecordTotal, RecordWindow,
     RecordBucket, metricsVars, tickerVars
<1>5. CASE TickerStep
  BY <1>5 DEF TickerStep, serverVars
<1> QED BY <1>1, <1>2, <1>3, <1>4, <1>5 DEF Next, ServerStep

\* The steps of the server thread, and what each says of it.
LEMMA ServerMoves ==
    ASSUME SocketOK, Next
    PROVE  \/ UNCHANGED server
           \/ server = "none" /\ server' = "socket" /\ main = "start"
           \/ server = "socket" /\ server' \in {"listen", "ended"}
           \/ server = "listen" /\ server' \in {"spawn", "ended"}
           \/ server = "spawn" /\ server' = "check"
           \/ server \in {"check", "accept", "recv", "handle"}
                /\ server' \in {"check", "accept", "recv", "handle", "join"}
           \/ server = "join" /\ tick = "ended" /\ server' = "ended"
<1>1. CASE Start \/ OpenSocket \/ Listen \/ SpawnTicker
  BY <1>1 DEF SocketOK, Start, OpenSocket, Listen, SpawnTicker
<1>2. CASE CheckRunning \/ Accept \/ Receive \/ Respond \/ JoinTicker
  BY <1>2 DEF CheckRunning, Accept, Receive, Respond, JoinTicker
<1>3. CASE PressEnter \/ MainStep \/ Handle \/ Abort \/ TickerStep \/ ClientStep \/ OtherStep
  BY <1>3 DEF PressEnter, MainStep, StopFlag, StopClose, StopJoin, Handle, Abort, TickerStep,
     ClientStep, OtherStep, serverVars
<1> QED BY <1>1, <1>2, <1>3 DEF Next, ServerStep

LEMMA TickerStays == ASSUME MetricsTypeOK, TickerOK, SocketOK, Next PROVE TickerOK'
<1>1. CASE UNCHANGED <<tick, at>>
  <2> USE <1>1
  <2>1. /\ server' \in {"none", "socket", "listen", "spawn"} =>
             server \in {"none", "socket", "listen", "spawn"}
        /\ server' = "ended" => server \in {"socket", "listen", "ended"} \/ tick = "ended"
    BY ServerMoves
  <2> QED BY <2>1 DEF TickerOK
<1>2. CASE server = "spawn" /\ server' = "check" /\ tick' = "check" /\ UNCHANGED at
  BY <1>2 DEF TickerOK
<1>3. CASE (TickerLoop \/ Compute) /\ UNCHANGED server
  BY <1>3, TickerMoves DEF TickerOK
<1>4. CASE tick' = tick /\ at' = at
  BY <1>1, <1>4
<1> QED BY <1>1, <1>2, <1>3, TickSteps

\* The main thread's own part of the invariant.
LEMMA MainStays ==
    ASSUME ThreadsTypeOK, StopsOK, SocketOK, Start \/ PressEnter \/ MainStep \/ Abort
    PROVE  /\ main' \in {"start", "reading", "flag", "close", "join", "gone", "aborted"}
           /\ stops' \in 0..2 /\ fd' \in {-1, 1}
           /\ sock' \in {"none", "open", "listening", "closed"}
           /\ StopsOK' /\ SocketOK'
<1> USE DEF ThreadsTypeOK, StopsOK, SocketOK, serverVars
<1>1. CASE Start
  BY <1>1 DEF Start
<1>2. CASE PressEnter
  BY <1>2 DEF PressEnter
<1>3. CASE StopFlag
  BY <1>3 DEF StopFlag
<1>4. CASE StopClose
  BY <1>4 DEF StopClose
<1>5. CASE StopJoin
  BY <1>5 DEF StopJoin
<1>6. CASE Abort
  BY <1>6 DEF Abort
<1> QED BY <1>1, <1>2, <1>3, <1>4, <1>5, <1>6 DEF MainStep

LEMMA OthersStay ==
    ASSUME ThreadsTypeOK, TickerOK, StopsOK, SocketOK, Next,
           ServerStep \/ TickerStep \/ ClientStep \/ OtherStep
    PROVE  /\ UNCHANGED <<main, stops, running>> /\ fd' \in {-1, 1}
           /\ sock' \in {"none", "open", "listening", "closed"}
           /\ StopsOK' /\ SocketOK'
<1>1. UNCHANGED <<main, stops, running>> /\ main # "aborted"
  BY DEF ServerStep, OpenSocket, Listen, SpawnTicker, CheckRunning, Accept, Receive, Handle,
     Respond, JoinTicker, TickerStep, ClientStep, OtherStep, mainVars
<1>2. server \in {"none", "ended"} => UNCHANGED <<fd, server>>
  BY DEF ServerStep, OpenSocket, Listen, SpawnTicker, CheckRunning, Accept, Receive, Handle,
     Respond, JoinTicker, TickerStep, ClientStep, OtherStep, serverVars
<1>3. server = "none" => server' = "none"
  BY <1>2
<1>4. /\ fd' \in {-1, 1} /\ sock' \in {"none", "open", "listening", "closed"}
      /\ sock' \in {"open", "listening"} => fd' = 1
  <2> USE DEF ThreadsTypeOK, SocketOK
  <2>1. CASE OpenSocket \/ Listen
    BY <1>1, <2>1 DEF OpenSocket, Listen
  <2>2. CASE SpawnTicker \/ CheckRunning \/ Accept \/ Receive \/ Handle \/ Respond \/ JoinTicker
    BY <1>1, <2>2 DEF SpawnTicker, CheckRunning, Accept, Receive, Handle, Respond, JoinTicker
  <2>3. CASE TickerStep \/ ClientStep \/ OtherStep
    BY <1>1, <2>3 DEF TickerStep, ClientStep, OtherStep
  <2> QED BY <2>1, <2>2, <2>3 DEF ServerStep
<1>5. StopsOK'
  BY <1>1, <1>2 DEF StopsOK
<1>6. SocketOK'
  BY <1>1, <1>3, <1>4 DEF SocketOK
<1> QED BY <1>1, <1>4, <1>5, <1>6

\* Who is being served, who waits, and what has become of each client.
LEMMA ClientsStay ==
    ASSUME ThreadsTypeOK, Next
    PROVE  /\ cur' \in Clients \cup {Nobody} /\ backlog' \in Seq(Clients)
           /\ client' \in [Clients -> {"out", "connected", "sent", "left", "answered", "dropped"}]
<1> USE DEF ThreadsTypeOK
<1>1. CASE Start \/ PressEnter \/ StopFlag \/ StopJoin \/ TickerStep \/ OtherStep
  BY <1>1 DEF Start, PressEnter, StopFlag, StopJoin, TickerStep, OtherStep, serverVars, netVars
<1>2. CASE StopClose
  <2>1. /\ cur' = cur /\ (backlog' = backlog \/ backlog' = <<>>)
        /\ client' = client \/ DropBacklog
    BY <1>2 DEF StopClose, serverVars
  <2>2. DropBacklog =>
          client' \in [Clients -> {"out", "connected", "sent", "left", "answered", "dropped"}]
    BY Zenon DEF DropBacklog
  <2>3. backlog' \in Seq(Clients)
    BY <2>1, EmptySeq
  <2> QED BY <2>1, <2>2, <2>3, Zenon
<1>3. CASE OpenSocket \/ Listen \/ SpawnTicker \/ CheckRunning \/ Receive \/ Handle \/ JoinTicker
  BY <1>3 DEF OpenSocket, Listen, SpawnTicker, CheckRunning, Receive, Handle, JoinTicker,
     serverVars, netVars
<1>4. CASE Accept
  BY <1>4 DEF Accept
<1>5. CASE Respond
  BY <1>5 DEF Respond
<1>6. CASE Abort
  BY <1>6 DEF Abort, serverVars
<1>7. CASE ClientStep
  <2>1. cur' = cur
    BY <1>7 DEF ClientStep, serverVars
  <2>2. PICK c \in Clients : Connect(c) \/ Send(c) \/ Leave(c)
    BY <1>7 DEF ClientStep
  <2> QED BY <2>1, <2>2 DEF Connect, Send, Leave
<1> QED BY <1>1, <1>2, <1>3, <1>4, <1>5, <1>6, <1>7 DEF Next, MainStep, ServerStep

LEMMA ServerRunningType ==
    ASSUME ThreadsTypeOK, SocketOK, Next
    PROVE  /\ server' \in {"none", "socket", "listen", "spawn", "check", "accept", "recv",
                           "handle", "send", "join", "ended"}
           /\ running' \in BOOLEAN
<1>1. running' \in {running, TRUE, FALSE}
  BY Zenon DEF Next, Start, PressEnter, MainStep, StopFlag, StopClose, StopJoin, ServerStep, OpenSocket,
     Listen, SpawnTicker, CheckRunning, Accept, Receive, Handle, Respond, JoinTicker, Abort, TickerStep,
     ClientStep, OtherStep, mainVars
<1>2. server' \in {server, "socket", "listen", "spawn", "check", "accept", "recv", "handle", "join", "ended"}
  BY ServerMoves
<1> QED BY <1>1, <1>2 DEF ThreadsTypeOK

LEMMA ThreadsStay == ASSUME MetricsTypeOK, ThreadsOK, Next PROVE ThreadsOK'
<1> USE DEF ThreadsOK
<1>1. TickerOK'
  BY TickerStays
<1>2. /\ main' \in {"start", "reading", "flag", "close", "join", "gone", "aborted"}
      /\ stops' \in 0..2 /\ fd' \in {-1, 1}
      /\ sock' \in {"none", "open", "listening", "closed"}
      /\ StopsOK' /\ SocketOK'
  <2>1. CASE Start \/ PressEnter \/ MainStep \/ Abort
    BY <2>1, MainStays
  <2>2. CASE ServerStep \/ TickerStep \/ ClientStep \/ OtherStep
    <3>1. UNCHANGED <<main, stops>> /\ fd' \in {-1, 1}
          /\ sock' \in {"none", "open", "listening", "closed"}
          /\ StopsOK' /\ SocketOK'
      BY <2>2, OthersStay
    <3> QED BY <3>1 DEF ThreadsTypeOK
  <2> QED BY <2>1, <2>2 DEF Next
<1>3. ThreadsTypeOK'
  BY <1>2, ClientsStay, ServerRunningType DEF ThreadsTypeOK
<1> QED BY <1>1, <1>2, <1>3

-----------------------------------------------------------------------------
(* The percentiles                                                          *)

\* What a percentile is: the first bucket that reaches its share.  If anything was
\* counted, something was counted in it.
LEMMA PercentileFacts ==
    ASSUME NEW c \in [Buckets -> Nat], NEW q \in {50, 95, 99}
    PROVE  /\ Percentile(c, q) \in Buckets
           /\ 100 * SumFunctionOnSet(c, 1..Percentile(c, q)) >= q * SumFunction(c)
           /\ \A b \in Buckets : 100 * SumFunctionOnSet(c, 1..b) >= q * SumFunction(c)
                                   => Percentile(c, q) <= b
           /\ SumFunction(c) > 0 => c[Percentile(c, q)] > 0
<1> DEFINE Share(b) == SumFunctionOnSet(c, 1..b)
           Reached == {b \in Buckets : 100 * Share(b) >= q * SumFunction(c)}
           p == Percentile(c, q)
<1>1. SumFunction(c) = Share(NBuckets) /\ NBuckets \in Buckets
  BY MetricsAssumption DEF SumFunction, Buckets
<1>2. \A b \in 0..NBuckets : Share(b) \in Nat
  <2>1. \A b \in 0..NBuckets : b \in Int /\ \A x \in 1..b : c[x] \in Nat
    BY MetricsAssumption DEF Buckets
  <2> QED BY <2>1, SumInterval
<1>3. \A b \in Buckets : Share(b) = Share(b - 1) + c[b] /\ c[b] \in Nat /\ b - 1 \in 0..NBuckets
  <2>1. \A b \in Buckets : b \in Int /\ 1 <= b /\ b - 1 \in 0..NBuckets /\ \A x \in 1..b : c[x] \in Nat
    BY MetricsAssumption DEF Buckets
  <2> QED BY <2>1, SumInterval
<1>4. Share(0) = 0
  BY SumInterval
<1> HIDE DEF Share
<1>5. Share(NBuckets) \in Nat
  BY <1>2, MetricsAssumption
<1>6. NBuckets \in Reached
  BY <1>1, <1>5
<1>7. Percentile(c, q) = CHOOSE x \in Reached : \A y \in Reached : x <= y
  BY DEF Percentile, Min, Share
<1>8. p \in Reached /\ \A y \in Reached : p <= y
  <2>1. Reached \in SUBSET Nat
    BY MetricsAssumption DEF Buckets
  <2> HIDE DEF Reached
  <2>2. \E x \in Reached : \A y \in Reached : x <= y
    BY <1>6, <2>1, LeastNat
  <2> QED BY <1>7, <2>2
<1>9. ASSUME SumFunction(c) > 0 PROVE c[p] > 0
  <2>1. p \in Buckets /\ 100 * Share(p) >= q * SumFunction(c)
    BY <1>8
  <2>2. Share(p) = Share(p - 1) + c[p] /\ c[p] \in Nat /\ Share(p - 1) \in Nat
    BY <1>2, <1>3, <2>1
  <2>3. p - 1 \notin Reached
    BY <1>8, <2>1, MetricsAssumption DEF Buckets
  <2> HIDE DEF p
  <2>4. ~(100 * Share(p - 1) >= q * SumFunction(c))
    <3>1. CASE p = 1
      BY <3>1, <1>4, <1>9, <1>1, <1>5
    <3>2. CASE p # 1
      BY <3>2, <2>1, <2>3, MetricsAssumption DEF Buckets
    <3> QED BY <3>1, <3>2
  <2> QED BY <2>1, <2>2, <2>4, <1>1, <1>5
<1> HIDE DEF p
<1>10. /\ p \in Buckets /\ 100 * Share(p) >= q * SumFunction(c)
       /\ \A b \in Buckets : 100 * Share(b) >= q * SumFunction(c) => p <= b
  BY <1>8
<1> QED BY <1>9, <1>10 DEF p, Share

LEMMA PercentileType ==
    \A c \in [Buckets -> Nat], q \in {50, 95, 99} : Percentile(c, q) \in Buckets
<1> TAKE c \in [Buckets -> Nat], q \in {50, 95, 99}
<1> QED BY PercentileFacts

LEMMA PercentileHit ==
    \A c \in [Buckets -> Nat], q \in {50, 95, 99} :
        SumFunction(c) > 0 => Percentile(c, q) \in Buckets /\ c[Percentile(c, q)] > 0
<1> TAKE c \in [Buckets -> Nat], q \in {50, 95, 99}
<1> QED BY PercentileFacts

\* A smaller share is reached no later.
LEMMA PercentileOrder ==
    ASSUME NEW c \in [Buckets -> Nat]
    PROVE  Percentile(c, 50) <= Percentile(c, 95) /\ Percentile(c, 95) <= Percentile(c, 99)
<1> DEFINE Share(b) == SumFunctionOnSet(c, 1..b)
<1>1. SumFunction(c) \in Nat
  <2>1. SumFunction(c) = SumFunctionOnSet(c, 1..NBuckets)
    BY DEF SumFunction, Buckets
  <2>2. NBuckets \in Int /\ \A x \in 1..NBuckets : c[x] \in Nat
    BY MetricsAssumption DEF Buckets
  <2> QED BY <2>1, <2>2, SumInterval
<1>2. ASSUME NEW q \in {50, 95, 99}
      PROVE  /\ Percentile(c, q) \in Buckets
             /\ 100 * Share(Percentile(c, q)) >= q * SumFunction(c)
             /\ \A b \in Buckets : 100 * Share(b) >= q * SumFunction(c) => Percentile(c, q) <= b
  BY PercentileFacts
<1>3. ASSUME NEW b \in Buckets PROVE Share(b) \in Nat
  <2>1. b \in Int /\ \A x \in 1..b : c[x] \in Nat
    BY MetricsAssumption DEF Buckets
  <2> QED BY <2>1, SumInterval
<1> HIDE DEF Share
<1>4. 100 * Share(Percentile(c, 95)) >= 50 * SumFunction(c)
  BY <1>1, <1>2, <1>3
<1>5. 100 * Share(Percentile(c, 99)) >= 95 * SumFunction(c)
  BY <1>1, <1>2, <1>3
<1> QED BY <1>2, <1>4, <1>5

-----------------------------------------------------------------------------
(* The handler's steps                                                      *)

\* What the lists of steps begin with, and what is left after a step.
LEMMA StepLists ==
    /\ Head(<<"sum", "store", "record", "sum">>) = "sum"
    /\ Tail(<<"sum", "store", "record", "sum">>) = <<"store", "record", "sum">>
    /\ Head(<<"store", "record", "sum">>) = "store"
    /\ Tail(<<"store", "record", "sum">>) = <<"record", "sum">>
    /\ Head(<<"record", "sum">>) = "record" /\ Head(<<"record">>) = "record"
    /\ Head(<<"recording", "sum">>) = "recording" /\ Head(<<"recording">>) = "recording"
    /\ Tail(<<"recording", "sum">>) = <<"sum">> /\ Tail(<<"recording">>) = <<>>
    /\ Head(<<"sum">>) = "sum" /\ Tail(<<"sum">>) = <<>>
    /\ Head(<<"sum", "parts">>) = "sum" /\ Tail(<<"sum", "parts">>) = <<"parts">>
    /\ Head(<<"parts">>) = "parts" /\ Tail(<<"parts">>) = <<>>
    /\ Head(<<"parts", "sum">>) = "parts" /\ Tail(<<"parts", "sum">>) = <<"sum">>
    /\ [<<"record", "sum">> EXCEPT ![1] = "recording"] = <<"recording", "sum">>
    /\ [<<"record">> EXCEPT ![1] = "recording"] = <<"recording">>
OBVIOUS

\* Who changes what a handler works on: the handler, recv before it and send after
\* it, and other users of the shards.
LEMMA RequestSteps ==
    ASSUME SocketOK, Next
    PROVE  \/ UNCHANGED <<apiVars, rec>> /\ (server' # "handle" => server # "handle")
           \/ /\ server = "recv" /\ server' = "handle" /\ UNCHANGED metricsVars
              /\ \E r \in Requests : \E cut \in Cuts(r) : Dispatch(r, cut)
           \/ server = "handle" /\ HandlerStep /\ UNCHANGED server
           \/ server = "handle" /\ steps = <<>> /\ Forget /\ UNCHANGED metricsVars
           \/ (\E id \in OtherIds : OtherInsert(id)) /\ UNCHANGED <<metricsVars, server>>
<1> USE DEF dataVars, serverVars
<1>0. CASE Start
  BY <1>0 DEF Start, SocketOK, metricsVars
<1>1. CASE PressEnter \/ MainStep \/ Abort \/ ClientStep
  BY <1>1 DEF PressEnter, MainStep, StopFlag, StopClose, StopJoin, Abort, ClientStep, metricsVars
<1>2. CASE OpenSocket \/ Listen \/ CheckRunning \/ Accept \/ JoinTicker
  BY <1>2 DEF OpenSocket, Listen, CheckRunning, Accept, JoinTicker, metricsVars
<1>3. CASE SpawnTicker
  BY <1>3 DEF SpawnTicker
<1>4. CASE Receive
  BY <1>4 DEF Receive, metricsVars
<1>5. CASE Handle
  BY <1>5 DEF Handle
<1>6. CASE Respond
  BY <1>6 DEF Respond
<1>7. CASE TickerStep
  BY <1>7 DEF TickerStep, TickerLoop, Compute, StartCompute, CountBucket, StorePercentile, SwapWindow,
     recordVars
<1>8. CASE OtherStep
  BY <1>8 DEF OtherStep
<1> QED BY <1>0, <1>1, <1>2, <1>3, <1>4, <1>5, <1>6, <1>7, <1>8 DEF Next, ServerStep

\* What parsing leaves of a request that was sent.
LEMMA ReceivedFacts ==
    ASSUME NEW r \in Requests, NEW cut \in Cuts(r), NEW got, got = Received(r, cut)
    PROVE  /\ got.route \in Routes /\ got.id \in Int /\ got.id <= MaxId /\ got.shard \in Nat
           /\ got.route \in Posts /\ GoodVector(got) =>
                got.vector = r.vector /\ Floats(got.vector) \in Vectors
<1>1. /\ DOMAIN r = {"route", "vector", "id", "shard"}
      /\ r.route \in Routes /\ r.id \in Int /\ r.id <= MaxId /\ r.shard \in Nat
  BY ApiAssumption
<1>2. Len(Floats(<<>>)) # Dim
  <2>1. Floats(<<>>) = <<>>
    <3> DEFINE IsFloats(g) ==
          g = [k \in 0..Len(<<>>) |->
                 IF k = 0 THEN <<>>
                 ELSE IF <<>>[k] = Junk THEN g[k - 1] ELSE Append(g[k - 1], <<>>[k])]
    <3>1. Len(<<>>) = 0
      OBVIOUS
    <3>2. IsFloats([k \in 0..Len(<<>>) |-> <<>>])
      BY <3>1
    <3>3. Floats(<<>>) = (CHOOSE g : IsFloats(g))[0]
      BY <3>1 DEF Floats
    <3>4. IsFloats(CHOOSE g : IsFloats(g))
      BY <3>2, Zenon
    <3> QED BY <3>1, <3>3, <3>4
  <2> QED BY <2>1, ApiAssumption
<1>3. GoodVector(r) => Floats(r.vector) \in Vectors
  BY DEF GoodVector, Vectors
<1>4. CASE cut = "line"
  BY <1>4, ApiAssumption DEF Received, NoAsk, Routes, Posts, None
<1>5. CASE cut \in {"head", "array"}
  <2>1. got = [r EXCEPT !.vector = <<>>, !.id = None]
    BY <1>5 DEF Received
  <2>2. got.route = r.route /\ got.vector = <<>> /\ got.id = None /\ got.shard = r.shard
    BY <1>1, <2>1
  <2> QED BY <1>1, <1>2, <2>2, ApiAssumption DEF GoodVector, None
<1>6. CASE cut = "id"
  <2>1. got = [r EXCEPT !.id = None, !.shard = 0]
    BY <1>6 DEF Received
  <2>2. got.route = r.route /\ got.vector = r.vector /\ got.id = None /\ got.shard = 0
    BY <1>1, <2>1
  <2> QED BY <1>1, <1>3, <2>2, ApiAssumption DEF GoodVector, None
<1>7. CASE cut = "digits"
  <2>1. got = [r EXCEPT !.id = IF @ >= Base THEN @ \div Base ELSE @, !.shard = 0]
    BY <1>7 DEF Received
  <2>2. /\ got.route = r.route /\ got.vector = r.vector /\ got.shard = 0
        /\ got.id = IF r.id >= Base THEN r.id \div Base ELSE r.id
    BY <1>1, <2>1
  <2>3. got.id \in Int /\ got.id <= MaxId
    BY <1>1, <2>2, ApiAssumption DEF Base
  <2> QED BY <1>1, <1>3, <2>2, <2>3 DEF GoodVector
<1>8. CASE cut \notin {"line", "head", "array", "id", "digits"}
  <2>1. got = r
    BY <1>8 DEF Received
  <2> QED BY <1>1, <1>3, <2>1 DEF GoodVector
<1> QED BY <1>4, <1>5, <1>6, <1>7, <1>8

LEMMA InsertProgram ==
    /\ <<"sum">> \o <<"store", "record", "sum">> = <<"sum", "store", "record", "sum">>
    /\ <<>> \o <<"store", "record", "sum">> = <<"store", "record", "sum">>
<1> DEFINE a == <<"sum">>
           b == <<"store", "record", "sum">>
           c == <<"sum", "store", "record", "sum">>
<1>1. a \in Seq(Steps) /\ b \in Seq(Steps) /\ c \in Seq(Steps)
  BY DEF Steps
<1>2. Len(a) = 1 /\ Len(b) = 3 /\ Len(c) = 4
  OBVIOUS
<1>3. c[1] = a[1] /\ \A i \in 2..4 : c[i] = b[i - 1]
  OBVIOUS
<1> HIDE DEF a, b, c
<1>4. a \o b = c
  <2>1. /\ a \o b \in Seq(Steps) /\ Len(a \o b) = 4
        /\ \A i \in 1..4 : (a \o b)[i] = IF i <= 1 THEN a[i] ELSE b[i - 1]
    <3>1. /\ a \o b \in Seq(Steps) /\ Len(a \o b) = Len(a) + Len(b)
          /\ \A i \in 1..(Len(a) + Len(b)) : (a \o b)[i] = IF i <= Len(a) THEN a[i] ELSE b[i - Len(a)]
      BY <1>1, ConcatProperties
    <3> QED BY <1>2, <3>1
  <2>2. \A i \in 1..Len(a \o b) : (a \o b)[i] = c[i]
    BY <1>3, <2>1
  <2> QED BY <1>1, <1>2, <2>1, <2>2, SeqEqual
<1>5. <<>> \o b = b
  BY <1>1, ConcatEmptySeq
<1> QED BY <1>4, <1>5 DEF a, b, c

\* The answer a handler starts with, and the program it starts on.
LEMMA AnswerFacts ==
    ASSUME ContentsOK, NEW got, got.route \in Routes, got.id \in Int, got.shard \in Nat
    PROVE  /\ Answer(got) \in Replies
           /\ Answer(got).parts = <<>> /\ Answer(got).total = 0
           /\ Answer(got).kind \in Posts => Answer(got).kind = got.route /\ GoodVector(got)
           /\ Program(got) \in StepsLeft(Answer(got).kind)
           /\ Program(got) # <<>> => Head(Program(got)) # "recording"
           /\ Answer(got).kind = "insert" =>
                Program(got) = IF Automatic(got.id) THEN <<"sum", "store", "record", "sum">>
                                                    ELSE <<"store", "record", "sum">>
           /\ Answer(got).kind = "info" => Program(got) = <<"sum", "parts">>
           /\ Answer(got).kind = "metrics" => Program(got) = <<"parts", "sum">>
<1>1. NoReply \in Replies /\ NoReply.parts = <<>> /\ NoReply.total = 0
  BY ApiAssumption, EmptySeq DEF NoReply, Replies, Shards, None
<1>2. ASSUME NEW k \in {"none", "error"} \cup Routes
      PROVE  /\ [NoReply EXCEPT !.kind = k] \in Replies
             /\ [NoReply EXCEPT !.kind = k].kind = k
             /\ [NoReply EXCEPT !.kind = k].parts = <<>> /\ [NoReply EXCEPT !.kind = k].total = 0
  BY <1>1, Zenon DEF Replies, NoReply
<1>3. CASE got.route \in Posts /\ ~GoodVector(got)
  <2>1. Answer(got) = [NoReply EXCEPT !.kind = "error"]
    BY <1>3 DEF Answer, Posts
  <2>2. Program(got) = <<>>
    BY <1>3 DEF Program, Posts
  <2> QED BY <1>2, <2>1, <2>2 DEF StepsLeft, Posts
<1>4. CASE got.route = "node"
  <2>1. \/ /\ NodeShown(got)
           /\ Answer(got) = [NoReply EXCEPT !.kind = "node", !.node = got.id, !.shard = got.shard]
        \/ Answer(got) = [NoReply EXCEPT !.kind = "error"]
    BY <1>4 DEF Answer, Posts
  <2>2. Program(got) = <<>>
    BY <1>4 DEF Program, Posts
  <2>3. ASSUME NodeShown(got)
        PROVE  LET a == [NoReply EXCEPT !.kind = "node", !.node = got.id, !.shard = got.shard]
               IN  a \in Replies /\ a.kind = "node" /\ a.parts = <<>> /\ a.total = 0
    <3>1. got.shard \in Shards /\ got.id \in Nat
      BY <2>3, LenProperties DEF NodeShown, ContentsOK
    <3> QED BY <1>1, <3>1 DEF Replies, NoReply, Routes
  <2> QED BY <1>2, <2>1, <2>2, <2>3 DEF StepsLeft, Posts
<1>5. CASE ~(got.route \in Posts /\ ~GoodVector(got)) /\ got.route # "node"
  <2>1. Answer(got) = [NoReply EXCEPT !.kind = got.route]
    BY <1>5, Zenon DEF Answer
  <2>2. Answer(got) \in Replies /\ Answer(got).kind = got.route
        /\ Answer(got).parts = <<>> /\ Answer(got).total = 0
    BY <1>2, <2>1
  <2>3. /\ got.route = "insert" =>
             Program(got) = IF Automatic(got.id) THEN <<"sum", "store", "record", "sum">>
                                                 ELSE <<"store", "record", "sum">>
        /\ got.route = "search" => Program(got) = <<"record">>
        /\ got.route = "info" => Program(got) = <<"sum", "parts">>
        /\ got.route = "metrics" => Program(got) = <<"parts", "sum">>
        /\ got.route \notin {"insert", "search", "info", "metrics"} => Program(got) = <<>>
    <3>1. CASE got.route = "insert"
      <4>1. Program(got) = (IF Automatic(got.id) THEN <<"sum">> ELSE <<>>) \o <<"store", "record", "sum">>
        BY <1>5, <3>1 DEF Program, Posts
      <4> QED BY <3>1, <4>1, InsertProgram
    <3>2. CASE got.route = "search"
      BY <1>5, <3>2 DEF Program, Posts
    <3>3. CASE got.route \notin Posts
      BY <3>3 DEF Program, Posts
    <3> QED BY <3>1, <3>2, <3>3 DEF Posts
  <2> QED BY <1>5, <2>2, <2>3, StepLists DEF StepsLeft, Posts
<1> QED BY <1>3, <1>4, <1>5

\* After a step a handler has a list of its program left.
LEMMA TailLeft ==
    ASSUME NEW kind, NEW left \in StepsLeft(kind), left # <<>>
    PROVE  /\ Head(left) \in {"sum", "parts", "store", "recording"} =>
                /\ Tail(left) \in StepsLeft(kind)
                /\ Tail(left) # <<>> => Head(Tail(left)) # "recording"
           /\ Head(left) = "record" =>
                /\ kind \in Posts
                /\ [left EXCEPT ![1] = "recording"] \in StepsLeft(kind)
                /\ Head([left EXCEPT ![1] = "recording"]) = "recording"
                /\ [left EXCEPT ![1] = "recording"] # <<>>
           /\ Head(left) = "store" => kind = "insert" /\ left = <<"store", "record", "sum">>
           /\ Head(left) = "parts" => kind \in {"info", "metrics"}
<1>1. CASE kind = "insert"
  <2>0. left \in {<<"sum", "store", "record", "sum">>, <<"store", "record", "sum">>,
                  <<"record", "sum">>, <<"recording", "sum">>, <<"sum">>}
        /\ \A l \in {<<"store", "record", "sum">>, <<"record", "sum">>, <<"recording", "sum">>,
                     <<"sum">>, <<>>} : l \in StepsLeft(kind)
    BY <1>1 DEF StepsLeft
  <2>1. CASE left = <<"sum", "store", "record", "sum">> \/ left = <<"store", "record", "sum">>
    BY <1>1, <2>0, <2>1, StepLists
  <2>2. CASE left = <<"record", "sum">>
    BY <1>1, <2>0, <2>2, StepLists DEF Posts
  <2>3. CASE left = <<"recording", "sum">> \/ left = <<"sum">>
    BY <1>1, <2>0, <2>3, StepLists
  <2> QED BY <2>0, <2>1, <2>2, <2>3
<1>2. CASE kind = "search"
  BY <1>2, StepLists DEF StepsLeft, Posts
<1>3. CASE kind = "info"
  BY <1>3, StepLists DEF StepsLeft
<1>4. CASE kind = "metrics"
  BY <1>4, StepLists DEF StepsLeft
<1>5. CASE kind \notin {"insert", "search", "info", "metrics"}
  BY <1>5 DEF StepsLeft
<1> QED BY <1>1, <1>2, <1>3, <1>4, <1>5

LEMMA DispatchStays ==
    ASSUME RequestOK, server = "recv", server' = "handle", UNCHANGED metricsVars,
           NEW r \in Requests, NEW cut \in Cuts(r), Dispatch(r, cut)
    PROVE  RequestOK'
<1> DEFINE got == Received(r, cut)
<1>1. /\ asked' = [sent |-> r, got |-> got] /\ steps' = Program(got) /\ loop' = 0
      /\ reply' = Answer(got) /\ contents' = contents /\ others' = others
  BY Zenon DEF Dispatch
<1>2. /\ got.route \in Routes /\ got.id \in Int /\ got.id <= MaxId /\ got.shard \in Nat
      /\ got.route \in Posts /\ GoodVector(got) =>
           got.vector = r.vector /\ Floats(got.vector) \in Vectors
  BY ReceivedFacts
<1> HIDE DEF got
<1>3. AskedOK'
  BY <1>1, <1>2 DEF AskedOK
<1>4. /\ Answer(got) \in Replies
      /\ Answer(got).kind \in Posts => Answer(got).kind = got.route /\ GoodVector(got)
      /\ Program(got) \in StepsLeft(Answer(got).kind)
      /\ Program(got) # <<>> => Head(Program(got)) # "recording"
  BY <1>2, AnswerFacts DEF RequestOK
<1>5. ReplyOK'
  BY <1>1, <1>4 DEF ReplyOK
<1>6. rec'.pc = "idle"
  BY DEF RequestOK, HandlerOK, metricsVars
<1>7. HandlerOK'
  <2>1. 0 \in Shards
    BY ApiAssumption DEF Shards
  <2> QED BY <1>1, <1>4, <1>6, <2>1 DEF HandlerOK
<1>8. ContentsOK'
  BY <1>1 DEF RequestOK, ContentsOK
<1> QED BY <1>3, <1>5, <1>7, <1>8 DEF RequestOK

\* A step of a loop over the shards.
LEMMA LoopStays ==
    ASSUME RequestOK, server = "handle", UNCHANGED <<metricsVars, server, contents, others, asked>>,
           steps # <<>>, Head(steps) \in {"sum", "parts"}, Loops,
           reply' \in Replies, reply'.kind = reply.kind
    PROVE  RequestOK'
<1> USE DEF RequestOK
<1>1. AskedOK' /\ ReplyOK' /\ ContentsOK'
  BY DEF AskedOK, ReplyOK, ContentsOK
<1>2. CASE loop + 1 < ShardCount
  <2>1. loop' = loop + 1 /\ steps' = steps /\ loop' \in Shards
    BY <1>2, ApiAssumption DEF Loops, HandlerOK, Shards
  <2> QED BY <1>1, <2>1 DEF HandlerOK, metricsVars
<1>3. CASE ~(loop + 1 < ShardCount)
  <2>1. loop' = 0 /\ steps' = Tail(steps) /\ loop' \in Shards
    BY <1>3, ApiAssumption DEF Loops, Shards
  <2>2. Tail(steps) \in StepsLeft(reply.kind) /\ (Tail(steps) # <<>> => Head(Tail(steps)) # "recording")
    <3>1. steps \in StepsLeft(reply.kind)
      BY DEF HandlerOK
    <3> QED BY <3>1, TailLeft
  <2> QED BY <1>1, <2>1, <2>2 DEF HandlerOK, metricsVars
<1> QED BY <1>2, <1>3

LEMMA SumStays ==
    ASSUME RequestOK, server = "handle", UNCHANGED <<metricsVars, server>>, Sum
    PROVE  /\ RequestOK'
           /\ steps # <<>> /\ Head(steps) = "sum" /\ Loops /\ UNCHANGED <<contents, others, asked>>
           /\ reply'.total = SoFar + Len(contents[loop])
           /\ \A x \in {"kind", "shard", "node", "id", "parts"} : reply'[x] = reply[x]
<1>1. steps # <<>> /\ Head(steps) = "sum" /\ Loops /\ UNCHANGED <<contents, others, asked>>
  BY DEF Sum
<1>2. reply \in Replies /\ loop \in Shards /\ contents \in [Shards -> Seq(Entries)]
  BY DEF RequestOK, ReplyOK, HandlerOK, ContentsOK
<1>3. SoFar + Len(contents[loop]) \in Nat
  <2>1. Len(contents[loop]) \in Nat
    BY <1>2, LenProperties
  <2> QED BY <1>2, <2>1 DEF SoFar, Replies
<1>4. reply' = [reply EXCEPT !.total = SoFar + Len(contents[loop])]
  BY DEF Sum, SoFar
<1>5. /\ reply' \in Replies
      /\ reply'.total = SoFar + Len(contents[loop])
      /\ \A x \in {"kind", "shard", "node", "id", "parts"} : reply'[x] = reply[x]
  BY <1>2, <1>3, <1>4 DEF Replies
<1>6. reply'.kind = reply.kind
  BY <1>5
<1> QED BY <1>1, <1>5, <1>6, LoopStays

LEMMA PartsStays ==
    ASSUME RequestOK, server = "handle", UNCHANGED <<metricsVars, server>>, Parts
    PROVE  /\ RequestOK'
           /\ steps # <<>> /\ Head(steps) = "parts" /\ Loops /\ UNCHANGED <<contents, others, asked>>
           /\ reply'.parts = Append(reply.parts, Len(contents[loop]))
           /\ \A x \in {"kind", "shard", "node", "id", "total"} : reply'[x] = reply[x]
<1>1. steps # <<>> /\ Head(steps) = "parts" /\ Loops /\ UNCHANGED <<contents, others, asked>>
  BY DEF Parts
<1>2. reply \in Replies /\ loop \in Shards /\ contents \in [Shards -> Seq(Entries)]
  BY DEF RequestOK, ReplyOK, HandlerOK, ContentsOK
<1>3. Append(reply.parts, Len(contents[loop])) \in Seq(Nat)
  <2>1. Len(contents[loop]) \in Nat
    BY <1>2, LenProperties
  <2> QED BY <1>2, <2>1, AppendProperties DEF Replies
<1>4. reply' = [reply EXCEPT !.parts = Append(reply.parts, Len(contents[loop]))]
  BY DEF Parts
<1>5. /\ reply' \in Replies
      /\ reply'.parts = Append(reply.parts, Len(contents[loop]))
      /\ \A x \in {"kind", "shard", "node", "id", "total"} : reply'[x] = reply[x]
  BY <1>2, <1>3, <1>4 DEF Replies
<1>6. reply'.kind = reply.kind
  BY <1>5
<1> QED BY <1>1, <1>5, <1>6, LoopStays

\* What is stored goes to the end of one shard.
LEMMA StoreFacts ==
    ASSUME ContentsOK, NEW s \in Shards, NEW e \in Entries,
           contents' = [contents EXCEPT ![s] = Append(@, e)]
    PROVE  /\ contents' \in [Shards -> Seq(Entries)]
           /\ Len(contents'[s]) = Len(contents[s]) + 1 /\ Len(contents[s]) \in Nat
           /\ contents'[s][Len(contents[s]) + 1] = e
           /\ \A t \in Shards : t # s => contents'[t] = contents[t]
           /\ \A t \in Shards : \A k \in DOMAIN contents[t] :
                k \in DOMAIN contents'[t] /\ contents'[t][k] = contents[t][k]
           /\ \A t \in Shards : \A k \in DOMAIN contents'[t] :
                k \in DOMAIN contents[t] \/ (t = s /\ k = Len(contents[s]) + 1)
<1>1. contents \in [Shards -> Seq(Entries)]
  BY DEF ContentsOK
<1> DEFINE q == contents[s]
<1>2. contents'[s] = Append(q, e) /\ \A t \in Shards : t # s => contents'[t] = contents[t]
  BY <1>1
<1>3. q \in Seq(Entries)
  BY <1>1
<1> HIDE DEF q
<1>4. /\ Append(q, e) \in Seq(Entries) /\ Len(Append(q, e)) = Len(q) + 1 /\ Len(q) \in Nat
      /\ DOMAIN q = 1..Len(q) /\ DOMAIN Append(q, e) = 1..(Len(q) + 1)
      /\ \A k \in 1..Len(q) : Append(q, e)[k] = q[k]
      /\ Append(q, e)[Len(q) + 1] = e
  BY <1>3, AppendProperties, LenProperties
<1>5. contents' \in [Shards -> Seq(Entries)]
  BY <1>1, <1>2, <1>4 DEF q
<1>6. \A k \in DOMAIN q : k \in DOMAIN Append(q, e) /\ Append(q, e)[k] = q[k]
  BY <1>4
<1>7. \A k \in DOMAIN Append(q, e) : k \in DOMAIN q \/ k = Len(q) + 1
  BY <1>4
<1> QED BY <1>2, <1>4, <1>5, <1>6, <1>7 DEF q

\* What handle_insert stores, and where.
LEMMA StoreVectorFacts ==
    ASSUME RequestOK, StoreVector
    PROVE  \E s \in Shards, vid \in Ids, e \in Entries :
              /\ vid = (IF Automatic(asked.got.id) THEN reply.total ELSE asked.got.id)
              /\ e = [id |-> vid, auto |-> Automatic(asked.got.id), vector |-> Floats(asked.got.vector)]
              /\ contents' = [contents EXCEPT ![s] = Append(@, e)]
              /\ reply' = [reply EXCEPT !.shard = s, !.node = Len(contents[s]), !.id = vid]
              /\ steps = <<"store", "record", "sum">> /\ steps' = <<"record", "sum">>
              /\ reply.kind = "insert" /\ loop = 0
              /\ UNCHANGED <<others, asked, loop>>
<1> DEFINE vid == IF Automatic(asked.got.id) THEN reply.total ELSE asked.got.id
           s   == ShardOf[vid]
           e   == [id |-> vid, auto |-> Automatic(asked.got.id), vector |-> Floats(asked.got.vector)]
<1>1. /\ vid \in Ids
      /\ contents' = [contents EXCEPT ![s] = Append(@, e)]
      /\ reply' = [reply EXCEPT !.shard = s, !.node = Len(contents[s]), !.id = vid]
      /\ steps # <<>> /\ Head(steps) = "store" /\ steps' = Tail(steps)
      /\ UNCHANGED <<others, asked, loop>>
  BY Zenon DEF StoreVector, Store
<1>2. s \in Shards
  BY <1>1, ApiAssumption
<1>3. steps \in StepsLeft(reply.kind)
  BY DEF RequestOK, HandlerOK
<1>4. reply.kind = "insert" /\ steps = <<"store", "record", "sum">>
  BY <1>1, <1>3, TailLeft
<1>5. steps' = <<"record", "sum">> /\ loop = 0
  BY <1>1, <1>4, StepLists DEF RequestOK, HandlerOK
<1>6. Floats(asked.got.vector) \in Vectors
  BY <1>4 DEF RequestOK, AskedOK, ReplyOK, Posts
<1>7. Automatic(asked.got.id) \in BOOLEAN
  BY DEF Automatic, RequestOK, AskedOK
<1>8. e \in Entries
  BY <1>1, <1>6, <1>7 DEF Entries
<1> HIDE DEF s, vid
<1>9. vid \in Ids
  BY <1>1
<1> QED BY <1>1, <1>2, <1>4, <1>5, <1>8, <1>9, Zenon DEF vid

LEMMA StoreVectorStays ==
    ASSUME RequestOK, server = "handle", UNCHANGED <<metricsVars, server>>, StoreVector
    PROVE  RequestOK'
<1> USE DEF RequestOK
<1>1. PICK s \in Shards, vid \in Ids, e \in Entries :
         /\ contents' = [contents EXCEPT ![s] = Append(@, e)]
         /\ reply' = [reply EXCEPT !.shard = s, !.node = Len(contents[s]), !.id = vid]
         /\ steps = <<"store", "record", "sum">> /\ steps' = <<"record", "sum">>
         /\ reply.kind = "insert" /\ loop = 0
         /\ UNCHANGED <<others, asked, loop>>
  BY StoreVectorFacts
<1>2. contents' \in [Shards -> Seq(Entries)] /\ Len(contents[s]) \in Nat
  BY <1>1, StoreFacts
<1>3. reply \in Replies
  BY DEF ReplyOK
<1>4. reply' \in Replies /\ reply'.kind = reply.kind
  BY <1>1, <1>2, <1>3 DEF Replies
<1>5. AskedOK' /\ ReplyOK' /\ ContentsOK'
  BY <1>1, <1>2, <1>4 DEF AskedOK, ReplyOK, ContentsOK
<1>6. HandlerOK'
  BY <1>1, <1>4, StepLists DEF HandlerOK, StepsLeft, metricsVars
<1> QED BY <1>5, <1>6

LEMMA RecordStartStays ==
    ASSUME RequestOK, server = "handle", UNCHANGED server, RecordStart
    PROVE  /\ RequestOK'
           /\ \E b \in Buckets : rec' = [pc |-> "total", kind |-> asked.got.route, bucket |-> b]
           /\ asked.got.route \in Kinds /\ rec.pc = "idle"
<1> USE DEF RequestOK
<1>1. /\ steps # <<>> /\ Head(steps) = "record" /\ steps' = [steps EXCEPT ![1] = "recording"]
      /\ UNCHANGED <<contents, others, asked, loop, reply>>
  BY DEF RecordStart
<1>2. steps \in StepsLeft(reply.kind)
  BY DEF HandlerOK
<1>3. /\ reply.kind \in Posts /\ steps' \in StepsLeft(reply.kind) /\ Head(steps') = "recording"
      /\ steps' # <<>>
  BY <1>1, <1>2, TailLeft
<1>4. \E b \in Buckets : rec' = [pc |-> "total", kind |-> asked.got.route, bucket |-> b]
  BY MetricsAssumption DEF RecordStart, StartRecord, Buckets
<1>5. rec'.pc = "total" /\ rec.pc = "idle" /\ loop = 0
  BY <1>1, <1>4 DEF HandlerOK
<1>6. AskedOK' /\ ReplyOK' /\ ContentsOK'
  BY <1>1 DEF AskedOK, ReplyOK, ContentsOK
<1>7. HandlerOK'
  BY <1>1, <1>3, <1>5 DEF HandlerOK
<1>8. asked.got.route \in Kinds
  BY <1>3 DEF ReplyOK, Posts, Kinds
<1> QED BY <1>4, <1>5, <1>6, <1>7, <1>8

LEMMA RecordStepStays ==
    ASSUME RequestOK, server = "handle", UNCHANGED server, RecordStep
    PROVE  RequestOK'
<1> USE DEF RequestOK
<1>1. /\ steps # <<>> /\ Head(steps) = "recording"
      /\ steps' = IF rec'.pc = "idle" THEN Tail(steps) ELSE steps
      /\ UNCHANGED <<contents, others, asked, loop, reply>>
  BY DEF RecordStep
<1>2. steps \in StepsLeft(reply.kind)
  BY DEF HandlerOK
<1>3. Tail(steps) \in StepsLeft(reply.kind) /\ (Tail(steps) # <<>> => Head(Tail(steps)) # "recording")
  BY <1>1, <1>2, TailLeft
<1>4. AskedOK' /\ ReplyOK' /\ ContentsOK'
  BY <1>1 DEF AskedOK, ReplyOK, ContentsOK
<1>5. HandlerOK'
  BY <1>1, <1>2, <1>3 DEF HandlerOK
<1> QED BY <1>4, <1>5

LEMMA OtherInsertFacts ==
    ASSUME NEW id \in OtherIds, OtherInsert(id), ContentsOK
    PROVE  /\ \E s \in Shards, e \in Entries :
                ~e.auto /\ contents' = [contents EXCEPT ![s] = Append(@, e)]
           /\ others' \in 0..MaxOthers /\ UNCHANGED handlerVars
<1>1. PICK r \in Requests : GoodVector(r) /\ Store(ShardOf[id], id, FALSE, Floats(r.vector))
  BY DEF OtherInsert
<1> DEFINE e == [id |-> id, auto |-> FALSE, vector |-> Floats(r.vector)]
<1>2. ShardOf[id] \in Shards /\ id \in Ids
  BY ApiAssumption
<1>3. Floats(r.vector) \in Vectors
  BY <1>1 DEF GoodVector, Vectors
<1>4. e \in Entries /\ ~e.auto
  BY <1>2, <1>3 DEF Entries
<1>5. contents' = [contents EXCEPT ![ShardOf[id]] = Append(@, e)]
  BY <1>1 DEF Store
<1>6. others' \in 0..MaxOthers /\ UNCHANGED handlerVars
  BY ApiAssumption DEF OtherInsert, ContentsOK
<1> QED BY <1>2, <1>4, <1>5, <1>6

LEMMA OtherInsertStays ==
    ASSUME RequestOK, NEW id \in OtherIds, OtherInsert(id), UNCHANGED <<metricsVars, server>>
    PROVE  RequestOK'
<1> USE DEF RequestOK
<1>1. PICK s \in Shards, e \in Entries : contents' = [contents EXCEPT ![s] = Append(@, e)]
  BY OtherInsertFacts
<1>2. contents' \in [Shards -> Seq(Entries)]
  BY <1>1, StoreFacts
<1>3. others' \in 0..MaxOthers /\ UNCHANGED <<asked, steps, loop, reply, rec, server>>
  BY OtherInsertFacts DEF handlerVars, metricsVars
<1> QED BY <1>2, <1>3 DEF AskedOK, ReplyOK, HandlerOK, ContentsOK

LEMMA ForgetStays ==
    ASSUME RequestOK, steps = <<>>, Forget, UNCHANGED metricsVars
    PROVE  RequestOK'
<1> USE DEF RequestOK
<1>1. /\ asked' = [sent |-> NoAsk, got |-> NoAsk] /\ reply' = NoReply
      /\ UNCHANGED <<contents, others, steps, loop, rec>>
  BY DEF Forget, metricsVars
<1>2. AskedOK'
  BY <1>1, ApiAssumption DEF AskedOK, NoAsk, Routes, Posts, None
<1>3. NoReply \in Replies /\ NoReply.kind \notin Posts
  BY ApiAssumption, EmptySeq DEF NoReply, Replies, Shards, None, Posts
<1>4. ReplyOK' /\ ContentsOK'
  BY <1>1, <1>3 DEF ReplyOK, ContentsOK
<1>5. HandlerOK'
  BY <1>1, <1>3 DEF HandlerOK, StepsLeft, NoReply
<1> QED BY <1>2, <1>4, <1>5

LEMMA RequestStays == ASSUME SocketOK, RequestOK, Next PROVE RequestOK'
<1>1. CASE UNCHANGED <<apiVars, rec>> /\ (server' # "handle" => server # "handle")
  BY <1>1 DEF RequestOK, AskedOK, ReplyOK, HandlerOK, ContentsOK, apiVars, handlerVars
<1>2. CASE /\ server = "recv" /\ server' = "handle" /\ UNCHANGED metricsVars
           /\ \E r \in Requests : \E cut \in Cuts(r) : Dispatch(r, cut)
  BY <1>2, DispatchStays
<1>3. CASE server = "handle" /\ HandlerStep /\ UNCHANGED server
  BY <1>3, SumStays, PartsStays, StoreVectorStays, RecordStartStays, RecordStepStays DEF HandlerStep
<1>4. CASE server = "handle" /\ steps = <<>> /\ Forget /\ UNCHANGED metricsVars
  BY <1>4, ForgetStays
<1>5. CASE (\E id \in OtherIds : OtherInsert(id)) /\ UNCHANGED <<metricsVars, server>>
  BY <1>5, OtherInsertStays
<1> QED BY <1>1, <1>2, <1>3, <1>4, <1>5, RequestSteps

-----------------------------------------------------------------------------
(* The metrics                                                              *)

\* Who changes the metrics: a handler that records, and the ticker.
LEMMA MetricsSteps ==
    ASSUME RequestOK, Next
    PROVE  \/ UNCHANGED metricsVars
           \/ /\ server = "spawn" /\ tick' = "check"
              /\ UNCHANGED <<total, window, buckets, pct, rec, at, counts, published>>
           \/ TickerLoop \/ Compute
           \/ /\ asked.got.route \in Kinds /\ rec.pc = "idle"
              /\ \E b \in Buckets : rec' = [pc |-> "total", kind |-> asked.got.route, bucket |-> b]
              /\ UNCHANGED <<total, window, buckets, pct, published, tickerVars>>
           \/ Record
<1> USE DEF dataVars
<1>1. CASE Start \/ PressEnter \/ MainStep \/ Abort \/ ClientStep \/ OtherStep
  BY <1>1 DEF Start, PressEnter, MainStep, StopFlag, StopClose, StopJoin, Abort, ClientStep, OtherStep
<1>2. CASE OpenSocket \/ Listen \/ CheckRunning \/ Accept \/ JoinTicker \/ Receive \/ Respond
  BY <1>2 DEF OpenSocket, Listen, CheckRunning, Accept, JoinTicker, Receive, Respond
<1>3. CASE SpawnTicker
  BY <1>3 DEF SpawnTicker
<1>4. CASE Handle
  <2>1. CASE RecordStart
    BY <1>4, <2>1, RecordStartStays DEF Handle, RecordStart, serverVars
  <2>2. CASE RecordStep
    BY <2>2 DEF RecordStep
  <2> QED BY <1>4, <2>1, <2>2 DEF Handle, HandlerStep
<1>5. CASE TickerStep
  BY <1>5 DEF TickerStep
<1> QED BY <1>1, <1>2, <1>3, <1>4, <1>5 DEF Next, ServerStep

\* A step of record_insert or record_search.
LEMMA RecordMoves ==
    ASSUME MetricsTypeOK, Record
    PROVE  /\ MetricsTypeOK' /\ UNCHANGED <<pct, published, tickerVars>>
           /\ rec'.kind = rec.kind \/ rec'.pc = "idle"
           /\ rec'.pc = "bucket" => rec.kind = "search"
<1> USE DEF MetricsTypeOK, tickerVars
<1>1. CASE RecordTotal
  <2>1. /\ rec.kind \in Kinds /\ total' = [total EXCEPT ![rec.kind] = @ + 1]
        /\ rec' = [rec EXCEPT !.pc = "window"]
        /\ UNCHANGED <<window, buckets, pct, published, tickerVars>>
    BY <1>1 DEF RecordTotal
  <2>2. total' \in [Kinds -> Nat]
    BY <2>1
  <2>3. rec' \in [pc : {"idle", "total", "window", "bucket"}, kind : Kinds, bucket : Buckets]
        /\ rec'.kind = rec.kind /\ rec'.pc = "window"
    BY <2>1
  <2> QED BY <2>1, <2>2, <2>3
<1>2. CASE RecordWindow
  <2>1. /\ rec.kind \in Kinds /\ window' = [window EXCEPT ![rec.kind] = @ + 1]
        /\ rec' = IF rec.kind = "search" THEN [rec EXCEPT !.pc = "bucket"] ELSE NoRecord
        /\ UNCHANGED <<total, buckets, pct, published, tickerVars>>
    BY <1>2 DEF RecordWindow
  <2>2. window' \in [Kinds -> Nat]
    BY <2>1
  <2>3. NoRecord \in [pc : {"idle", "total", "window", "bucket"}, kind : Kinds, bucket : Buckets]
        /\ NoRecord.pc = "idle"
    BY MetricsAssumption DEF NoRecord, Kinds, Buckets
  <2>4. rec' \in [pc : {"idle", "total", "window", "bucket"}, kind : Kinds, bucket : Buckets]
        /\ (rec'.kind = rec.kind \/ rec'.pc = "idle") /\ (rec'.pc = "bucket" => rec.kind = "search")
    BY <2>1, <2>3
  <2> QED BY <2>1, <2>2, <2>4
<1>3. CASE RecordBucket
  <2>1. /\ rec.bucket \in Buckets /\ buckets' = [buckets EXCEPT ![rec.bucket] = @ + 1]
        /\ rec' = NoRecord
        /\ UNCHANGED <<total, window, pct, published, tickerVars>>
    BY <1>3 DEF RecordBucket
  <2>2. buckets' \in [Buckets -> Nat]
    BY <2>1
  <2>3. NoRecord \in [pc : {"idle", "total", "window", "bucket"}, kind : Kinds, bucket : Buckets]
        /\ NoRecord.pc = "idle"
    BY MetricsAssumption DEF NoRecord, Kinds, Buckets
  <2> QED BY <2>1, <2>2, <2>3
<1> QED BY <1>1, <1>2, <1>3 DEF Record

\* The ticker's steps keep the types.
LEMMA TickerTypes ==
    ASSUME MetricsTypeOK, TickerOK, TickerLoop \/ Compute
    PROVE  MetricsTypeOK'
<1> USE DEF MetricsTypeOK, TickerOK, recordVars
<1>1. CASE TickerLoop
  BY <1>1 DEF TickerLoop
<1>2. CASE StartCompute
  <2>1. NoCounts \in [Buckets -> Nat]
    BY DEF NoCounts
  <2> QED BY <1>2, <2>1 DEF StartCompute
<1>3. CASE CountBucket
  <2>1. /\ tick = "count" /\ counts' = [counts EXCEPT ![at] = buckets[at]]
        /\ IF at < NBuckets THEN at' = at + 1 /\ tick' = tick
           ELSE at' = 1 /\ tick' \in {"store", "swap"}
        /\ UNCHANGED <<window, buckets, pct, published, total, rec>>
    BY <1>3, Zenon DEF CountBucket
  <2>2. at \in Buckets /\ buckets[at] \in Nat /\ counts' \in [Buckets -> Nat]
    BY <2>1
  <2>3. at' \in Nat /\ tick' \in {"count", "store", "swap"}
    BY <2>1
  <2> QED BY <2>1, <2>2, <2>3
<1>4. CASE StorePercentile
  <2>1. /\ tick = "store" /\ pct' = [pct EXCEPT ![at] = Percentile(counts, Quantiles[at])]
        /\ IF at < 3 THEN at' = at + 1 /\ tick' = tick ELSE at' = 1 /\ tick' = "swap"
        /\ UNCHANGED <<window, buckets, counts, published, total, rec>>
    BY <1>4, Zenon DEF StorePercentile
  <2>2. at \in 1..3 /\ Quantiles[at] \in {50, 95, 99}
    BY <2>1 DEF Quantiles
  <2>3. Percentile(counts, Quantiles[at]) \in Buckets
    <3>1. counts \in [Buckets -> Nat]
      OBVIOUS
    <3>2. \A q \in {50, 95, 99} : Percentile(counts, q) \in Buckets
      BY <3>1, PercentileType, Zenon
    <3> QED BY <2>2, <3>2
  <2>4. pct' \in [1..3 -> 0..NBuckets]
    <3>1. PICK p \in 0..NBuckets : p = Percentile(counts, Quantiles[at])
      BY <2>3, MetricsAssumption DEF Buckets
    <3>2. pct' = [pct EXCEPT ![at] = p] /\ pct \in [1..3 -> 0..NBuckets]
      BY <2>1, <3>1
    <3> QED BY <3>2
  <2>5. at' \in Nat /\ tick' \in {"store", "swap"}
    BY <2>1
  <2> QED BY <2>1, <2>4, <2>5
<1>5. CASE SwapWindow
  <2>1. PICK k \in Kinds :
          /\ published' = [published EXCEPT ![k] = @ + window[k]]
          /\ window' = [window EXCEPT ![k] = 0]
          /\ tick = "swap" /\ (IF at = 1 THEN at' = 2 /\ tick' = tick ELSE at' = 1 /\ tick' = "check")
          /\ UNCHANGED <<buckets, pct, counts, total, rec>>
    BY <1>5 DEF SwapWindow, Kinds
  <2>2. published' \in [Kinds -> Nat] /\ window' \in [Kinds -> Nat]
    BY <2>1
  <2>3. at' \in Nat /\ tick' \in {"swap", "check"}
    BY <2>1
  <2> QED BY <2>1, <2>2, <2>3
<1> QED BY <1>1, <1>2, <1>3, <1>4, <1>5 DEF Compute

LEMMA MetricsStay ==
    ASSUME MetricsTypeOK, TickerOK, RequestOK, Next
    PROVE  MetricsTypeOK'
<1>1. CASE UNCHANGED metricsVars
  BY <1>1 DEF MetricsTypeOK, metricsVars
<1>2. CASE UNCHANGED <<total, window, buckets, pct, rec, at, counts, published>> /\ tick' = "check"
  BY <1>2 DEF MetricsTypeOK
<1>3. CASE TickerLoop \/ Compute
  BY <1>3, TickerTypes
<1>4. CASE /\ asked.got.route \in Kinds /\ rec.pc = "idle"
           /\ \E b \in Buckets : rec' = [pc |-> "total", kind |-> asked.got.route, bucket |-> b]
           /\ UNCHANGED <<total, window, buckets, pct, published, tickerVars>>
  BY <1>4 DEF MetricsTypeOK, tickerVars
<1>5. CASE Record
  BY <1>5, RecordMoves
<1> QED BY <1>1, <1>2, <1>3, <1>4, <1>5, MetricsSteps

LEMMA ControlInit == Init => Control
<1> SUFFICES ASSUME Init PROVE Control
  OBVIOUS
<1> USE DEF Init, MetricsInit, ApiInit
<1>1. MetricsTypeOK
  <2>1. NoCounts \in [Buckets -> Nat]
    BY DEF NoCounts
  <2>2. rec \in [pc : {"idle", "total", "window", "bucket"}, kind : Kinds, bucket : Buckets]
    BY MetricsAssumption DEF NoRecord, Kinds, Buckets
  <2>3. pct \in [1..3 -> 0..NBuckets]
    BY MetricsAssumption
  <2> QED BY <2>1, <2>2, <2>3 DEF MetricsTypeOK
<1>2. ThreadsOK
  <2>1. backlog \in Seq(Clients)
    BY EmptySeq
  <2>2. ThreadsTypeOK
    <3>1. running \in BOOLEAN
      BY Zenon
    <3>2. client \in [Clients -> {"out", "connected", "sent", "left", "answered", "dropped"}]
      BY Zenon
    <3> QED BY <2>1, <3>1, <3>2 DEF ThreadsTypeOK
  <2>3. TickerOK /\ StopsOK /\ SocketOK
    BY DEF TickerOK, StopsOK, SocketOK
  <2> QED BY <2>2, <2>3 DEF ThreadsOK
<1>3. RequestOK
  <2>1. AskedOK
    BY ApiAssumption DEF AskedOK, NoAsk, Routes, Posts, None
  <2>2. ReplyOK
    BY ApiAssumption, EmptySeq DEF ReplyOK, NoReply, Replies, Shards, None, Posts
  <2>3. 0 \in Shards
    BY ApiAssumption DEF Shards
  <2>4. HandlerOK
    BY <2>3 DEF HandlerOK, StepsLeft, NoReply, NoRecord
  <2>5. ContentsOK
    BY ApiAssumption, EmptySeq DEF ContentsOK
  <2> QED BY <2>1, <2>2, <2>4, <2>5 DEF RequestOK
<1> QED BY <1>1, <1>2, <1>3 DEF Control

LEMMA ControlStep == Control /\ [Next]_vars => Control'
<1> SUFFICES ASSUME Control, [Next]_vars PROVE Control'
  OBVIOUS
<1> USE DEF Control
<1>1. CASE Next
  <2>1. ThreadsOK'
    BY <1>1, ThreadsStay
  <2>2. MetricsTypeOK' /\ RequestOK'
    BY <1>1, MetricsStay, RequestStays DEF ThreadsOK
  <2> QED BY <2>1, <2>2
<1>2. CASE UNCHANGED vars
  <2>1. MetricsTypeOK'
    BY <1>2 DEF MetricsTypeOK, vars, dataVars, metricsVars
  <2>2. ThreadsOK'
    BY <1>2 DEF ThreadsOK, ThreadsTypeOK, TickerOK, StopsOK, SocketOK, vars, dataVars, metricsVars,
       mainVars, serverVars, netVars
  <2>3. RequestOK'
    BY <1>2 DEF RequestOK, AskedOK, ReplyOK, HandlerOK, ContentsOK, vars, dataVars, metricsVars,
       apiVars, handlerVars, serverVars
  <2> QED BY <2>1, <2>2, <2>3
<1> QED BY <1>1, <1>2

\* Control is inductive: where each thread is, what it holds and what it has started.
THEOREM HttpInductive == Spec => []Control
BY ControlInit, ControlStep, PTL DEF Spec

LEMMA StepListTypes == \A kind : StepsLeft(kind) \subseteq Seq(Steps)
<1> SUFFICES ASSUME NEW kind PROVE StepsLeft(kind) \subseteq Seq(Steps)
  OBVIOUS
<1>1. CASE kind = "insert"
  BY <1>1 DEF StepsLeft, Steps
<1>2. CASE kind = "search"
  BY <1>2 DEF StepsLeft, Steps
<1>3. CASE kind = "info"
  BY <1>3 DEF StepsLeft, Steps
<1>4. CASE kind = "metrics"
  BY <1>4 DEF StepsLeft, Steps
<1>5. CASE kind \notin {"insert", "search", "info", "metrics"}
  BY <1>5, EmptySeq DEF StepsLeft
<1> QED BY <1>1, <1>2, <1>3, <1>4, <1>5

LEMMA ControlTypes == Control => TypeOK /\ NothingOutlivesServer
<1> SUFFICES ASSUME Control PROVE TypeOK /\ NothingOutlivesServer
  OBVIOUS
<1> USE DEF Control
<1>1. \A s \in Shards : \A k \in DOMAIN contents[s] :
        contents[s][k].id \in Nat /\ Len(contents[s][k].vector) = Dim
  <2> SUFFICES ASSUME NEW s \in Shards, NEW k \in DOMAIN contents[s]
               PROVE  contents[s][k].id \in Nat /\ Len(contents[s][k].vector) = Dim
    OBVIOUS
  <2>1. contents[s] \in Seq(Entries)
    BY DEF RequestOK, ContentsOK
  <2>2. contents[s][k] \in Entries
    BY <2>1, ElementOfSeq, LenProperties
  <2> QED BY <2>2, ApiAssumption DEF Entries, Ids, Vectors
<1>2. ApiTypeOK
  BY <1>1, StepListTypes DEF RequestOK, AskedOK, ReplyOK, HandlerOK, ContentsOK, ApiTypeOK, Replies
<1>3. TypeOK
  BY <1>2 DEF TypeOK, ThreadsOK
<1>4. main = "gone" => server = "ended" /\ tick \in {"none", "ended"} /\ sock \in {"none", "closed"}
  BY DEF ThreadsOK, ThreadsTypeOK, TickerOK, StopsOK, SocketOK
<1>5. server = "ended" => rec.pc = "idle"
  BY DEF RequestOK, HandlerOK
<1> QED BY <1>3, <1>4, <1>5 DEF NothingOutlivesServer

\* Every variable keeps its type: no index, counter or list of the server is ever
\* outside its range, whatever part of a request arrives.
THEOREM HttpTypeCorrect == Spec => []TypeOK
BY HttpInductive, ControlTypes, PTL

\* When main is through with the server its thread and the ticker have ended, nothing
\* is being recorded and the socket is closed, whenever stop() came.
THEOREM HttpNothingOutlives == Spec => []NothingOutlivesServer
BY HttpInductive, ControlTypes, PTL

-----------------------------------------------------------------------------
(* Nothing is counted twice, or not at all                                  *)

LEMMA BucketsSum ==
    ASSUME NEW c \in [Buckets -> Nat]
    PROVE  /\ SumFunction(c) = SumFunctionOnSet(c, Buckets) /\ SumFunction(c) \in Nat
           /\ IsFiniteSet(Buckets)
<1>1. IsFiniteSet(Buckets)
  BY FS_Interval, MetricsAssumption DEF Buckets
<1>2. SumFunction(c) = SumFunctionOnSet(c, Buckets)
  BY DEF SumFunction
<1>3. \A x \in Buckets : c[x] \in Nat
  OBVIOUS
<1> QED BY <1>1, <1>2, <1>3, SumFacts

\* One more in a bucket is one more in all.
LEMMA BucketsBump ==
    ASSUME NEW c \in [Buckets -> Nat], NEW i \in Buckets
    PROVE  SumFunction([c EXCEPT ![i] = @ + 1]) = SumFunction(c) + 1
<1> DEFINE d == [c EXCEPT ![i] = @ + 1]
<1>1. d \in [Buckets -> Nat] /\ d[i] = c[i] + 1 /\ \A x \in Buckets \ {i} : d[x] = c[x]
  OBVIOUS
<1> HIDE DEF d
<1>2. /\ SumFunction(c) = SumFunctionOnSet(c, Buckets) /\ IsFiniteSet(Buckets)
      /\ SumFunction(d) = SumFunctionOnSet(d, Buckets)
  BY <1>1, BucketsSum
<1>3. \A x \in Buckets : c[x] \in Nat
  OBVIOUS
<1>4. SumFunctionOnSet(d, Buckets) = SumFunctionOnSet(c, Buckets) + 1
  BY <1>1, <1>2, <1>3, SumBump
<1> QED BY <1>2, <1>4 DEF d

\* The ticker moves counts from the windows to what is published.
LEMMA TickerCounts ==
    ASSUME MetricsTypeOK, TickerOK, TickerLoop \/ Compute
    PROVE  /\ UNCHANGED <<total, buckets, rec>>
           /\ \A k \in Kinds : published'[k] + window'[k] = published[k] + window[k]
<1>1. CASE SwapWindow
  <2>1. PICK k \in Kinds :
          /\ published' = [published EXCEPT ![k] = @ + window[k]]
          /\ window' = [window EXCEPT ![k] = 0]
          /\ UNCHANGED <<total, buckets, rec>>
    BY <1>1 DEF SwapWindow, Kinds, recordVars
  <2>2. published \in [Kinds -> Nat] /\ window \in [Kinds -> Nat]
    BY DEF MetricsTypeOK
  <2>3. /\ published'[k] = published[k] + window[k] /\ window'[k] = 0
        /\ \A j \in Kinds \ {k} : published'[j] = published[j] /\ window'[j] = window[j]
    BY <2>1, <2>2
  <2>4. \A j \in Kinds : published[j] \in Nat /\ window[j] \in Nat
    BY <2>2
  <2> QED BY <2>1, <2>3, <2>4
<1>2. CASE TickerLoop \/ StartCompute \/ CountBucket \/ StorePercentile
  BY <1>2 DEF TickerLoop, StartCompute, CountBucket, StorePercentile, recordVars
<1> QED BY <1>1, <1>2 DEF Compute

LEMMA CountsStep ==
    ASSUME Control, RecordOK, CountsAddUp, Next
    PROVE  RecordOK' /\ CountsAddUp'
<1>0. /\ total \in [Kinds -> Nat] /\ window \in [Kinds -> Nat] /\ published \in [Kinds -> Nat]
      /\ buckets \in [Buckets -> Nat]
      /\ rec \in [pc : {"idle", "total", "window", "bucket"}, kind : Kinds, bucket : Buckets]
  BY DEF Control, MetricsTypeOK
<1>T. /\ \A k \in Kinds : total[k] \in Nat /\ window[k] \in Nat /\ published[k] \in Nat
      /\ "search" \in Kinds /\ SumFunction(buckets) \in Nat
  BY <1>0, BucketsSum DEF Kinds
<1>1. CASE UNCHANGED <<total, buckets, rec>>
           /\ \A k \in Kinds : published'[k] + window'[k] = published[k] + window[k]
           /\ MetricsTypeOK'
  <2>1. \A k \in Kinds : window'[k] \in Nat /\ published'[k] \in Nat
    BY <1>1 DEF MetricsTypeOK
  <2>2. RecordOK'
    BY <1>1 DEF RecordOK
  <2>3. ASSUME NEW k \in Kinds
        PROVE  total'[k] = published'[k] + window'[k]
                    + (IF rec'.kind = k /\ rec'.pc = "window" THEN 1 ELSE 0)
    <3>1. total[k] = published[k] + window[k] + (IF rec.kind = k /\ rec.pc = "window" THEN 1 ELSE 0)
      BY DEF CountsAddUp
    <3> QED BY <1>1, <3>1
  <2>4. total'["search"] = SumFunction(buckets')
         + (IF rec'.kind = "search" /\ rec'.pc \in {"window", "bucket"} THEN 1 ELSE 0)
    BY <1>1 DEF CountsAddUp
  <2> QED BY <2>2, <2>3, <2>4 DEF CountsAddUp
<1>2. CASE rec.pc = "idle" /\ UNCHANGED <<total, window, buckets, published>>
           /\ \E b \in Buckets : rec' = [pc |-> "total", kind |-> asked.got.route, bucket |-> b]
  <2>1. rec'.pc = "total"
    BY <1>2
  <2> QED BY <1>2, <2>1 DEF RecordOK, CountsAddUp
<1>3. CASE RecordTotal
  <2>1. /\ rec.pc = "total" /\ total' = [total EXCEPT ![rec.kind] = @ + 1]
        /\ rec' = [rec EXCEPT !.pc = "window"] /\ UNCHANGED <<window, buckets, published>>
    BY <1>3 DEF RecordTotal
  <2>2. rec'.pc = "window" /\ rec'.kind = rec.kind /\ rec.kind \in Kinds
    BY <1>0, <2>1
  <2>3. total'[rec.kind] = total[rec.kind] + 1 /\ \A k \in Kinds : k # rec.kind => total'[k] = total[k]
    BY <1>0, <2>1
  <2>4. RecordOK'
    BY <2>2 DEF RecordOK
  <2>5. \A k \in Kinds : total[k] = published[k] + window[k]
    BY <1>T, <2>1 DEF CountsAddUp
  <2>6. total["search"] = SumFunction(buckets)
    BY <1>T, <2>1 DEF CountsAddUp
  <2>7. \A k \in Kinds : total'[k] = published'[k] + window'[k]
                    + (IF rec'.kind = k /\ rec'.pc = "window" THEN 1 ELSE 0)
    BY <1>T, <2>1, <2>2, <2>3, <2>5
  <2>8. total'["search"] = SumFunction(buckets')
         + (IF rec'.kind = "search" /\ rec'.pc \in {"window", "bucket"} THEN 1 ELSE 0)
    BY <1>T, <2>1, <2>2, <2>3, <2>6
  <2> QED BY <2>4, <2>7, <2>8 DEF CountsAddUp
<1>4. CASE RecordWindow
  <2>1. /\ rec.pc = "window" /\ window' = [window EXCEPT ![rec.kind] = @ + 1]
        /\ rec' = IF rec.kind = "search" THEN [rec EXCEPT !.pc = "bucket"] ELSE NoRecord
        /\ UNCHANGED <<total, buckets, published>>
    BY <1>4 DEF RecordWindow
  <2>2. /\ rec.kind \in Kinds /\ rec'.pc \in {"bucket", "idle"} /\ rec'.kind = rec.kind
        /\ rec'.pc = "bucket" <=> rec.kind = "search"
    BY <1>0, <2>1 DEF NoRecord, Kinds
  <2>3. window'[rec.kind] = window[rec.kind] + 1 /\ \A k \in Kinds : k # rec.kind => window'[k] = window[k]
    BY <1>0, <2>1
  <2>4. RecordOK'
    BY <2>2 DEF RecordOK
  <2>5. \A k \in Kinds : total[k] = published[k] + window[k] + (IF rec.kind = k THEN 1 ELSE 0)
    BY <1>T, <2>1 DEF CountsAddUp
  <2>6. total["search"] = SumFunction(buckets) + (IF rec.kind = "search" THEN 1 ELSE 0)
    BY <1>T, <2>1 DEF CountsAddUp
  <2>7. \A k \in Kinds : total'[k] = published'[k] + window'[k]
                    + (IF rec'.kind = k /\ rec'.pc = "window" THEN 1 ELSE 0)
    BY <1>T, <2>1, <2>2, <2>3, <2>5
  <2>8. total'["search"] = SumFunction(buckets')
         + (IF rec'.kind = "search" /\ rec'.pc \in {"window", "bucket"} THEN 1 ELSE 0)
    BY <1>T, <2>1, <2>2, <2>6
  <2> QED BY <2>4, <2>7, <2>8 DEF CountsAddUp
<1>5. CASE RecordBucket
  <2>1. /\ rec.pc = "bucket" /\ buckets' = [buckets EXCEPT ![rec.bucket] = @ + 1]
        /\ rec' = NoRecord /\ UNCHANGED <<total, window, published>>
    BY <1>5 DEF RecordBucket
  <2>2. rec.kind = "search" /\ rec.bucket \in Buckets /\ rec'.pc = "idle" /\ rec'.kind = "insert"
    BY <1>0, <2>1 DEF RecordOK, Kinds, NoRecord
  <2>3. SumFunction(buckets') = SumFunction(buckets) + 1
    BY <1>0, <2>1, <2>2, BucketsBump
  <2>4. RecordOK'
    BY <2>2 DEF RecordOK
  <2>5. \A k \in Kinds : total'[k] = published'[k] + window'[k]
                    + (IF rec'.kind = k /\ rec'.pc = "window" THEN 1 ELSE 0)
    BY <1>T, <2>1, <2>2 DEF CountsAddUp
  <2>6. total["search"] = SumFunction(buckets) + 1
    BY <1>T, <2>1, <2>2 DEF CountsAddUp
  <2>7. total'["search"] = SumFunction(buckets')
         + (IF rec'.kind = "search" /\ rec'.pc \in {"window", "bucket"} THEN 1 ELSE 0)
    BY <1>T, <2>1, <2>2, <2>3, <2>6
  <2> QED BY <2>4, <2>5, <2>7 DEF CountsAddUp
<1>6. CASE TickerLoop \/ Compute
  <2>1. MetricsTypeOK'
    BY <1>6, TickerTypes DEF Control, ThreadsOK
  <2>2. UNCHANGED <<total, buckets, rec>>
        /\ \A k \in Kinds : published'[k] + window'[k] = published[k] + window[k]
    BY <1>6, TickerCounts DEF Control, ThreadsOK
  <2> QED BY <1>1, <2>1, <2>2
<1>7. CASE UNCHANGED <<total, window, buckets, rec, published>>
  BY <1>7 DEF RecordOK, CountsAddUp
<1> QED BY <1>2, <1>3, <1>4, <1>5, <1>6, <1>7, MetricsSteps DEF Control, Record, metricsVars

-----------------------------------------------------------------------------
(* The percentiles are those of searches that were made                     *)

LEMMA StoreMoves ==
    ASSUME MetricsTypeOK, TickerOK, CopyOK, StorePercentile
    PROVE  CopyOK' /\ PercentilesSound'
<1>1. /\ tick = "store" /\ pct' = [pct EXCEPT ![at] = Percentile(counts, Quantiles[at])]
      /\ IF at < 3 THEN at' = at + 1 /\ tick' = tick ELSE at' = 1 /\ tick' = "swap"
      /\ UNCHANGED <<buckets, counts>>
  BY Zenon DEF StorePercentile
<1>2. /\ at \in 1..3 /\ counts \in [Buckets -> Nat] /\ buckets \in [Buckets -> Nat]
      /\ pct \in [1..3 -> 0..NBuckets]
      /\ \A b \in Buckets : counts[b] <= buckets[b]
      /\ SumFunction(counts) > 0
      /\ \A i \in 1..3 : i < at => pct[i] = Percentile(counts, Quantiles[i])
  BY <1>1 DEF TickerOK, CopyOK, MetricsTypeOK
<1>3. /\ pct'[at] = Percentile(counts, Quantiles[at])
      /\ \A i \in 1..3 : i # at => pct'[i] = pct[i]
  BY <1>1, <1>2
<1>4. \A i \in 1..3 : i <= at => pct'[i] = Percentile(counts, Quantiles[i])
  BY <1>2, <1>3
<1>5. CopyOK'
  BY <1>1, <1>2, <1>4 DEF CopyOK
<1>6. ASSUME at = 3 PROVE PercentilesSound'
  <2>1. \A i \in 1..3 : pct'[i] = Percentile(counts, Quantiles[i]) /\ Quantiles[i] \in {50, 95, 99}
    BY <1>4, <1>6 DEF Quantiles
  <2>2. pct'[1] <= pct'[2] /\ pct'[2] <= pct'[3]
    <3>1. Percentile(counts, 50) <= Percentile(counts, 95) /\ Percentile(counts, 95) <= Percentile(counts, 99)
      BY <1>2, PercentileOrder
    <3> QED BY <2>1, <3>1 DEF Quantiles
  <2>3. ASSUME NEW i \in 1..3 PROVE buckets'[pct'[i]] > 0
    <3>1. PICK q \in {50, 95, 99} : pct'[i] = Percentile(counts, q)
      BY <2>1
    <3>2. Percentile(counts, q) \in Buckets /\ counts[Percentile(counts, q)] > 0
      <4>1. counts \in [Buckets -> Nat] /\ SumFunction(counts) > 0
        BY <1>2
      <4>2. \A p \in {50, 95, 99} :
              SumFunction(counts) > 0 => Percentile(counts, p) \in Buckets /\ counts[Percentile(counts, p)] > 0
        BY <4>1, PercentileHit, Zenon
      <4>3. q \in {50, 95, 99}
        OBVIOUS
      <4> QED BY <4>1, <4>2, <4>3
    <3>3. buckets' = buckets
      BY <1>1
    <3>4. PICK p \in Buckets : p = Percentile(counts, q)
      BY <3>2
    <3>5. counts[p] > 0 /\ counts[p] <= buckets[p] /\ counts[p] \in Nat /\ buckets[p] \in Nat
      BY <1>2, <3>2, <3>4
    <3>6. buckets[p] > 0
      BY <3>5
    <3> QED BY <3>1, <3>3, <3>4, <3>6
  <2> QED BY <2>2, <2>3 DEF PercentilesSound
<1>7. ASSUME at # 3 PROVE PercentilesSound'
  BY <1>1, <1>2, <1>7 DEF PercentilesSound
<1> QED BY <1>5, <1>6, <1>7

LEMMA CountMoves ==
    ASSUME MetricsTypeOK, TickerOK, CopyOK, PercentilesSound, CountBucket
    PROVE  CopyOK' /\ PercentilesSound'
<1>1. /\ tick = "count" /\ counts' = [counts EXCEPT ![at] = buckets[at]]
      /\ UNCHANGED <<buckets, pct>>
      /\ IF at < NBuckets THEN at' = at + 1 /\ tick' = tick
         ELSE at' = 1 /\ tick' = IF SumFunction(counts') > 0 THEN "store" ELSE "swap"
  BY Zenon DEF CountBucket
<1>2. /\ at \in Buckets /\ counts \in [Buckets -> Nat] /\ buckets \in [Buckets -> Nat]
      /\ \A b \in Buckets : counts[b] <= buckets[b] /\ (b >= at => counts[b] = 0)
  BY <1>1 DEF TickerOK, CopyOK, MetricsTypeOK
<1>3. /\ \A b \in Buckets : counts'[b] <= buckets'[b]
      /\ \A b \in Buckets : b >= at + 1 => counts'[b] = 0
  BY <1>1, <1>2, MetricsAssumption DEF Buckets
<1>4. tick' = "store" => at' = 1 /\ SumFunction(counts') > 0
  BY <1>1
<1>5. tick' = "count" => at' = at + 1
  BY <1>1
<1>6. \A i \in 1..3 : ~(i < 1)
  OBVIOUS
<1>7. CopyOK'
  BY <1>3, <1>4, <1>5, <1>6 DEF CopyOK
<1>8. PercentilesSound'
  BY <1>1 DEF PercentilesSound
<1> QED BY <1>7, <1>8

LEMMA CopyStep ==
    ASSUME Control, RecordOK, CopyOK, PercentilesSound, Next
    PROVE  CopyOK' /\ PercentilesSound'
<1>0. /\ MetricsTypeOK /\ TickerOK /\ RequestOK
      /\ buckets \in [Buckets -> Nat] /\ counts \in [Buckets -> Nat] /\ pct \in [1..3 -> 0..NBuckets]
  BY DEF Control, ThreadsOK, MetricsTypeOK
<1>1. CASE UNCHANGED <<buckets, counts, pct, tick, at>>
  BY <1>1 DEF CopyOK, PercentilesSound
<1>2. CASE UNCHANGED <<buckets, counts, pct>> /\ tick # "store" /\ tick' \notin {"count", "store"}
  BY <1>2 DEF CopyOK, PercentilesSound
<1>3. CASE StartCompute
  <2>1. tick = "sleep" /\ tick' = "count" /\ counts' = NoCounts /\ UNCHANGED <<buckets, pct>>
    BY <1>3 DEF StartCompute
  <2>2. \A b \in Buckets : counts'[b] = 0 /\ buckets'[b] \in Nat
    BY <1>0, <2>1 DEF NoCounts
  <2> QED BY <2>1, <2>2 DEF CopyOK, PercentilesSound
<1>4. CASE RecordBucket
  <2>1. /\ rec.bucket \in Buckets /\ buckets' = [buckets EXCEPT ![rec.bucket] = @ + 1]
        /\ UNCHANGED <<pct, counts, tick, at>>
    BY <1>4, <1>0 DEF RecordBucket, MetricsTypeOK, tickerVars
  <2>2. \A b \in Buckets : buckets'[b] \in Nat /\ buckets'[b] >= buckets[b] /\ counts[b] \in Nat /\ buckets[b] \in Nat
    BY <1>0, <2>1
  <2>3. CopyOK'
    BY <2>1, <2>2 DEF CopyOK
  <2>4. PercentilesSound'
    <3> SUFFICES ASSUME tick # "store", pct[1] # 0
                 PROVE  /\ pct[1] <= pct[2] /\ pct[2] <= pct[3]
                        /\ \A i \in 1..3 : buckets'[pct[i]] > 0
      BY <2>1 DEF PercentilesSound
    <3>1. pct[1] <= pct[2] /\ pct[2] <= pct[3] /\ \A i \in 1..3 : buckets[pct[i]] > 0
      BY DEF PercentilesSound
    <3>2. \A i \in 1..3 : pct[i] \in Buckets
      <4>1. pct[1] \in 0..NBuckets /\ pct[2] \in 0..NBuckets /\ pct[3] \in 0..NBuckets
        BY <1>0
      <4>2. pct[1] >= 1 /\ pct[2] >= 1 /\ pct[3] >= 1
        BY <3>1, <4>1, MetricsAssumption
      <4>3. pct[1] \in Buckets /\ pct[2] \in Buckets /\ pct[3] \in Buckets
        BY <4>1, <4>2, MetricsAssumption DEF Buckets
      <4> QED BY <4>3
    <3> QED BY <2>2, <3>1, <3>2
  <2> QED BY <2>3, <2>4
<1>5. CASE RecordTotal \/ RecordWindow
  BY <1>1, <1>5 DEF RecordTotal, RecordWindow, tickerVars
<1>6. CASE TickerLoop \/ SwapWindow
  <2>1. /\ UNCHANGED <<buckets, counts, pct>> /\ tick # "store" /\ tick' \notin {"count", "store"}
    BY <1>6 DEF TickerLoop, SwapWindow
  <2> QED BY <2>1, <1>2
<1>7. CASE CountBucket
  BY <1>0, <1>7, CountMoves
<1>8. CASE StorePercentile
  BY <1>0, <1>8, StoreMoves
<1>9. CASE UNCHANGED metricsVars
  BY <1>1, <1>9 DEF metricsVars
<1>10. CASE /\ server = "spawn" /\ tick' = "check"
            /\ UNCHANGED <<total, window, buckets, pct, rec, at, counts, published>>
  <2>1. tick = "none"
    BY <1>0, <1>10 DEF TickerOK
  <2> QED BY <1>2, <1>10, <2>1
<1>11. CASE UNCHANGED <<total, window, buckets, pct, published, tickerVars>>
  BY <1>1, <1>11 DEF tickerVars
<1> QED BY <1>0, <1>3, <1>4, <1>5, <1>6, <1>7, <1>8, <1>9, <1>10, <1>11, MetricsSteps DEF Record, Compute

LEMMA CountedInit == Init => Counted
<1> SUFFICES ASSUME Init PROVE Counted
  OBVIOUS
<1>1. Control
  BY ControlInit
<1>2. /\ total = [k \in Kinds |-> 0] /\ window = total /\ published = total
      /\ buckets = NoCounts /\ pct = <<0, 0, 0>> /\ rec = NoRecord /\ tick = "none"
  BY DEF Init, MetricsInit
<1>3. SumFunction(NoCounts) = 0
  <2>1. NoCounts \in [Buckets -> Nat] /\ \A b \in Buckets : NoCounts[b] = 0
    BY DEF NoCounts
  <2>2. IsFiniteSet(Buckets) /\ SumFunction(NoCounts) = SumFunctionOnSet(NoCounts, Buckets)
    BY <2>1, BucketsSum
  <2> QED BY <2>1, <2>2, SumZero
<1>4. CountsAddUp
  BY <1>2, <1>3 DEF CountsAddUp, NoRecord, Kinds
<1>5. RecordOK /\ CopyOK /\ PercentilesSound
  BY <1>2 DEF RecordOK, CopyOK, PercentilesSound, NoRecord
<1> QED BY <1>1, <1>4, <1>5 DEF Counted

LEMMA CountedStep == Counted /\ [Next]_vars => Counted'
<1> SUFFICES ASSUME Counted, [Next]_vars PROVE Counted'
  OBVIOUS
<1> USE DEF Counted
<1>1. Control'
  BY ControlStep
<1>2. CASE Next
  <2>1. RecordOK' /\ CountsAddUp'
    BY <1>2, CountsStep
  <2>2. CopyOK' /\ PercentilesSound'
    BY <1>2, CopyStep
  <2> QED BY <1>1, <2>1, <2>2
<1>3. CASE UNCHANGED vars
  BY <1>1, <1>3 DEF vars, dataVars, metricsVars, RecordOK, CountsAddUp, CopyOK, PercentilesSound
<1> QED BY <1>2, <1>3

\* What the handlers add and the ticker takes, bucket by bucket and counter by counter,
\* adds up: no request is published twice and none is lost, wherever both threads are.
THEOREM HttpCountsAddUp == Spec => []CountsAddUp
<1>1. Counted => CountsAddUp
  BY DEF Counted
<1> QED BY <1>1, CountedInit, CountedStep, PTL DEF Spec

\* The three percentiles that are shown are in order, and each is the bucket of a
\* search that was made, though the buckets grow while the ticker reads them.
THEOREM HttpPercentilesSound == Spec => []PercentilesSound
<1>1. Counted => PercentilesSound
  BY DEF Counted
<1> QED BY <1>1, CountedInit, CountedStep, PTL DEF Spec

-----------------------------------------------------------------------------
(* The sums of the loops over the shards                                    *)

\* The loops' sums: shard after shard, what is before it grows by what is in it, and
\* what is from it on shrinks.
LEMMA LengthFacts ==
    ASSUME ContentsOK
    PROVE  /\ Before(0) = 0 /\ From(ShardCount) = 0 /\ From(0) = Before(ShardCount)
           /\ \A n \in 0..ShardCount : Before(n) \in Nat /\ From(n) \in Nat
           /\ \A n \in Shards : /\ Len(contents[n]) \in Nat
                                /\ Before(n + 1) = Before(n) + Len(contents[n])
                                /\ From(n) = Len(contents[n]) + From(n + 1)
<1>1. \A n \in Shards : Lengths[n] = Len(contents[n]) /\ Lengths[n] \in Nat
  BY LenProperties DEF Lengths, ContentsOK
<1>2. ShardCount \in Nat /\ ShardCount > 0
  BY ApiAssumption
<1>3. ASSUME NEW n \in 0..ShardCount PROVE Before(n) \in Nat /\ From(n) \in Nat
  <2>1. /\ 0 \in Int /\ n \in Int /\ n - 1 \in Int /\ ShardCount - 1 \in Int
        /\ \A x \in 0..(n - 1) : Lengths[x] \in Nat
        /\ \A x \in n..(ShardCount - 1) : Lengths[x] \in Nat
    BY <1>1, <1>2 DEF Shards
  <2> QED BY <2>1, SumInterval DEF Before, From
<1>4. Before(0) = 0
  <2>1. 0 \in Int /\ 0 - 1 \in Int /\ 0 > 0 - 1 /\ \A x \in 0..(0 - 1) : Lengths[x] \in Nat
    OBVIOUS
  <2> QED BY <2>1, SumInterval DEF Before
<1>5. From(ShardCount) = 0
  <2>1. /\ ShardCount \in Int /\ ShardCount - 1 \in Int /\ ShardCount > ShardCount - 1
        /\ \A x \in ShardCount..(ShardCount - 1) : Lengths[x] \in Nat
    BY <1>2
  <2> QED BY <2>1, SumInterval DEF From
<1>6. ASSUME NEW n \in Shards
      PROVE  /\ Before(n + 1) = Before(n) + Len(contents[n])
             /\ From(n) = Len(contents[n]) + From(n + 1)
  <2>1. /\ 0 \in Int /\ n \in Int /\ ShardCount - 1 \in Int /\ 0 <= n /\ n <= ShardCount - 1
        /\ \A x \in 0..n : Lengths[x] \in Nat
        /\ \A x \in n..(ShardCount - 1) : Lengths[x] \in Nat
        /\ (n + 1) - 1 = n
    BY <1>1, <1>2 DEF Shards
  <2>2. SumFunctionOnSet(Lengths, 0..n) = SumFunctionOnSet(Lengths, 0..(n - 1)) + Lengths[n]
    BY <2>1, SumInterval
  <2>3. SumFunctionOnSet(Lengths, n..(ShardCount - 1))
          = Lengths[n] + SumFunctionOnSet(Lengths, (n + 1)..(ShardCount - 1))
    BY <2>1, SumInterval
  <2> QED BY <1>1, <2>1, <2>2, <2>3 DEF Before, From
<1>7. From(0) = Before(ShardCount)
  BY DEF From, Before
<1> QED BY <1>1, <1>3, <1>4, <1>5, <1>6, <1>7

LEMMA SameLengths ==
    ASSUME contents' = contents
    PROVE  /\ Before(ShardCount)' = Before(ShardCount)
           /\ Before(loop)' = Before(loop') /\ From(loop)' = From(loop')
           /\ AutoBelow(Before(ShardCount))' <=> AutoBelow(Before(ShardCount))
           /\ AutoBelow(SoFar + From(loop))' <=> AutoBelow(SoFar' + From(loop)')
           /\ AutoBelow(reply.total)' <=> AutoBelow(reply'.total)
<1>1. Lengths' = Lengths
  BY DEF Lengths
<1>2. /\ Before(ShardCount)' = Before(ShardCount)
      /\ Before(loop)' = Before(loop') /\ From(loop)' = From(loop')
  BY <1>1 DEF Before, From
<1>3. AutoBelow(Before(ShardCount))' <=> AutoBelow(Before(ShardCount))
  BY <1>2 DEF AutoBelow
<1>4. AutoBelow(SoFar + From(loop))' <=> AutoBelow(SoFar' + From(loop)')
  BY DEF AutoBelow
<1>5. AutoBelow(reply.total)' <=> AutoBelow(reply'.total)
  BY DEF AutoBelow
<1> QED BY <1>2, <1>3, <1>4, <1>5

\* A vector that is stored is counted once, before every later shard.
LEMMA StoreCounts ==
    ASSUME ContentsOK, NEW s \in Shards, NEW e \in Entries,
           contents' = [contents EXCEPT ![s] = Append(@, e)]
    PROVE  \A n \in 0..ShardCount :
             /\ Before(n)' = Before(n) + (IF s < n THEN 1 ELSE 0)
             /\ From(n)' = From(n) + (IF s < n THEN 0 ELSE 1)
<1>1. \A n \in Shards : Lengths[n] = Len(contents[n]) /\ Lengths[n] \in Nat
  BY LenProperties DEF Lengths, ContentsOK
<1>2. Lengths'[s] = Lengths[s] + 1 /\ \A x \in Shards \ {s} : Lengths'[x] = Lengths[x]
  BY StoreFacts DEF Lengths
<1>3. ASSUME NEW S \in SUBSET Shards, IsFiniteSet(S)
      PROVE  /\ SumFunctionOnSet(Lengths, S) \in Nat
             /\ s \in S => SumFunctionOnSet(Lengths', S) = SumFunctionOnSet(Lengths, S) + 1
             /\ s \notin S => SumFunctionOnSet(Lengths', S) = SumFunctionOnSet(Lengths, S)
  <2>1. \A x \in S : Lengths[x] \in Nat
    BY <1>1
  <2>2. ASSUME s \in S PROVE SumFunctionOnSet(Lengths', S) = SumFunctionOnSet(Lengths, S) + 1
    <3>1. \A x \in S \ {s} : Lengths'[x] = Lengths[x]
      BY <1>2
    <3> QED BY <1>2, <1>3, <2>1, <2>2, <3>1, SumBump
  <2>3. ASSUME s \notin S PROVE SumFunctionOnSet(Lengths', S) = SumFunctionOnSet(Lengths, S)
    <3>1. \A x \in S : Lengths[x] \in Nat /\ Lengths'[x] = Lengths[x]
      BY <1>2, <2>1, <2>3
    <3> QED BY <1>3, <3>1, SumSame
  <2> QED BY <1>3, <2>1, <2>2, <2>3, SumFacts
<1>4. ASSUME NEW n \in 0..ShardCount
      PROVE  /\ Before(n)' = Before(n) + (IF s < n THEN 1 ELSE 0)
             /\ From(n)' = From(n) + (IF s < n THEN 0 ELSE 1)
  <2>1. /\ 0..(n - 1) \in SUBSET Shards /\ n..(ShardCount - 1) \in SUBSET Shards
        /\ s \in 0..(n - 1) <=> s < n
        /\ s \in n..(ShardCount - 1) <=> ~(s < n)
    BY ApiAssumption DEF Shards
  <2>2. IsFiniteSet(0..(n - 1)) /\ IsFiniteSet(n..(ShardCount - 1))
    BY FS_Interval, ApiAssumption
  <2>3. /\ SumFunctionOnSet(Lengths, 0..(n - 1)) \in Nat
        /\ s < n => SumFunctionOnSet(Lengths', 0..(n - 1)) = SumFunctionOnSet(Lengths, 0..(n - 1)) + 1
        /\ ~(s < n) => SumFunctionOnSet(Lengths', 0..(n - 1)) = SumFunctionOnSet(Lengths, 0..(n - 1))
    BY <1>3, <2>1, <2>2
  <2>4. /\ SumFunctionOnSet(Lengths, n..(ShardCount - 1)) \in Nat
        /\ ~(s < n) => SumFunctionOnSet(Lengths', n..(ShardCount - 1))
                         = SumFunctionOnSet(Lengths, n..(ShardCount - 1)) + 1
        /\ s < n => SumFunctionOnSet(Lengths', n..(ShardCount - 1))
                      = SumFunctionOnSet(Lengths, n..(ShardCount - 1))
    BY <1>3, <2>1, <2>2
  <2> QED BY <2>3, <2>4 DEF Before, From
<1> QED BY <1>4

\* The sum of the parts grows with each part.
LEMMA PartsSum ==
    ASSUME NEW p \in Seq(Nat), NEW x \in Nat
    PROVE  /\ SumFunction(<<>>) = 0 /\ SumFunction(p) \in Nat
           /\ SumFunction(Append(p, x)) = SumFunction(p) + x
<1>1. /\ Len(p) \in Nat /\ DOMAIN p = 1..Len(p) /\ DOMAIN Append(p, x) = 1..(Len(p) + 1)
      /\ \A k \in 1..Len(p) : p[k] \in Nat /\ Append(p, x)[k] = p[k]
      /\ Append(p, x)[Len(p) + 1] = x
  BY LenProperties, ElementOfSeq, AppendProperties
<1>2. SumFunction(<<>>) = 0
  <2>1. DOMAIN <<>> = {} /\ IsFiniteSet({}) /\ \A y \in {} : <<>>[y] \in Nat
    BY FS_EmptySet
  <2>2. SumFunctionOnSet(<<>>, {}) = 0
    BY <2>1, SumFacts
  <2> QED BY <2>1, <2>2 DEF SumFunction
<1>3. 1 \in Int /\ Len(p) \in Int /\ Len(p) + 1 \in Int /\ (Len(p) + 1) - 1 = Len(p) /\ 1 <= Len(p) + 1
  BY <1>1
<1>4. SumFunctionOnSet(p, 1..Len(p)) \in Nat
  BY <1>1, <1>3, SumInterval
<1> DEFINE q == Append(p, x)
<1>5. \A k \in 1..(Len(p) + 1) : q[k] \in Nat
  BY <1>1
<1>6. SumFunctionOnSet(q, 1..(Len(p) + 1)) = SumFunctionOnSet(q, 1..Len(p)) + q[Len(p) + 1]
  <2> HIDE DEF q
  <2> QED BY <1>3, <1>5, SumInterval
<1>7. SumFunctionOnSet(q, 1..Len(p)) = SumFunctionOnSet(p, 1..Len(p))
  <2>1. IsFiniteSet(1..Len(p))
    BY <1>1, FS_Interval
  <2>2. \A k \in 1..Len(p) : p[k] \in Nat /\ q[k] = p[k]
    BY <1>1
  <2> HIDE DEF q
  <2> QED BY <2>1, <2>2, SumSame
<1>8. SumFunction(p) = SumFunctionOnSet(p, 1..Len(p)) /\ SumFunction(q) = SumFunctionOnSet(q, 1..(Len(p) + 1))
  BY <1>1 DEF SumFunction
<1> QED BY <1>1, <1>2, <1>4, <1>6, <1>7, <1>8

-----------------------------------------------------------------------------
(* What the answers are worth                                               *)

\* A handler starts with no id taken and nothing summed up.
LEMMA DispatchAnswers ==
    ASSUME RequestOK, AutoOK, AutoIdsDistinct,
           NEW r \in Requests, NEW cut \in Cuts(r), Dispatch(r, cut)
    PROVE  AutoOK' /\ AutoIdsDistinct' /\ InsertOK' /\ LoopsOK'
<1> DEFINE got == Received(r, cut)
<1>1. /\ asked' = [sent |-> r, got |-> got] /\ steps' = Program(got) /\ loop' = 0
      /\ reply' = Answer(got) /\ contents' = contents
  BY Zenon DEF Dispatch
<1>2. got.route \in Routes /\ got.id \in Int /\ got.shard \in Nat
  BY ReceivedFacts
<1> HIDE DEF got
<1>3. /\ Answer(got).parts = <<>> /\ Answer(got).total = 0
      /\ Program(got) \in StepsLeft(Answer(got).kind)
      /\ Answer(got).kind = "insert" =>
           Program(got) = IF Automatic(got.id) THEN <<"sum", "store", "record", "sum">>
                                               ELSE <<"store", "record", "sum">>
      /\ Answer(got).kind = "info" => Program(got) = <<"sum", "parts">>
      /\ Answer(got).kind = "metrics" => Program(got) = <<"parts", "sum">>
  BY <1>2, AnswerFacts DEF RequestOK
<1>4. /\ Before(loop)' = Before(loop') /\ From(loop)' = From(loop')
      /\ AutoBelow(Before(ShardCount))' <=> AutoBelow(Before(ShardCount))
      /\ AutoBelow(SoFar + From(loop))' <=> AutoBelow(SoFar' + From(loop)')
  BY <1>1, SameLengths
<1>5. Before(0) = 0 /\ From(0) = Before(ShardCount) /\ Before(ShardCount) \in Nat
  <2>1. ContentsOK /\ ShardCount \in 0..ShardCount
    BY ApiAssumption DEF RequestOK
  <2> QED BY <2>1, LengthFacts
<1>6. asked'.got = got /\ steps' \in StepsLeft(reply'.kind)
  BY <1>1, <1>3
<1>7. AutoOK'
  <2>1. AutoBelow(Before(ShardCount))'
    BY <1>4 DEF AutoOK
  <2>2. SoFar' = 0 /\ SoFar' <= Before(loop)' /\ AutoBelow(SoFar + From(loop))'
    BY <1>1, <1>4, <1>5 DEF SoFar, AutoOK
  <2>3. ~(steps' = <<"store", "record", "sum">> /\ Automatic(asked'.got.id))
    <3>1. CASE reply'.kind = "insert"
      BY <1>1, <1>3, <3>1
    <3>2. CASE reply'.kind # "insert"
      BY <1>6, <3>2 DEF StepsLeft
    <3> QED BY <3>1, <3>2
  <2> QED BY <2>1, <2>2, <2>3 DEF AutoOK
<1>8. AutoIdsDistinct'
  BY <1>1 DEF AutoIdsDistinct
<1>9. InsertOK'
  <2>1. ASSUME reply'.kind = "insert"
        PROVE  steps' \notin {<<"record", "sum">>, <<"recording", "sum">>, <<"sum">>, <<>>}
    <3>1. steps' \in {<<"sum", "store", "record", "sum">>, <<"store", "record", "sum">>}
      BY <1>1, <1>3, <2>1
    <3> QED BY <3>1
  <2> QED BY <2>1 DEF InsertOK
<1>10. LoopsOK'
  <2>1. SumFunction(<<>>) = 0
    <3>1. <<>> \in Seq(Nat) /\ 0 \in Nat
      BY EmptySeq
    <3> QED BY <3>1, PartsSum
  <2> QED BY <1>1, <1>3, <1>4, <1>5, <2>1 DEF LoopsOK, SoFar
<1> QED BY <1>7, <1>8, <1>9, <1>10

\* total_vectors: what it has seen of an insert's shard counts the insert, and what it
\* will have seen is no less than what any earlier loop saw.
LEMMA SumAnswers ==
    ASSUME Answered, server = "handle", UNCHANGED <<metricsVars, server>>, Sum
    PROVE  AutoOK' /\ AutoIdsDistinct' /\ InsertOK' /\ LoopsOK'
<1> DEFINE len == Len(contents[loop])
<1>1. /\ steps # <<>> /\ Head(steps) = "sum" /\ Loops /\ UNCHANGED <<contents, others, asked>>
      /\ reply'.total = SoFar + len
      /\ \A x \in {"kind", "shard", "node", "id", "parts"} : reply'[x] = reply[x]
  BY SumStays DEF Answered, Control
<1>2. /\ reply'.kind = reply.kind /\ reply'.shard = reply.shard /\ reply'.node = reply.node
      /\ reply'.id = reply.id /\ reply'.parts = reply.parts
  BY <1>1
<1>3. /\ reply \in Replies /\ loop \in Shards /\ ContentsOK /\ steps \in StepsLeft(reply.kind)
  BY DEF Answered, Control, RequestOK, ReplyOK, HandlerOK
<1>4. /\ Before(0) = 0 /\ From(ShardCount) = 0 /\ From(0) = Before(ShardCount)
      /\ Before(loop) \in Nat /\ From(loop) \in Nat /\ From(loop + 1) \in Nat /\ len \in Nat
      /\ Before(ShardCount) \in Nat
      /\ Before(loop + 1) = Before(loop) + len /\ From(loop) = len + From(loop + 1)
  <2>1. loop \in 0..ShardCount /\ loop + 1 \in 0..ShardCount /\ ShardCount \in 0..ShardCount
    BY <1>3, ApiAssumption DEF Shards
  <2> QED BY <1>3, <2>1, LengthFacts
<1>5. /\ Before(ShardCount)' = Before(ShardCount)
      /\ Before(loop)' = Before(loop') /\ From(loop)' = From(loop')
      /\ AutoBelow(Before(ShardCount))' <=> AutoBelow(Before(ShardCount))
      /\ AutoBelow(SoFar + From(loop))' <=> AutoBelow(SoFar' + From(loop)')
      /\ AutoBelow(reply.total)' <=> AutoBelow(reply'.total)
  BY <1>1, SameLengths
<1>6. SoFar \in Nat /\ reply'.total \in Nat /\ reply'.total >= SoFar
  BY <1>1, <1>3, <1>4 DEF SoFar, Replies
<1>7. \/ loop + 1 < ShardCount /\ loop' = loop + 1 /\ steps' = steps
      \/ loop + 1 = ShardCount /\ loop' = 0 /\ steps' = Tail(steps)
  BY <1>1, <1>3, ApiAssumption DEF Loops, Shards
<1>8. AutoIdsDistinct'
  BY <1>1 DEF Answered, AutoIdsDistinct
<1>9. AutoBelow(Before(ShardCount))'
  BY <1>5 DEF Answered, AutoOK
<1> HIDE DEF len
<1>S. loop + 1 < ShardCount => SoFar' = SoFar + len
  BY <1>1, <1>3, <1>7 DEF SoFar, Shards
<1>10. CASE steps = <<"sum", "store", "record", "sum">>
  <2>1. reply.kind = "insert" /\ Tail(steps) = <<"store", "record", "sum">>
    BY <1>3, <1>10, StepLists DEF StepsLeft
  <2>2. SoFar <= Before(loop) /\ AutoBelow(SoFar + From(loop))
    BY <1>10 DEF Answered, AutoOK
  <2>3. CASE loop + 1 < ShardCount /\ loop' = loop + 1 /\ steps' = steps
    <3>1. SoFar' + From(loop)' = SoFar + From(loop) /\ SoFar' <= Before(loop)'
      BY <1>S, <1>4, <1>5, <1>6, <2>2, <2>3
    <3>2. AutoBelow(SoFar + From(loop))'
      BY <1>5, <2>2, <3>1
    <3>3. AutoOK'
      BY <1>9, <1>10, <2>3, <3>1, <3>2 DEF AutoOK
    <3> QED BY <1>2, <1>8, <1>10, <2>1, <2>3, <3>3 DEF InsertOK, LoopsOK
  <2>4. CASE loop + 1 = ShardCount /\ loop' = 0 /\ steps' = Tail(steps)
    <3>1. reply'.total = SoFar + From(loop) /\ reply'.total <= Before(ShardCount)
      BY <1>1, <1>4, <1>6, <2>2, <2>4
    <3>2. AutoBelow(reply.total)' /\ reply'.total <= Before(ShardCount)'
      BY <1>5, <2>2, <3>1
    <3>3. AutoOK'
      BY <1>9, <2>1, <2>4, <3>2 DEF AutoOK
    <3>4. /\ steps' = <<"store", "record", "sum">>
          /\ steps' \notin {<<"record", "sum">>, <<"recording", "sum">>, <<"sum">>, <<>>}
      BY <2>1, <2>4
    <3> QED BY <1>2, <1>8, <2>1, <3>3, <3>4 DEF InsertOK, LoopsOK
  <2> QED BY <1>7, <2>3, <2>4
<1>11. CASE steps # <<"sum", "store", "record", "sum">>
  <2>1. steps' # <<"sum", "store", "record", "sum">> /\ steps' # <<"store", "record", "sum">>
    <3>1. /\ steps \in {<<"sum">>, <<"sum", "parts">>}
          /\ <<"sum">> # <<"store", "record", "sum">> /\ <<"sum", "parts">> # <<"store", "record", "sum">>
          /\ <<"sum">> # <<"sum", "store", "record", "sum">>
          /\ <<"sum", "parts">> # <<"sum", "store", "record", "sum">>
          /\ <<>> # <<"store", "record", "sum">> /\ <<>> # <<"sum", "store", "record", "sum">>
          /\ <<"parts">> # <<"store", "record", "sum">> /\ <<"parts">> # <<"sum", "store", "record", "sum">>
      BY <1>1, <1>3, <1>11, StepLists DEF StepsLeft
    <3>2. CASE steps = <<"sum">>
      <4>1. steps' \in {<<"sum">>, <<>>}
        BY <1>7, <3>2
      <4> QED BY <3>1, <4>1
    <3>3. CASE steps = <<"sum", "parts">>
      <4>1. steps' \in {<<"sum", "parts">>, <<"parts">>}
        BY <1>7, <3>3
      <4> QED BY <3>1, <4>1
    <3> QED BY <3>1, <3>2, <3>3
  <2>2. AutoOK'
    BY <1>9, <2>1 DEF AutoOK
  <2>3. InsertOK'
    <3> SUFFICES ASSUME reply.kind = "insert" PROVE InsertOK'
      BY <1>2 DEF InsertOK
    <3>1. steps = <<"sum">>
      BY <1>1, <1>3, <1>11, StepLists DEF StepsLeft
    <3>2. /\ reply.node < Len(contents[reply.shard])
          /\ contents[reply.shard][reply.node + 1].id = reply.id
          /\ contents[reply.shard][reply.node + 1].vector = Floats(asked.got.vector)
          /\ asked.got.id >= 0 => reply.id = asked.got.id
          /\ loop > reply.shard => reply.total > reply.node
      BY <3>1 DEF Answered, InsertOK
    <3>3. reply.shard \in Nat /\ reply.node \in Nat /\ loop \in Nat /\ reply.total \in Nat
          /\ reply.shard < ShardCount /\ ShardCount \in Nat
      BY <1>3, ApiAssumption DEF Replies, Shards
    <3>4. loop >= reply.shard => reply'.total > reply.node
      <4>1. CASE loop = reply.shard
        <5>1. len \in Nat /\ len = Len(contents[reply.shard]) /\ reply'.total = SoFar + len
          BY <1>1, <1>4, <4>1 DEF len
        <5>2. reply.node < len
          BY <3>2, <5>1
        <5> QED BY <1>6, <3>3, <5>1, <5>2
      <4>2. CASE loop > reply.shard
        <5>1. SoFar = reply.total
          BY <3>3, <4>2 DEF SoFar
        <5>2. reply.total > reply.node
          BY <3>2, <4>2
        <5> QED BY <1>6, <3>3, <5>1, <5>2
      <4> QED BY <3>3, <4>1, <4>2
    <3>5. (loop' > reply.shard => reply'.total > reply.node) /\ (steps' = <<>> => reply'.total > reply.node)
      <4>1. CASE loop + 1 < ShardCount /\ loop' = loop + 1 /\ steps' = steps
        <5>1. steps' # <<>>
          BY <3>1, <4>1
        <5> QED BY <3>3, <3>4, <4>1, <5>1
      <4>2. CASE loop + 1 = ShardCount /\ loop' = 0 /\ steps' = Tail(steps)
        BY <3>3, <3>4, <4>2
      <4> QED BY <1>7, <4>1, <4>2
    <3> QED BY <1>1, <1>2, <3>2, <3>5 DEF InsertOK
  <2>4. LoopsOK'
    <3>1. CASE reply.kind = "info"
      <4>1. steps = <<"sum", "parts">> /\ Tail(steps) = <<"parts">>
        BY <1>1, <1>3, <3>1, StepLists DEF StepsLeft
      <4>2. reply.parts = <<>> /\ SoFar <= Before(loop)
        BY <3>1, <4>1 DEF Answered, LoopsOK
      <4>3. SumFunction(<<>>) = 0
        <5>1. <<>> \in Seq(Nat) /\ 0 \in Nat
          BY EmptySeq
        <5> QED BY <5>1, PartsSum
      <4>4. CASE loop + 1 < ShardCount /\ loop' = loop + 1 /\ steps' = steps
        <5>1. SoFar' <= Before(loop)'
          BY <1>S, <1>4, <1>5, <1>6, <4>2, <4>4
        <5> QED BY <1>2, <3>1, <4>1, <4>2, <4>4, <5>1 DEF LoopsOK
      <4>5. CASE loop + 1 = ShardCount /\ loop' = 0 /\ steps' = Tail(steps)
        <5>1. reply'.total <= SumFunction(reply'.parts) + From(loop)'
          BY <1>1, <1>2, <1>4, <1>5, <1>6, <4>2, <4>3, <4>5
        <5> QED BY <1>2, <3>1, <4>1, <4>5, <5>1 DEF LoopsOK
      <4> QED BY <1>7, <4>4, <4>5
    <3>2. CASE reply.kind = "metrics"
      <4>1. steps = <<"sum">> /\ Tail(steps) = <<>>
        BY <1>1, <1>3, <3>2, StepLists DEF StepsLeft
      <4>2. SumFunction(reply.parts) <= SoFar + From(loop)
        BY <3>2, <4>1 DEF Answered, LoopsOK
      <4>3. SumFunction(reply.parts) \in Nat
        <5>1. reply.parts \in Seq(Nat) /\ 0 \in Nat
          BY <1>3 DEF Replies
        <5> QED BY <5>1, PartsSum
      <4>4. CASE loop + 1 < ShardCount /\ loop' = loop + 1 /\ steps' = steps
        <5>1. SumFunction(reply'.parts) <= SoFar' + From(loop)'
          BY <1>S, <1>2, <1>4, <1>5, <1>6, <4>2, <4>3, <4>4
        <5> QED BY <1>2, <3>2, <4>1, <4>4, <5>1 DEF LoopsOK
      <4>5. CASE loop + 1 = ShardCount /\ loop' = 0 /\ steps' = Tail(steps)
        <5>1. SumFunction(reply'.parts) <= reply'.total
          BY <1>1, <1>2, <1>4, <1>6, <4>2, <4>3, <4>5
        <5> QED BY <1>2, <3>2, <4>1, <4>5, <5>1 DEF LoopsOK
      <4> QED BY <1>7, <4>4, <4>5
    <3>3. CASE reply.kind \notin {"info", "metrics"}
      BY <1>2, <3>3 DEF LoopsOK
    <3> QED BY <3>1, <3>2, <3>3
  <2> QED BY <1>8, <2>2, <2>3, <2>4
<1> QED BY <1>10, <1>11

\* load_distribution: the parts add up to what the loop has passed, or more.
LEMMA PartsAnswers ==
    ASSUME Answered, server = "handle", UNCHANGED <<metricsVars, server>>, Parts
    PROVE  AutoOK' /\ AutoIdsDistinct' /\ InsertOK' /\ LoopsOK'
<1> DEFINE len == Len(contents[loop])
<1>1. /\ steps # <<>> /\ Head(steps) = "parts" /\ Loops /\ UNCHANGED <<contents, others, asked>>
      /\ reply'.parts = Append(reply.parts, len)
      /\ \A x \in {"kind", "shard", "node", "id", "total"} : reply'[x] = reply[x]
  BY PartsStays DEF Answered, Control
<1>2. reply'.kind = reply.kind /\ reply'.total = reply.total
  BY <1>1
<1>3. /\ reply \in Replies /\ loop \in Shards /\ ContentsOK /\ steps \in StepsLeft(reply.kind)
  BY DEF Answered, Control, RequestOK, ReplyOK, HandlerOK
<1>4. /\ Before(0) = 0 /\ From(ShardCount) = 0 /\ From(0) = Before(ShardCount)
      /\ Before(loop) \in Nat /\ From(loop) \in Nat /\ From(loop + 1) \in Nat /\ len \in Nat
      /\ Before(ShardCount) \in Nat
      /\ Before(loop + 1) = Before(loop) + len /\ From(loop) = len + From(loop + 1)
  <2>1. loop \in 0..ShardCount /\ loop + 1 \in 0..ShardCount /\ ShardCount \in 0..ShardCount
    BY <1>3, ApiAssumption DEF Shards
  <2> QED BY <1>3, <2>1, LengthFacts
<1>5. /\ Before(ShardCount)' = Before(ShardCount)
      /\ Before(loop)' = Before(loop') /\ From(loop)' = From(loop')
      /\ AutoBelow(Before(ShardCount))' <=> AutoBelow(Before(ShardCount))
  BY <1>1, SameLengths
<1>6. SumFunction(reply.parts) \in Nat /\ SumFunction(reply'.parts) = SumFunction(reply.parts) + len
  <2>1. reply.parts \in Seq(Nat)
    BY <1>3 DEF Replies
  <2> QED BY <1>1, <1>4, <2>1, PartsSum
<1>7. \/ loop + 1 < ShardCount /\ loop' = loop + 1 /\ steps' = steps
      \/ loop + 1 = ShardCount /\ loop' = 0 /\ steps' = Tail(steps)
  BY <1>1, <1>3, ApiAssumption DEF Loops, Shards
<1>8. AutoIdsDistinct'
  BY <1>1 DEF Answered, AutoIdsDistinct
<1>T. reply.total \in Nat
  BY <1>3 DEF Replies
<1> HIDE DEF len
<1>9. reply.kind \in {"info", "metrics"}
  BY <1>1, <1>3, TailLeft
<1>10. InsertOK'
  BY <1>2, <1>9 DEF InsertOK
<1>11. CASE reply.kind = "info"
  <2>1. steps = <<"parts">> /\ Tail(steps) = <<>>
    BY <1>1, <1>3, <1>11, StepLists DEF StepsLeft
  <2>2. reply.total <= SumFunction(reply.parts) + From(loop)
    BY <1>11, <2>1 DEF Answered, LoopsOK
  <2>3. steps' \in {<<"parts">>, <<>>}
    BY <1>7, <2>1
  <2>4. AutoOK'
    <3>1. steps' # <<"sum", "store", "record", "sum">> /\ steps' # <<"store", "record", "sum">>
      BY <2>3
    <3> QED BY <1>5, <3>1 DEF AutoOK, Answered
  <2>5. CASE loop + 1 < ShardCount /\ loop' = loop + 1 /\ steps' = steps
    <3>1. reply'.total <= SumFunction(reply'.parts) + From(loop)'
      BY <1>T, <1>2, <1>4, <1>5, <1>6, <2>2, <2>5
    <3> QED BY <1>2, <1>8, <1>10, <1>11, <2>1, <2>4, <2>5, <3>1 DEF LoopsOK
  <2>6. CASE loop + 1 = ShardCount /\ loop' = 0 /\ steps' = Tail(steps)
    <3>1. reply'.total <= SumFunction(reply'.parts)
      BY <1>T, <1>2, <1>4, <1>6, <2>2, <2>6
    <3> QED BY <1>2, <1>8, <1>10, <1>11, <2>1, <2>4, <2>6, <3>1 DEF LoopsOK
  <2> QED BY <1>7, <2>5, <2>6
<1>12. CASE reply.kind = "metrics"
  <2>1. steps = <<"parts", "sum">> /\ Tail(steps) = <<"sum">>
    BY <1>1, <1>3, <1>12, StepLists DEF StepsLeft
  <2>2. SumFunction(reply.parts) <= Before(loop)
    BY <1>12, <2>1 DEF Answered, LoopsOK
  <2>3. steps' \in {<<"parts", "sum">>, <<"sum">>}
    BY <1>7, <2>1
  <2>4. AutoOK'
    <3>1. steps' # <<"sum", "store", "record", "sum">> /\ steps' # <<"store", "record", "sum">>
      BY <2>3
    <3> QED BY <1>5, <3>1 DEF AutoOK, Answered
  <2>5. CASE loop + 1 < ShardCount /\ loop' = loop + 1 /\ steps' = steps
    <3>1. SumFunction(reply'.parts) <= Before(loop)'
      BY <1>4, <1>5, <1>6, <2>2, <2>5
    <3> QED BY <1>2, <1>8, <1>10, <1>12, <2>1, <2>4, <2>5, <3>1 DEF LoopsOK
  <2>6. CASE loop + 1 = ShardCount /\ loop' = 0 /\ steps' = Tail(steps)
    <3>1. SumFunction(reply'.parts) <= SoFar' + From(loop)'
      BY <1>4, <1>5, <1>6, <2>2, <2>6 DEF SoFar
    <3> QED BY <1>2, <1>8, <1>10, <1>12, <2>1, <2>4, <2>6, <3>1 DEF LoopsOK
  <2> QED BY <1>7, <2>5, <2>6
<1> QED BY <1>9, <1>11, <1>12

\* Recording is no business of the answers.
LEMMA RecordAnswers ==
    ASSUME Answered, server = "handle", UNCHANGED server, RecordStart \/ RecordStep
    PROVE  AutoOK' /\ AutoIdsDistinct' /\ InsertOK' /\ LoopsOK'
<1>1. /\ steps # <<>> /\ Head(steps) \in {"record", "recording"}
      /\ UNCHANGED <<contents, others, asked, loop, reply>>
      /\ \/ Head(steps) = "record" /\ steps' = [steps EXCEPT ![1] = "recording"]
         \/ Head(steps) = "recording" /\ steps' \in {Tail(steps), steps}
  BY DEF RecordStart, RecordStep
<1>2. steps \in StepsLeft(reply.kind) /\ loop = 0
  BY <1>1 DEF Answered, Control, RequestOK, HandlerOK
<1>3. \/ reply.kind = "insert" /\ steps \in {<<"record", "sum">>, <<"recording", "sum">>}
      \/ reply.kind = "search" /\ steps \in {<<"record">>, <<"recording">>}
  BY <1>1, <1>2, StepLists DEF StepsLeft
<1>4. \/ reply.kind = "insert" /\ steps' \in {<<"recording", "sum">>, <<"sum">>}
      \/ reply.kind = "search" /\ steps' \in {<<"recording">>, <<>>}
  <2>1. CASE reply.kind = "insert" /\ steps = <<"record", "sum">>
    BY <1>1, <2>1, StepLists
  <2>2. CASE reply.kind = "insert" /\ steps = <<"recording", "sum">>
    BY <1>1, <2>2, StepLists
  <2>3. CASE reply.kind = "search" /\ steps = <<"record">>
    BY <1>1, <2>3, StepLists
  <2>4. CASE reply.kind = "search" /\ steps = <<"recording">>
    BY <1>1, <2>4, StepLists
  <2> QED BY <1>3, <2>1, <2>2, <2>3, <2>4
<1>5. steps' # <<"sum", "store", "record", "sum">> /\ steps' # <<"store", "record", "sum">>
  BY <1>4
<1>6. AutoOK'
  <2>1. AutoBelow(Before(ShardCount))'
    BY <1>1, SameLengths DEF Answered, AutoOK
  <2> QED BY <1>5, <2>1 DEF AutoOK
<1>7. AutoIdsDistinct'
  BY <1>1 DEF Answered, AutoIdsDistinct
<1>8. InsertOK'
  <2> SUFFICES ASSUME reply.kind = "insert" PROVE InsertOK'
    BY <1>1 DEF InsertOK
  <2>1. steps \in {<<"record", "sum">>, <<"recording", "sum">>} /\ steps' \in {<<"recording", "sum">>, <<"sum">>}
    BY <1>3, <1>4
  <2>2. steps' # <<>>
    BY <2>1
  <2> QED BY <1>1, <2>1, <2>2 DEF Answered, InsertOK
<1>9. LoopsOK'
  BY <1>1, <1>3 DEF LoopsOK
<1> QED BY <1>6, <1>7, <1>8, <1>9

\* An answer that has been sent is forgotten.
LEMMA ForgetAnswers ==
    ASSUME Answered, steps = <<>>, Forget
    PROVE  AutoOK' /\ AutoIdsDistinct' /\ InsertOK' /\ LoopsOK'
<1>1. reply'.kind = "none" /\ steps' = <<>> /\ contents' = contents
  BY DEF Forget, NoReply
<1>2. AutoOK'
  <2>1. AutoBelow(Before(ShardCount))'
    BY <1>1, SameLengths DEF Answered, AutoOK
  <2> QED BY <1>1, <2>1 DEF AutoOK
<1>3. AutoIdsDistinct'
  BY <1>1 DEF Answered, AutoIdsDistinct
<1>4. InsertOK' /\ LoopsOK'
  BY <1>1 DEF InsertOK, LoopsOK
<1> QED BY <1>2, <1>3, <1>4

\* What is stored keeps the automatic ids below a number if its own is.
LEMMA StoreBelow ==
    ASSUME ContentsOK, NEW s \in Shards, NEW e \in Entries,
           contents' = [contents EXCEPT ![s] = Append(@, e)],
           NEW m \in Nat, NEW n \in Nat, AutoBelow(m), m <= n, e.auto => e.id < n
    PROVE  \A t \in Shards : \A k \in DOMAIN contents'[t] : contents'[t][k].auto => contents'[t][k].id < n
<1> SUFFICES ASSUME NEW t \in Shards, NEW k \in DOMAIN contents'[t], contents'[t][k].auto
             PROVE  contents'[t][k].id < n
  OBVIOUS
<1>1. CASE k \in DOMAIN contents[t]
  <2>1. contents'[t][k] = contents[t][k]
    BY <1>1, StoreFacts
  <2>2. contents[t][k] \in Entries
    BY <1>1, ElementOfSeq, LenProperties DEF ContentsOK
  <2>3. contents[t][k].id < m /\ contents[t][k].id \in Nat
    BY <1>1, <2>1, <2>2 DEF AutoBelow, Entries, Ids
  <2> QED BY <2>1, <2>3
<1>2. CASE k \notin DOMAIN contents[t]
  BY <1>2, StoreFacts
<1> QED BY <1>1, <1>2

\* What is stored keeps the automatic ids apart if its own is above them all.
LEMMA StoreApart ==
    ASSUME ContentsOK, NEW s \in Shards, NEW e \in Entries,
           contents' = [contents EXCEPT ![s] = Append(@, e)],
           AutoIdsDistinct, e.auto => AutoBelow(e.id)
    PROVE  AutoIdsDistinct'
<1> SUFFICES ASSUME NEW u \in Shards, NEW t \in Shards,
                    NEW j \in DOMAIN contents'[u], NEW k \in DOMAIN contents'[t],
                    contents'[u][j].auto, contents'[t][k].auto, <<u, j>> # <<t, k>>
             PROVE  contents'[u][j].id # contents'[t][k].id
  BY DEF AutoIdsDistinct
<1>1. /\ j \in DOMAIN contents[u] => contents'[u][j] = contents[u][j]
      /\ j \notin DOMAIN contents[u] => u = s /\ j = Len(contents[s]) + 1 /\ contents'[u][j] = e
      /\ k \in DOMAIN contents[t] => contents'[t][k] = contents[t][k]
      /\ k \notin DOMAIN contents[t] => t = s /\ k = Len(contents[s]) + 1 /\ contents'[t][k] = e
  BY StoreFacts
<1>2. e.id \in Nat
  BY DEF Entries, Ids
<1>3. CASE j \in DOMAIN contents[u] /\ k \in DOMAIN contents[t]
  BY <1>1, <1>3 DEF AutoIdsDistinct
<1>4. CASE j \in DOMAIN contents[u] /\ k \notin DOMAIN contents[t]
  <2>1. contents[u][j].id < e.id
    BY <1>1, <1>4 DEF AutoBelow
  <2>2. contents[u][j] \in Entries
    BY <1>4, ElementOfSeq, LenProperties DEF ContentsOK
  <2> QED BY <1>1, <1>2, <1>4, <2>1, <2>2 DEF Entries, Ids
<1>5. CASE j \notin DOMAIN contents[u] /\ k \in DOMAIN contents[t]
  <2>1. contents[t][k].id < e.id
    BY <1>1, <1>5 DEF AutoBelow
  <2>2. contents[t][k] \in Entries
    BY <1>5, ElementOfSeq, LenProperties DEF ContentsOK
  <2> QED BY <1>1, <1>2, <1>5, <2>1, <2>2 DEF Entries, Ids
<1>6. CASE j \notin DOMAIN contents[u] /\ k \notin DOMAIN contents[t]
  BY <1>1, <1>6
<1> QED BY <1>3, <1>4, <1>5, <1>6

\* ShardManager::insert: an automatic id is a total that has seen every earlier one.
LEMMA StoreAnswers ==
    ASSUME Answered, server = "handle", UNCHANGED <<metricsVars, server>>, StoreVector
    PROVE  AutoOK' /\ AutoIdsDistinct' /\ InsertOK' /\ LoopsOK'
<1>0. RequestOK /\ ContentsOK /\ reply \in Replies /\ asked.got.id \in Int
  BY DEF Answered, Control, RequestOK, ReplyOK, AskedOK
<1>1. PICK s \in Shards, vid \in Ids, e \in Entries :
         /\ vid = (IF Automatic(asked.got.id) THEN reply.total ELSE asked.got.id)
         /\ e = [id |-> vid, auto |-> Automatic(asked.got.id), vector |-> Floats(asked.got.vector)]
         /\ contents' = [contents EXCEPT ![s] = Append(@, e)]
         /\ reply' = [reply EXCEPT !.shard = s, !.node = Len(contents[s]), !.id = vid]
         /\ steps = <<"store", "record", "sum">> /\ steps' = <<"record", "sum">>
         /\ reply.kind = "insert" /\ loop = 0
         /\ UNCHANGED <<others, asked, loop>>
  BY <1>0, StoreVectorFacts, Zenon
<1>2. /\ reply'.kind = "insert" /\ reply'.shard = s /\ reply'.node = Len(contents[s]) /\ reply'.id = vid
  BY <1>0, <1>1 DEF Replies
<1>3. e.id = vid /\ (e.auto <=> Automatic(asked.got.id)) /\ e.vector = Floats(asked.got.vector)
  BY <1>1
<1>4. e.auto => e.id = reply.total /\ reply.total <= Before(ShardCount) /\ AutoBelow(reply.total)
  BY <1>1, <1>3 DEF Answered, AutoOK
<1>5. ShardCount \in 0..ShardCount /\ s < ShardCount
  BY ApiAssumption DEF Shards
<1>6. Before(ShardCount) \in Nat /\ Before(ShardCount)' = Before(ShardCount) + 1
  <2>1. Before(ShardCount) \in Nat
    BY <1>0, <1>5, LengthFacts
  <2>2. Before(ShardCount)' = Before(ShardCount) + (IF s < ShardCount THEN 1 ELSE 0)
    BY <1>0, <1>1, <1>5, StoreCounts
  <2> QED BY <1>5, <2>1, <2>2
<1>7. AutoBelow(Before(ShardCount))'
  <2>1. AutoBelow(Before(ShardCount))
    BY DEF Answered, AutoOK
  <2>2. reply.total \in Nat
    BY <1>0 DEF Replies
  <2>3. e.auto => e.id < Before(ShardCount) + 1
    BY <1>4, <1>6, <2>2
  <2>4. Before(ShardCount) + 1 \in Nat /\ Before(ShardCount) <= Before(ShardCount) + 1
    BY <1>6
  <2>5. \A t \in Shards : \A k \in DOMAIN contents'[t] :
          contents'[t][k].auto => contents'[t][k].id < Before(ShardCount) + 1
    <3>1. PICK m \in Nat, n \in Nat : m = Before(ShardCount) /\ n = Before(ShardCount) + 1
      BY <1>6, <2>4
    <3>2. AutoBelow(m) /\ m <= n /\ (e.auto => e.id < n)
      BY <2>1, <2>3, <2>4, <3>1
    <3>3. contents' = [contents EXCEPT ![s] = Append(@, e)]
      BY <1>1
    <3>4. \A t \in Shards : \A k \in DOMAIN contents'[t] : contents'[t][k].auto => contents'[t][k].id < n
      BY <1>0, <3>2, <3>3, StoreBelow
    <3> QED BY <3>1, <3>4
  <2> QED BY <1>6, <2>5 DEF AutoBelow
<1>8. AutoOK'
  <2>1. steps' # <<"sum", "store", "record", "sum">> /\ steps' # <<"store", "record", "sum">>
    BY <1>1
  <2> QED BY <1>7, <2>1 DEF AutoOK
<1>9. AutoIdsDistinct'
  BY <1>0, <1>1, <1>4, StoreApart DEF Answered
<1>10. InsertOK'
  <2>1. /\ Len(contents'[s]) = Len(contents[s]) + 1 /\ Len(contents[s]) \in Nat
        /\ contents'[s][Len(contents[s]) + 1] = e
    BY <1>0, <1>1, StoreFacts
  <2>2. asked.got.id >= 0 => vid = asked.got.id
    BY <1>0, <1>1 DEF Automatic
  <2>3. ~(loop' > s) /\ steps' # <<>>
    BY <1>1 DEF Shards
  <2>4. asked' = asked
    BY <1>1
  <2> QED BY <1>2, <1>3, <2>1, <2>2, <2>3, <2>4 DEF InsertOK
<1>11. LoopsOK'
  BY <1>2 DEF LoopsOK
<1> QED BY <1>8, <1>9, <1>10, <1>11

\* Another user's insert: every sum of lengths is what it was, or one more.
LEMMA OtherAnswers ==
    ASSUME Answered, NEW id \in OtherIds, OtherInsert(id)
    PROVE  AutoOK' /\ AutoIdsDistinct' /\ InsertOK' /\ LoopsOK'
<1>0. ContentsOK /\ reply \in Replies /\ loop \in Shards
  BY DEF Answered, Control, RequestOK, ReplyOK, HandlerOK
<1>1. PICK s \in Shards, e \in Entries : ~e.auto /\ contents' = [contents EXCEPT ![s] = Append(@, e)]
  BY <1>0, OtherInsertFacts
<1>2. UNCHANGED <<asked, steps, loop, reply>>
  BY <1>0, OtherInsertFacts DEF handlerVars
<1>3. loop \in 0..ShardCount /\ ShardCount \in 0..ShardCount /\ 0 \in 0..ShardCount
  BY <1>0, ApiAssumption DEF Shards
<1>4. /\ Before(loop) \in Nat /\ From(loop) \in Nat /\ Before(ShardCount) \in Nat
      /\ Before(loop)' \in {Before(loop), Before(loop) + 1}
      /\ From(loop)' \in {From(loop), From(loop) + 1}
      /\ Before(ShardCount)' \in {Before(ShardCount), Before(ShardCount) + 1}
  <2>1. Before(loop) \in Nat /\ From(loop) \in Nat /\ Before(ShardCount) \in Nat
    BY <1>0, <1>3, LengthFacts
  <2>2. \A n \in 0..ShardCount : /\ Before(n)' = Before(n) + (IF s < n THEN 1 ELSE 0)
                                 /\ From(n)' = From(n) + (IF s < n THEN 0 ELSE 1)
    BY <1>0, <1>1, StoreCounts
  <2>3. PICK n \in 0..ShardCount : n = loop
    BY <1>3
  <2>4. Before(loop)' = Before(n)' /\ From(loop)' = From(n)'
    BY <1>2, <2>3 DEF Before, From
  <2> QED BY <1>3, <2>1, <2>2, <2>3, <2>4
<1>5. SoFar \in Nat /\ SoFar' = SoFar /\ reply.total \in Nat
  BY <1>0, <1>2 DEF SoFar, Replies
<1>6. ASSUME NEW m \in Nat, NEW n \in Nat, AutoBelow(m), m <= n
      PROVE  \A t \in Shards : \A k \in DOMAIN contents'[t] :
               contents'[t][k].auto => contents'[t][k].id < n
  BY <1>0, <1>1, <1>6, StoreBelow
<1>7. AutoBelow(Before(ShardCount))'
  <2>1. PICK n \in Nat : n = Before(ShardCount)' /\ Before(ShardCount) <= n
    BY <1>4
  <2>2. AutoBelow(Before(ShardCount))
    BY DEF Answered, AutoOK
  <2>3. \A t \in Shards : \A k \in DOMAIN contents'[t] : contents'[t][k].auto => contents'[t][k].id < n
    BY <1>4, <1>6, <2>1, <2>2
  <2> QED BY <2>1, <2>3 DEF AutoBelow
<1>8. ASSUME steps = <<"sum", "store", "record", "sum">>
      PROVE  SoFar' <= Before(loop)' /\ AutoBelow(SoFar + From(loop))'
  <2>1. SoFar <= Before(loop) /\ AutoBelow(SoFar + From(loop))
    BY <1>8 DEF Answered, AutoOK
  <2>2. PICK m \in Nat, n \in Nat : m = SoFar + From(loop) /\ n = SoFar' + From(loop)' /\ m <= n
    BY <1>4, <1>5
  <2>3. \A t \in Shards : \A k \in DOMAIN contents'[t] : contents'[t][k].auto => contents'[t][k].id < n
    BY <1>6, <2>1, <2>2
  <2>4. AutoBelow(SoFar + From(loop))'
    BY <2>2, <2>3 DEF AutoBelow
  <2> QED BY <1>4, <1>5, <2>1, <2>4
<1>9. ASSUME steps = <<"store", "record", "sum">>, Automatic(asked.got.id)
      PROVE  reply'.total <= Before(ShardCount)' /\ AutoBelow(reply.total)'
  <2>1. reply.total <= Before(ShardCount) /\ AutoBelow(reply.total)
    BY <1>9 DEF Answered, AutoOK
  <2>2. \A t \in Shards : \A k \in DOMAIN contents'[t] :
          contents'[t][k].auto => contents'[t][k].id < reply.total
    BY <1>5, <1>6, <2>1
  <2>3. AutoBelow(reply.total)'
    BY <1>2, <2>2 DEF AutoBelow
  <2> QED BY <1>2, <1>4, <1>5, <2>1, <2>3
<1>10. AutoOK'
  BY <1>2, <1>7, <1>8, <1>9 DEF AutoOK
<1>11. AutoIdsDistinct'
  BY <1>0, <1>1, StoreApart DEF Answered
<1>12. InsertOK'
  <2>1. reply.shard \in Shards /\ reply.node \in Nat
    BY <1>0 DEF Replies
  <2>2. /\ Len(contents[reply.shard]) \in Nat
        /\ reply.node < Len(contents[reply.shard]) => reply.node + 1 \in DOMAIN contents[reply.shard]
    BY <1>0, <2>1, LenProperties DEF ContentsOK
  <2>3. /\ Len(contents'[reply.shard]) >= Len(contents[reply.shard])
        /\ reply.node + 1 \in DOMAIN contents[reply.shard] =>
             contents'[reply.shard][reply.node + 1] = contents[reply.shard][reply.node + 1]
    BY <1>0, <1>1, <2>1, <2>2, StoreFacts
  <2>4. Len(contents'[reply.shard]) \in Nat
    BY <1>0, <1>1, <2>1, StoreFacts, LenProperties
  <2> QED BY <1>2, <2>1, <2>2, <2>3, <2>4 DEF Answered, InsertOK
<1>13. LoopsOK'
  <2>1. SumFunction(reply.parts) \in Nat
    <3>1. reply.parts \in Seq(Nat) /\ 0 \in Nat
      BY <1>0 DEF Replies
    <3> QED BY <3>1, PartsSum
  <2>2. LoopsOK
    BY DEF Answered
  <2>3. CASE reply.kind = "info"
    BY <1>2, <1>4, <1>5, <2>1, <2>2, <2>3 DEF LoopsOK
  <2>4. CASE reply.kind = "metrics"
    BY <1>2, <1>4, <1>5, <2>1, <2>2, <2>4 DEF LoopsOK
  <2> QED BY <1>2, <2>3, <2>4 DEF LoopsOK
<1> QED BY <1>10, <1>11, <1>12, <1>13

LEMMA AnsweredInit == Init => Answered
<1> SUFFICES ASSUME Init PROVE Answered
  OBVIOUS
<1>1. Control
  BY ControlInit
<1>2. steps = <<>> /\ reply.kind = "none" /\ \A s \in Shards : contents[s] = <<>>
  BY DEF Init, ApiInit, NoReply
<1>3. \A s \in Shards : DOMAIN contents[s] = {}
  BY <1>2
<1>4. AutoOK /\ AutoIdsDistinct
  BY <1>2, <1>3 DEF AutoOK, AutoBelow, AutoIdsDistinct
<1>5. InsertOK /\ LoopsOK
  BY <1>2 DEF InsertOK, LoopsOK
<1> QED BY <1>1, <1>4, <1>5 DEF Answered

LEMMA AnsweredStep == Answered /\ [Next]_vars => Answered'
<1> SUFFICES ASSUME Answered, [Next]_vars PROVE Answered'
  OBVIOUS
<1>1. Control'
  BY ControlStep DEF Answered
<1>2. CASE UNCHANGED apiVars
  <2>1. UNCHANGED <<contents, asked, steps, loop, reply>>
    BY <1>2 DEF apiVars, handlerVars
  <2>2. AutoIdsDistinct' /\ InsertOK'
    BY <2>1 DEF Answered, AutoIdsDistinct, InsertOK
  <2>3. AutoOK' /\ LoopsOK'
    BY <2>1 DEF Answered, AutoOK, LoopsOK, AutoBelow, Before, From, Lengths, SoFar
  <2> QED BY <1>1, <2>2, <2>3 DEF Answered
<1>3. CASE \E r \in Requests : \E cut \in Cuts(r) : Dispatch(r, cut)
  BY <1>1, <1>3, DispatchAnswers DEF Answered, Control
<1>4. CASE server = "handle" /\ HandlerStep /\ UNCHANGED server
  BY <1>1, <1>4, SumAnswers, PartsAnswers, StoreAnswers, RecordAnswers DEF HandlerStep, Answered
<1>5. CASE steps = <<>> /\ Forget
  BY <1>1, <1>5, ForgetAnswers DEF Answered
<1>6. CASE \E id \in OtherIds : OtherInsert(id)
  BY <1>1, <1>6, OtherAnswers DEF Answered
<1>7. CASE UNCHANGED vars
  BY <1>2, <1>7 DEF vars, dataVars
<1>8. SocketOK
  BY DEF Answered, Control, ThreadsOK
<1> QED BY <1>2, <1>3, <1>4, <1>5, <1>6, <1>7, <1>8, RequestSteps

\* No two automatic ids are the same, however many shards total_vectors adds up one by
\* one, and whatever other users insert meanwhile: AutoOK is inductive because what is
\* already summed up and what is still to come is never less than any earlier total.
THEOREM HttpAutoIdsDistinct == Spec => []AutoIdsDistinct
<1>1. Answered => AutoIdsDistinct
  BY DEF Answered
<1> QED BY <1>1, AnsweredInit, AnsweredStep, PTL DEF Spec

\* An insert is answered with the place and the id of its vector, and the totals of
\* the answers stand to their parts as the order of the loops says.
THEOREM HttpAnswersHold == Spec => []AnswersHold
<1>1. Answered => AnswersHold
  <2> SUFFICES ASSUME Answered PROVE AnswersHold
    OBVIOUS
  <2>1. InsertAsAsked
    <3> SUFFICES ASSUME reply.kind = "insert", steps = <<>> PROVE InsertAsAsked
      BY DEF InsertAsAsked
    <3>1. /\ contents[reply.shard][reply.node + 1].id = reply.id
          /\ contents[reply.shard][reply.node + 1].vector = Floats(asked.got.vector)
          /\ asked.got.id >= 0 => reply.id = asked.got.id
      BY DEF Answered, InsertOK
    <3>2. asked.got.vector = asked.sent.vector
      BY DEF Answered, Control, RequestOK, AskedOK, ReplyOK, Posts
    <3> QED BY <3>1, <3>2 DEF InsertAsAsked
  <2>2. TotalsAgree
    BY DEF Answered, InsertOK, LoopsOK, TotalsAgree
  <2> QED BY <2>1, <2>2 DEF AnswersHold
<1> QED BY <1>1, AnsweredInit, AnsweredStep, PTL DEF Spec
=============================================================================
