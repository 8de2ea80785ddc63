# Specifications of the vector database engine

TLA+ models of the C++ server under `src/vecdb/src`, the TLC runs that check
them on small instances and TLAPS proofs of what holds for every instance.
File and line references are to that directory unless they start with `src/`.

## 1. The system

A process owns N *shards*. A shard is an HNSW index in memory, a write-ahead log
and, after a snapshot, two more files. Requests come in over HTTP (the server
that `main.cpp` starts) or gRPC (a library the tests start).

| Part | State | Operations | Who calls it |
|---|---|---|---|
| `wal/wal.cpp` | the mapped file; `next_lsn_`, `checkpoint_lsn_`, `appends_since_ckpt_` | constructor, `append`, `checkpoint`, `replay`, `truncate` | `ShardManager`, `save_and_truncate_wal` |
| `storage/mmap_store.cpp` | the segment file: header, vectors | `create`, `open`, `append`, `get`, `sync` | `save`, `load` |
| `storage/snapshot.cpp` | none of its own; `.seg` and `.graph` | `save`, `load`, `save_and_truncate_wal` | `ShardManager::snapshot_all`, `load_all` |
| `hnsw/index.cpp`, `neighbour_store.cpp` | vectors, adjacency lists, entry point, top layer; one `shared_mutex` | `insert` (exclusive), `search` (shared), `load_from_snapshot` | `ShardManager` |
| `shard/consistent_hash.cpp` | the sorted ring | `get_shard`, `affected_shards_on_add` | `ShardManager` |
| `shard/shard_manager.cpp` | the shards, a `healthy` flag each; no lock | `insert`, `search` (one `std::async` task per shard), `snapshot_all`, `load_all` | both servers |
| `server/rate_limiter.cpp` | a token bucket per client, one mutex | `check` | gRPC `gate` |
| `server/auth_middleware.cpp` | a set of tokens, a switch | `check`, `add_token`, `remove_token`, `set_disabled` | gRPC `gate` |
| `server/grpc_server.cpp` | none | `Insert`, `BulkInsert`, `Search`, `Delete`, `GetInfo`, on several threads | clients |
| `server/http_api.cpp` | listening socket, `running_`, metrics counters | one thread that accepts and serves, one ticker | clients, `main` |
| `proto/vecdb.pb.*` (generated) | the messages of the gRPC service | parse, serialize, size, merge, clear | the gRPC service |
| `simd/distance.cpp` | which kernel was chosen | `init`, `l2_sq`, `cosine` | `HNSWIndex` |

What is hard in it: the files are changed by single stores into mappings and the
process may end between any two; three files must agree although no operation
covers all three; `ShardManager` and `WAL` have no lock although gRPC handlers run
on several threads; what msync has not covered may be lost, in any order, with the
power; a failed shard changes what searches mean; the HTTP server is
one thread that blocks in `recv` and takes what one `recv` returns for the request.
`PROJECT.json` lists each hazard at its line.

What makes each part correct:

* log: a replay delivers every acknowledged entry, in order and nothing else,
  whatever instant the process ended at; the counters describe the file;
* shard: the log and the snapshot together hold every acknowledged vector once,
  and give it back under the node id its client was told;
* index: links stay inside the index and within their limits, the entry point is
  on the top layer, a search returns the nearest nodes it can reach, in order;
* ring: every id has one owner, and a new shard only takes ids, from the shards
  `affected_shards_on_add` names;
* search: merged results are the nearest of the shards' answers, and a missing
  answer is reported;
* rate limiter: a client never gets more than capacity plus refill;
* HTTP server and metrics: requests are answered, `stop` ends, counters add up, ids
  that it assigns are its own;
* gRPC service: what a client sends is what is stored, and what it is told is so;
* messages and kernels: what is written can be read back, what is added up is the
  whole vector.

## 2. Modules

```
DurableLog                 what a client is promised of a log
   ^ implements
WAL  <- MCWAL              the log, store by store             WALProofs
PowerLoss <- MCPowerLoss   the log between page cache and disk PowerLossProofs
RacingInserts <- MCRacingInserts   insert by several threads   RacingInsertsProofs
Shard <- MCShard           one shard: log, snapshot, index     ShardProofs
HashRing <- MCHashRing     which shard owns an id              ShardManagerProofs
Search <- MCSearch         a search over all shards, health    ShardManagerProofs
HnswGraph                  the graph, whatever a search finds  HnswGraphProofs
   ^ implements
HNSW, Kernels <- MCHNSW    the searches, insert by them; the distances  HnswGraphProofs
RateLimiter <- MCRateLimiter who is admitted                   GrpcServiceProofs
Messages                   what the generated protobuf classes do
   ^ both extended by
GrpcService <- MCGrpc      the gRPC service, call to answer    GrpcServiceProofs
Metrics                    the counters, read while they are written
   ^ extends
HttpApi                    parsing, handlers, answers
   ^ extends
HttpServer <- MCHttpServer main, server thread, ticker, clients HttpServerProofs
```

The MC modules hold the values of constants that a `.cfg` cannot express. In a
module a definition under the comment `MUTANT` is a variant of the one after it,
with a plausible mistake; no action uses it. `PROJECT.json` says which property
each one violates when it takes the place of the original.

Three modules look at the log, each at what the others leave out. `WAL` has one
thread, every operation, and ends of the process. `PowerLoss` has one thread, files
of a fixed size, and loses the page cache. `RacingInserts` has several threads, all
of them in `insert`, and no end but the one their own stores bring about.

### WAL (`wal/wal.cpp`)

The file is `file`, `cap` (its size in slots), `hdr` and `slots`; the members of
the class are `next_lsn`, `checkpoint_lsn`, `appends`; `pc` is the next store and
`op` the call it belongs to. Each public call is an action that starts it
(`AppendEntry`, `Checkpoint`, `Truncate`, the constructor's `CreateFile` and
`OpenExisting`) followed by one action per store into the mapping, in the code's
order. `Crash` may come at any of them: it clears the members and keeps the file,
because the page cache outlives the process. `msync` has no effect at this level.

A slot is the record of an entry's fields. The CRC of a payload is represented by
the payload and the CRC of the header by the fields it covers, so a CRC matches
exactly when what it covers is what it was computed from. The payload is many
words: `TearData` lets it be any mixture while it is being copied. A slot of zero
bytes is `Blank`, whose LSN is 0 as in the code.

`Valid` is the test of the scan and of `replay`; `ScanStopsAt(n)` says where both
stop. `known` is a history: the entries a caller has been told of. `damage`
records that a crash hit a truncate that keeps entries (`"entries"`), or came
after the cut and before the header (`"checkpoint"`); no caller in `src/` keeps
entries, so the first only arises in the runs with `MaxKept > 0`.

### DurableLog

Entries are written whole, acknowledged, and discarded from the front. `WAL`
implements it with `entries <- Replay`, the entries a restart would find now, and
`acked <- Len(known)`: property `LogSpec`. Crashes and every single store are
stutters except the one that completes an entry and the one that cuts the file.
While a truncate moves entries that are kept the promise is on what the caller
knows. A crash in there breaks it (`broken`, which maps to `"entries" \in damage`),
and the next truncate that keeps nothing restores it.

### Shard (`shard_manager.cpp`, `snapshot.cpp`, `mmap_store.cpp`)

One shard with its three files. `insert` is `InsertLog`, the two stores of an
automatic checkpoint, and `InsertIndex`, or `InsertIndexThrows`: `HNSWIndex::insert`
raises `next_id_` first, so when it then runs out of memory the entry is in the log
and the node id is taken. The index has a node for it, with the vector in it or
without (`Blank`), and the process may go on, since `BulkInsert` catches everything.
`snapshot_all` is `save` (remove the
segment, create it, append and seal each vector, write the graph) and the
truncate, whose header is again two steps. A write of `save` may fail, loudly
(`SaveThrows`) or when the graph file is closed (`CloseFails`). `Crash` and the three
starts (`StartEmpty`, `StartLoaded`, `StartFails`) are `main.cpp` with and without
`--load`; they read the files by `GraphParses`, `SegmentOpens` and `Loaded`. The log
is used at the level of its calls, which WAL justifies. With `Overlap` an insert
goes on beside a snapshot. The graph file is its count and `reach`, the number of
nodes among which its links were chosen; reading the index's size twice, as the code
does, makes segment and graph differ. `faults` is a history of the sequences the code
has no answer to:

| fault | meaning |
|---|---|
| `save` | the process ended inside `save`, after the old segment was removed, or after a failed one |
| `torn` | a `save` of this process has failed, and none has succeeded since |
| `header` | the process ended between the stores of a log header: the log cannot be opened |
| `stale` | ... after the log was emptied and before its header said so |
| `unsynced` | snapshot and log hold the same vectors |
| `noload`, `noreplay` | a start without `--load`, or without snapshot files, ignored data on disk |
| `overlap` | an insert ran beside a snapshot: it may be in neither |
| `mismatch` | ... so that segment and graph have different counts: `load` refuses |

### PowerLoss (`wal/wal.cpp`, the calls of `msync`)

`cache` is the file as the process sees it, `disk` as it is on the disk, both as the
same record of header and slots; `WriteBack` copies any one page from the one to the
other, `msync` waits until its pages agree. An entry is cut into parts that may lie
on different pages (`PageOf`), so that a slot can arrive on the disk in pieces. The
process may end (the cache stays) or the power (the cache becomes what the disk
holds). `synced` counts the entries that an `msync` has covered, `held` what a slot
was made to hold since the latest truncation.

### RacingInserts (`shard_manager.cpp`, `wal/wal.cpp`, `hnsw/index.cpp`)

Handlers of the gRPC service inside one shard's `insert`. `append` takes no lock: the
loads and stores of `next_lsn_` and `appends_since_ckpt_`, the stores into the slot,
the growth of the mapping and the header stores of the checkpoint are steps of
their own. `++` is a load and a store. A store through a pointer into a mapping that
another thread has replaced kills the process (`Killed`) or does not. The histories
`racedAppends`, `racedInserts`, `racedCheckpoint` say who was in there with whom, and
every property is about what a race can and cannot spoil.

### HashRing (`shard/consistent_hash.cpp`)

`hash` is `hash_key`, any function that keeps the positions of virtual nodes
apart; `ring` is the sorted array as a function from positions to shards, and
`NextAt` is `lower_bound` with the step past the end. `AddShard` builds the ring
again with one more shard: the code never changes a ring in place, but a restart
with another `--shards` and the unit tests do this. `hash_vnode` and `get_shard` hash the
same kind of number with the same function, so an id may *be* a virtual node.

### Search (`ShardManager::search`, `insert`)

Each search launches a task per shard (`Scatter`), waits for the futures in shard
order (`Gather`) and merges. A task reads the health flag (`TaskChecks`) and later
searches or throws; inserts and other searches come between any two of these.
What an index finds is any non-empty set of at most `TopK` nodes, since HNSW
promises no more (`SearchesAnswer`, of the proofs about it), and `partial_sort` may choose among equal distances.

### HnswGraph, HNSW and Kernels (`hnsw/index.cpp`, `neighbour_store.cpp`, `simd/distance.cpp`)

`HnswGraph` is what `insert` does to links, entry point and top layer once its search
has selected neighbours; which ones is left open (`Selectable`). `HNSW` adds the
greedy descent, the beam search, and `Selected`, the neighbours that insert takes;
property `GraphSpec` says that it only selects what `HnswGraph` allows. The loops of
the code (`greedy_search_layer`, the descent, `search_layer`, the loop of `insert`) are
`Rounds` of a function from what a loop is at to all that one round may make of it:
`GreedyRound`, `DescendRound`, `BeamRound`, `SelectRound`. A round of the beam tests one
neighbour or takes the next candidate.
`insert` is one step because it holds the exclusive lock throughout, and `search`
is an operator because it changes nothing. Nodes at the same distance (the same
vector inserted twice, for one) come out of a heap in an order that the code does
not determine: an operator of a search returns the set of all its results, one for
each order in which equal distances may be met.

`Kernels` is how each of the six kernels (`l2_sq` and `cosine`, scalar, AVX2 and AVX-512)
adds up a vector (blocks of lanes, their reduction, the rest that is left over) and which
pair of them `init` chooses from what the processor and the operating system report.
`RegistersSaved` says that it is one whose registers the operating system saves. That the
processor has the instructions is not modelled, and not true (section 5). Floats are integers, so it sees which
terms are added, not how the sum is rounded.

### RateLimiter (`server/rate_limiter.cpp`)

`check` is one step, because of its mutex: `CheckAdmits` or `CheckRejects`. Tokens
are counted in parts, so that the refill of one tick may be a fraction of a token
as with the code's doubles. `since` and `used` count a client's admitted calls in
a window that an observer opens at any time, and `ideal` is the bucket that loses
nothing on a rejection.

### Messages and GrpcService (`proto/vecdb.pb.cc`, `server/grpc_server.cpp`, `auth_middleware.cpp`)

`Messages` is written over a table of the fields of the eleven messages, since protoc
writes the same code for each: `New`, `ParseFrom`, `Serialize`, `ByteSizeLong`. A
message on the wire is a sequence of tokens (number, wire type, value); defaults are
not sent, unknown fields are kept, a varint is cut to the width of its field, and a
`Malformed` token ends a parse.

`GrpcService` takes a call from there (`Arrive`) through the gate, `AuthMiddleware`
and `RateLimiter`, whose clients are what `ctx->peer()` says (`RateLimiter`'s definitions
have names of their own for that, `RateSpec` for one), to its handler and back to what
the client parses.
A stream is read message by message into *one* request object (`BulkRead`), a search
answers with any hits that some shards' tasks may give, `GetInfo` asks the shards one
by one while inserts go on. An insert may throw before the index has a node for it, or
after, and then the node stays, blank or holding the vector, linked or not (`Outcomes`):
the client is told that it failed, and nothing takes the node back. `GrpcService` has the
indexes and no logs. What handlers side by side do to one log is RacingInserts, and what
log and index then have of each other is Shard. A shard
holds at most 2^32 vectors (`HasRoom`): node ids have 32 bits, and no code tests that
they run out. The merge of a search may put equal distances in any order (`Merges`). Tokens are
added and removed and the switch is thrown at any time. Calls run side by side.

### Metrics, HttpApi and HttpServer (`server/http_api.cpp`, `main.cpp`)

`Metrics` makes every access to an atomic a step: the serving thread's `record_*`
between those of the ticker's copy, percentiles and window swap.

`HttpApi` is what is done with a request. `Received` is what the parser makes of a
request of which one `recv` returned only a beginning. A handler is a `Program`: the
list of its steps, each of which reads or changes what others use, the shards one by
one among them. Other users of the shards insert meanwhile (`OtherInsert`).

`HttpServer` adds the threads: `main` is the main thread in `start`, at the key, in
`stop` and in the destructor's second `stop`; `server` is `run` and `handle_client`;
`tick` is the ticker; `client` and `backlog` are the clients and the kernel's queue. A
client may connect and then never send anything, which is what `recv` without a
timeout waits for. An exception in a handler ends the process (`Abort`).

## 3. Runs

| Run | Properties | What it shows |
|---|---|---|
| `wal_full` | `KnownEntriesReplay`, `NoPhantomEntry`, `FileMatchesMemory`, `LogSpec` | nothing a caller knows of is lost and nothing is invented, at any crash; memory and file agree; the log implements `DurableLog` |
| `wal_reopen` (violation) | `KnownEntriesReopen` | a crash between the two stores of a checkpoint makes the log unopenable |
| `power_loss` | `Durable`, `DiskIsPrefix`, `SlotsHoldAppended` | what msync covered survives a loss of power, in whatever order pages were written back; the disk holds no later entry without an earlier one until a start has left some behind; no mixture is ever delivered |
| `inserts_race` | `LoneEntryKept`, `LossNeedsEarlierRace`, `DeliveredWhole`, `ReplayNumbersNodes`, `HeaderSealed` | an entry whose append met no other is never overwritten, and if it is not replayed a race came before it; what a race can do to ids, node numbers and the header |
| `shard_full` | `AckedOnDisk`, `NodeIdsStable`, `FilesGiveBackIndex`, `LogDroppedOnceSaved` | what log, segment and graph file keep together over inserts, some of which throw in the index, snapshots, failing writes, crashes and starts |
| `shard_shipped` (violation) | `AckedAfterStart` | without a snapshot, `--load` does not replay the log |
| `rate_bounds` | `AdmissionBound`, `AdmittedAfterPause` | a client is admitted at most capacity plus refill in any window, and always after a pause |
| `search_full` | `MissingIsExplained`, `SearchReturns` | the four reasons why a vector may be missing from an answer; every search answers |
| `hnsw_full` | `GraphShape`, `NobodyStuck`, `ResultIsLocalMinimum`, `WideSearchIsExact`, `DistancesComputed`, `GraphSpec` | the graph's invariants; a search for one result ends at a local minimum, whatever its `ef` up to the size of the index; with `ef` no narrower than the index it is exact on what can be reached; insert selects what `HnswGraph` assumes; all kernels add up whole vectors, and the chosen one works in saved registers |
| `ring_grows` | `OnlyNewShardGains`, `MovesOnlyFromAffected` | an added shard only gains, from the shards `affected_shards_on_add` names |
| `grpc_full` | `StreamStoredAsSent`, `BulkCounts`, `WrittenInFull`, `AnswersLocate`, `TotalWithinShards` | the nodes, counts and answers are those of what was sent, also where inserts throw with their node left behind; messages survive the way |
| `http_full` | `CountsAddUp`, `PercentilesSound`, `NothingOutlivesServer`, `AutoIdsDistinct`, `AnswersHold`, `EveryoneAnswered`, `StopReturns` | events are counted once; percentiles name buckets in use; automatic ids are distinct; answers are so; requests are answered and `stop` returns unless a client stays silent |

A run marked as a violation checks a sentence of the documentation that the code
contradicts; `findings` in `PROJECT.json` quotes each.

### Bounds

* `wal_*`: three slots, two ids, two vectors of which one is all zeros (the content
  of a blank slot), a checkpoint every two appends, a file that starts with room
  for one entry and grows by one. Every append position, a checkpoint inside an
  append, growth, a truncate at, before and after the checkpoint and a refill of
  the cut file all occur; a fourth slot adds nothing that the third does not, as
  slots are compared only with their own index. Crashes are not bounded.
* `power_loss`: three slots over four pages, of which one slot has its id and its
  checksum on different pages; two entries, four appends, two ends, one truncate: an
  entry lost, appended again in front of a survivor, and truncated.
* `inserts_race`: three handlers, interchangeable (the configuration declares the
  symmetry; all properties speak of all handlers alike); room for one entry, a
  checkpoint every two. Three is enough for a pair that races and one that does not,
  before or after it, and for two checkpoints at once.
* `shard_full`: four inserts, two snapshots, three crashes, one failing write or throwing
  insert; a
  checkpoint every two inserts, so a snapshot happens with the log empty,
  checkpointed and in between; the second snapshot overwrites the first; three
  crashes allow one inside each snapshot and one after.
* `rate_bounds`: a capacity of 7 parts with 3 to a token and 2 per tick, so neither the
  capacity nor a refill is a number of tokens; two clients, four ticks: from full
  to empty and back to full.
* `search_full`: two shards, two searches, three vectors of which two are equally far
  and one is alone on its shard; `TopK` 1. One search can fail while the other is
  before, inside or after its check of the flag.
* `hnsw_full`: five points of a line in every order and on every assignment of two
  layers, two of them equal, two equally far from a third, one far off; lists of two,
  so lists are full and cut from the fourth insert on; a beam of three, which is
  narrower than the graph. The kernels get vectors of 1 to 33 floats of both signs.
* `ring_grows`: every function from seven numbers (six virtual nodes and one other
  id) to seven positions that keeps virtual nodes apart; up to three shards of two
  virtual nodes. All orders of the positions occur, and a wrap past the last one.
* `grpc_full`: two calls of thirteen kinds (`MCScripts`), interchangeable (the
  configuration declares the symmetry; all properties speak of all calls alike): each method, with and without a
  good token, streams with an id 0, with a vector of the wrong size and with a message
  that is cut, a negative `top_k`, a varint too long for its field, an unknown field; a
  stream reads two messages at most, which is enough for what one leaves to the next and for
  two nodes of a call with those of the other between them;
  two shards; 64 values for 64 bits, 16 for 32 and 4 for a byte's seven, so a negative
  int32 still takes more bytes than a positive one and a long varint is still cut. The
  fields of `vecdb.proto` have tags of one byte, which `Messages` takes for granted, and
  `ServiceAssumption` keeps a stream, and all shards together, below 2^64 vectors.
* `http_full`: two clients with thirteen requests, whole or cut, who may both wait in
  the queue, one behind a silent other; one insert by another user of the shards;
  two latency buckets, so percentiles can differ; two shards; ids up to 12 (`MaxId`), of
  which automatic ones use 0 to 2.

Where a bound is a guard (`inserts < MaxInserts`, every vector once, each client
one connection, each call made once) the system comes to rest, and the configuration
does not check deadlock. The runs of `WAL` and `RateLimiter` do: the clock of
`RateLimiter` stops at `MaxTime`, but calls go on.

### Fairness

* `Search`: weak fairness of each search and of each of its tasks. Threads get to
  run and an index search ends; `futures.get` has no limit of its own, so without
  tasks that end `SearchReturns` would not hold.
* `HttpServer`: weak fairness of the main thread inside `stop`, of the server thread
  and of the ticker. Nothing is assumed of clients, of the key or of other users of
  the shards. `EveryoneAnswered` and `StopReturns` are claimed only if no client stays
  silent for ever (`ClientsTalk`): with such a client neither holds, because `recv`
  has no timeout.
* All other properties are safety properties, under no fairness.

## 4. Proofs

The theorems hold for every value of the constants that the modules' assumptions
(`WALAssumption`, `PowerAssumption`, `RacingAssumption`, `ShardAssumption`,
`SearchAssumption` (of Search and of HNSW), `GraphAssumption`, `RingAssumption`, `RateAssumption`,
`MetricsAssumption`, `ApiAssumption`, `HttpAssumption`, `MessagesAssumption`,
`ServiceAssumption`) allow: any number of slots, pages, handlers, shards, searches,
vectors, latency buckets, clients, calls, messages, requests and crashes. Each
inductive invariant was checked by TLC on the constants of the module's run first.

**WALProofs.** `WALTypeCorrect`, `WALDurable` (`KnownEntriesReplay`), `WALNoPhantom`
(`NoPhantomEntry`) and `WALMemoryMatchesFile` (`FileMatchesMemory`) follow from one
inductive invariant `IInv` (theorem `WALInductive`), the type invariant and nine named
parts. `KnownEntriesReplay` alone is not inductive: it says nothing of slots behind
the known ones. The parts say which slots are intact (`InvKnown`: the first
`Len(known)` slots are valid and hold the known entries), that the slots behind are
invalid or hold exactly one entry in the making (`InvFree`, `InvLatest`), how far an
append (`InvAppend`) or a truncate (`InvTruncate`) has come, and what the header holds
at each step (`InvHeader`, `InvCheckpoint`). There is one lemma per action.
`ScanUnique` and `ScanOfIntactFile` replace an induction over the scan loop:
`ScanStopsAt` is stated as a condition on n that at most one n satisfies.
`WALImplementsDurableLog` is the refinement, `Spec => LogSpec`: from the same
invariant, every action is a step of `DurableLog` under the mapping (`Write`,
`Acknowledge`, `Discard`, `Break` and what follows it), or leaves `entries`, `acked` and
`broken` alone.

**PowerLossProofs.** The disk only *lags* behind the cache (`Lagging`: each part of a slot
on it is as in the cache, or still zero), and the cache holds nothing but the known
entries and the append that runs (`Within`). Together they give `PowerDiskIsPrefix`,
for every way of laying entries over pages and every order of write-back. Three things
break them and are excepted where they do: a truncation that the disk has not seen, a
loss of power that undoes one (`Restored`), and a start that leaves slots behind its
scan (`leftover`). `PowerDurable` must not depend on any of them, so `InvSynced` says
of the slots that an msync covered that cache *and* disk hold them; that a later
append never touches them is `InvKnown` (the store goes to slot `Len(known)`).
`PowerSlotsHoldAppended` is `InvHeld`, a bound on each part that all stores keep.
`LeastNat` finds where a scan stops in any file, without induction.

**RacingInsertsProofs.** While nobody overlaps, `next_lsn_`, the number of entries and
the slots say the same (`InvCounters`). From the first race on, `InvRace` keeps
`next_lsn_` behind the first slot that a racing handler was given, and every slot in
front of that one belongs to an append that ran alone (`InvLone`, `InvOwners`). The
counting lemmas (`OneMore`, `HandlerSets`) bound slots by the number of handlers.
`RacingHeaderSealed` needs that a checkpoint that began by itself still is (`InvHeader`).
The proof corrected the model: `DeliveredWhole` used to say that two handlers whose
entries are mixed had raced *each other*. That is true for three handlers, which
`inserts_race` has, and false for five, as TLC confirmed; what holds, and is proved, is that the one whose
payload comes back under a wrong id was not alone.

**ShardProofs.** The properties speak of the files as a start would find them; the
invariant adds what the index holds while the process is up (`InvIndex`), how far a
save has come (`InvSave`) and which entries the log still holds for it (`InvLog`).
Each part is stated under the absence of exactly the faults that break it
(`IndexSound`, `FilesSound`), so the theorems show that no other sequence of inserts,
snapshots, failing writes, crashes and starts does. An insert that throws in the index is no such fault: its node is behind the others in the index and its entry behind
the others in the log, so both stay in step, and only what the node holds may differ
(`GivesBack`). `ShardLogDroppedOnceSaved` is an action property.

**ShardManagerProofs, searches.** `MissingIsExplained` speaks of an answer; `IInv` of the search that
runs: what was gathered was answered, only a task that found something holds hits, and
a health flag that is gone names a search that reported the exception (`InvHealth`).
`Explained` then goes through the reasons. That inserts only add hits (`HitsStay`) is
what makes a choice of the nearest remain one.

**GrpcServiceProofs, the limiter.** `RateBounded` (`AdmissionBound`) needs conservation: what was
spent in a window and what the bucket would be filled to now came from a full bucket
and the refill of the window (`Conserved`), whatever a rejection throws away. With
time stamps in the past (`InvTime`) and `NeverMoreGenerous` (never more tokens than a
bucket that loses nothing) it is inductive. `RatePauseAdmits` is the action property.

**HnswGraphProofs.** The invariants are inductive together (`GraphInductive`), and
`GraphShapeKept` is three of them and the type invariant at once: a
new node finds a neighbour on each of its layers because the entry point is on the
top layer; a list to be cut is one entry too long because lists are bounded; it
keeps some because a limit is at least one. That a list has a farthest node
(`FarthestExists`) comes from the well-foundedness of the strict-subset ordering of
a finite set, which takes the place of an induction over the sort. Nothing is assumed
of distances: ties are allowed.

The searches are proved by two lemmas about `Rounds`: a loop stays in a set that no round
leaves (`RoundsStay`), and it is over after as many rounds as there was to do, if a round
always leaves less (`RoundsEnd`). For the beam the set is `BeamInv`: no visited node is nearer
than every result; the neighbours of a result that is no longer a candidate are
visited; nothing is visited that cannot be reached; and with room for all nodes all
that is tested is a result. What is left to do is `BeamRank`: twice the nodes not yet
visited and those to be tested, and the candidates. So `search_layer` ends
(`SearchLayerEnds`), at a local minimum (`SearchLayerMinimum`) and, when it is wide, with
all that can be reached (`SearchLayerWide`). A search for one result returns the nearest
of a beam of any width, which no neighbour can be nearer than (`OnlyResultIsNearest`).
From these follow `ResultsLocallyMinimal` (`ResultIsLocalMinimum`) and `WideSearches` (`WideSearchIsExact`). `GreedyEndsLowest` says the
same of the greedy loop, whose rank is the number of nodes that are nearer than the one
it is at. `SearchesAnswer` shows that these are no statements about nothing: every search
of an index that holds something has an answer.

`SelectedSelectable` follows the loop of `insert` from the layer where the descent ends down
to 0: the layers above are done and the search of the next one begins on a node of it,
because links stay on their layer. With it each `Insert` is a step of `HnswGraph`, and
`HNSWImplementsGraph` is the refinement `Spec => GraphSpec`; the invariant it needs is again
`GraphInv`, now of the index (`HNSWInductive`).

**HnswGraphProofs, the kernels.** `KernelsAgree` is for vectors of every dimension. After b
blocks the lanes together hold the sum of the first b blocks (`BlocksInLanes`, by adding lane
to lane, `SumPlus`), and a sum is the sum of its two parts (`SumSplit`), the blocks and the
rest. `KernelsKeepRegisters` is about each processor on its own. Both give `DistancesAlways`
(`DistancesComputed`), which only assumes that vectors are numbered by integers, as they are
in `MCHNSW`.

**ShardManagerProofs, the ring.** `RingInv` says that the ring is the one the constructor makes for the
present number of shards. `NextAtOfMore` is the heart: with more positions, the
first one at or after h is an old one, and then it was first before, or a new
one, and then its own owner before was the owner of h. `RingOnlyNewGains`,
`RingMovesFromAffected` and `RingPinsVNodeIds` follow for every hash function.
`RingOwnersExist` is what joins the two halves of the module: `get_shard` names a shard
that exists, for every id and number of shards, which is what `Search` assumes of its
constant `Owner` and `HttpApi` of `ShardOf`.

**HttpServerProofs.** `Control` (theorem `HttpInductive`) says which state of one
thread goes with which of another: what `main` may be waiting for, whether the server
and the ticker have been started, which client the server holds. `HttpNothingOutlives`
is one of its parts. The other theorems are about sums, over latency buckets and over
shards. A sum is the fold of the community modules, defined by a CHOOSE; that
it is well defined and does not depend on the order is proved by an induction over
subsets that takes the *set* of the good subsets (`SubsetInduction`), since the
library's induction theorems have an operator as a parameter. `HttpCountsAddUp` is nearly
inductive as it stands (`RecordOK`: an insert has no bucket). `HttpPercentilesSound`
needs to know of the ticker's copy (`CopyOK`) that no bucket of it exceeds the
real one, which only grows, that it is not empty, and which percentiles of it are
stored already. `HttpAutoIdsDistinct` follows the loop of `total_vectors` over the
shards: every automatic id in a shard is below what the loop has summed up so far and what the
shards still to be read hold (`SoFar + From(loop)`), and that sum is never above the
number of vectors (`AutoOK`), since shards only grow. `HttpAnswersHold` carries what an
insert has stored (`InsertOK`) and what the two loops of an answer have seen (`LoopsOK`)
until the answer is sent. Ids are at most `MaxId`, which is a bound of the
model: the code's ids have 64 bits. In `http_full` no automatic id comes near it. `Floats` is a recursive
function rather than `SelectSeq`, which the prover cannot expand.

**GrpcServiceProofs, the service.** `ServiceInv` (theorem `ServiceInductive`) says of the
data that indexes only hold nodes for vectors of the right size (`DataInv`), and of each
call where it is: what it holds is of its method's types (`CallTyped`), it has done
nothing before it is admitted (`CallFresh`), and its answer is the response its handler
left (`CallAnswered`). A stream has read a prefix of what was sent (`StreamRead`), in each
index its nodes are, in order, those of the messages that were given one, with what
became of them (`StreamPlaced`), and its two counters are its inserts that returned and
what was read (`StreamCounted`); `PairsGrow` counts the nodes over all shards. What
an insert or a search has told stays true because indexes only grow (`CallPlaced`,
`CallFound`). `CallSums` joins what `GetInfo` has listed to what it would now be told of
the other shards, so that each read raises the sum by at least as much as the total.
Calls run side by side, but only one lemma is about that (`OtherCall`): a step of one call
appends nodes of its own to indexes, which is nothing that `CallInv` says of another.

`ServiceLimits` shows that whatever the service does is a behaviour of `RateSpec`, so
`ServiceRateBounded` follows from the theorems about the limiter alone.

`ServiceStreamStored`, `ServiceBulkCounts` and `ServiceWritten` need the codec. `Trip` is its
round trip, for any message over any table of fields: the tokens of a field (`Block`) are
read back as its value, and other fields' tokens and unknown ones do not touch it. That a
message is parsed into a `Cleared` object, not into what the previous one left, makes the
id 0, which proto3 does not send, come out as 0. `SizeTrip` is about lengths:
`ByteSizeLong` adds up field by field what `WireLength` adds up token by token. `VarintSize` is a
recursive function on the values of 64 bits; that it is defined on all of them is
proved by building it (`VarintsExist`).

Induction over numbers and sequences is done on the *set* of those for which a claim holds
(`NatsByInduction`, `SeqByInduction`), as in HttpServerProofs. Where the model could not be
reasoned about, it was corrected: `SetToSortSeq` does not say where equal elements go (now
any order, `Merges`); `SelectSeq` is recursive (now `Picked`, by places in order, `Nth`);
the length of a string is in a table (`TextLength`), because TLA+ does not say that a
string is a sequence.

Only model-checked:

* all liveness (`SearchReturns`, `EveryoneAnswered`, `StopReturns`), which the proof
  system cannot reason about.

## 5. What the models also show, and what they leave out

Read off while modelling; the model of each part behaves this way.

The log:

* `replay` starts at entry 0, not at `checkpoint_lsn` as `wal/wal.hpp:73` says.
* A crash inside a truncate that keeps entries loses kept ones (`wal/wal.hpp:81`).
  Only tests keep any. `wal_full` excuses it by `damage`.
* Two appends at once leave the same slot to both, or a slot to neither. A gap or a
  mixture ends every replay from then on, so entries appended correctly afterwards
  are lost too (`LossNeedsEarlierRace`). The CRC covers the payload only: a vector may
  come back under the id of another one, not necessarily of the one it raced with: a
  counter stored late can bring an append that runs alone to a slot in use
  (`DeliveredWhole`).
* Two checkpoints at once may leave a header that the constructor refuses, until the
  next checkpoint that runs by itself (`HeaderSealed`).
* `grow` unmaps the file under another thread's store, which is then a SIGSEGV.
* After a loss of power slots may survive behind a hole; the next start stops in front
  of the hole, and when it is filled again they come back, if nobody has written over
  them (`leftover`). The header's `checkpoint_lsn` on disk may be ahead of the entries.
* A start works from the page cache, so a torn header that it accepts there may stay
  torn on the disk until the next checkpoint (`torn`). What `msync` returns is ignored.

Shard and snapshots:

* After an automatic checkpoint of everything, `truncate(current_lsn())` does nothing,
  so log and snapshot hold the same vectors and a load brings them back twice
  (`storage/snapshot.hpp:84`: "Keeps WAL and snapshot in sync"). Fault `unsynced`.
* A crash inside `save`, or a `save` that throws, has lost the previous snapshot, whose
  segment was removed first. Faults `save`, `torn`.
* `close()` of the graph file comes after the test of the stream and is not tested
  (`storage/snapshot.cpp:76`; `storage/snapshot.hpp:68` says "Throws on any I/O error"): the
  log is truncated although the graph file is short.
* An insert beside `snapshot_all` may be acknowledged and in no file
  (`storage/snapshot.cpp:283`; `storage/snapshot.hpp:65` says that a read lock is held,
  none is), segment and graph may have different counts so that `load` refuses, and links may lead beyond the segment,
  which `greedy_search_layer` follows untested. Nothing in the server calls
  `snapshot_all`; a caller has to keep inserts away.

Searches and the index:

* A shard that lost its health flag never gets it back, and only the search that saw
  it fail says `degraded` (`shard/shard_manager.cpp:73`; `proto/vecdb.proto:75`: "true if >= 1 shard was
  unavailable").
* All neighbours of a node may cut their link back to it (an outlier's will, in time),
  and then no search finds it (`hnsw/index.cpp:174` claims a recall of about 95 %).
* Ids from 0 to `virtual_nodes - 1`, the first that the HTTP server assigns, are all
  on shard 0 (`RingPinsVNodeIds`), although `shard/consistent_hash.hpp:20` promises a
  small imbalance.
* A processor with AVX512F and without AVX512DQ is taken for one that runs the AVX-512
  kernels (`simd/distance.cpp:206`), which need both (`simd/distance.cpp:10`). And the file
  is compiled as a whole with all the wide instructions allowed (`CMakeLists.txt:37`), so
  nothing keeps the compiler from using them in the scalar kernels. `DistancesComputed`
  says nothing of either: it is about terms and registers.

The servers:

* gRPC search results say shard 0 for every hit (`server/grpc_server.cpp:128`), and node
  ids are local to a shard. Metadata of an insert is accepted and dropped.
* An insert that throws behind `next_id_.fetch_add` leaves its node: a client that is told
  that it failed, and sends it again, has it twice. If a shard's first inserts all throw, it
  has no entry point, and the nodes they left are not found later on.
* A message of a stream that does not parse ends the stream with status OK; what
  follows it is not counted, neither inserted nor failed.
* A rejected call throws away the part of a token refilled so far: a client that
  retries faster than a token refills is rejected for ever (`server/rate_limiter.cpp:34`,
  against `server/rate_limiter.hpp:13`: "Tokens refill
  continuously"). Buckets are per address and port and never go.
* The HTTP server has no authentication and no limiter; errors that a handler finds
  come with status 200; an exception in a handler ends the process; a request that
  `recv` cuts inside its id is stored under a shorter id, before it under an automatic
  one. `main.cpp` starts no gRPC server.
* Percentiles are over all searches since the start, and while the ticker stores
  them a reader may see a p50 above the p95.

Not modelled:

* `http_api-2.cpp`, which is not in the build; the dashboard and the demo client;
  `run_server`, which builds the service from gRPC's library; reflection, arenas and
  swap of the protobuf classes;
* I/O errors outside of `save`: `ftruncate` and `mmap` failures of the log throw out of
  the operation, and the model's files always grow;
* `HnswGraph`, `HNSW` and RacingInserts' `IndexInsert` do not run out of memory. What a
  throwing insert leaves of a node is in `Shard` and `GrpcService`; what it leaves of its
  links is not modelled: a node that is linked on some of its layers may be where a descent
  arrives, and `NobodyStuck` speaks of inserts that return;
* RacingInserts' `Grow` is one step. `grow` computes the new size before `munmap` and leaves
  `map_` null until `mmap` (`wal/wal.cpp:158`), so two that overlap may grow the file once, or
  shrink it again; only handlers that race each other are in there together, and every
  property excuses those;
* an HTTP client that leaves after it has sent its request: `send` without `MSG_NOSIGNAL`
  (`server/http_api.cpp:116`, `:128`) then raises SIGPIPE, which nothing handles, and the process
  may end. To the clients that wait this is an end of the process like `Abort`;
* data races inside `save` while inserts move the vector array: `Shard` takes each
  read as atomic, and what its overlap shows does not depend on it;
* rounding, in the kernels and in the limiter's doubles; the text of the graph file,
  which is complete or not;
* a thread that cannot be started (`std::async` would throw out of `search`);
* the order in which `std::sort` leaves two virtual nodes at the same position;
* loss of power in the segment and graph files: `save` syncs both of them before the
  log is truncated, but not the directory that names them.

## 6. Plan

What is left, in this order:

1. PowerLoss and RacingInserts together with a truncate: neither has the snapshot of
   another thread yet.
2. Loss of power in the files of a snapshot.
