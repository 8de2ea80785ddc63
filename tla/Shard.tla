------------------------------- MODULE Shard -------------------------------
(***************************************************************************)
(* One shard of ShardManager with its three files: the write-ahead log,    *)
(* the segment and the graph of the snapshot.  The actions are the steps   *)
(* of insert, of snapshot_all (save_and_truncate_wal), and of a start of   *)
(* the server with or without --load; the process may die between any two. *)
(*                                                                         *)
(* The log is used at the level of its calls: WAL shows that append makes  *)
(* an entry durable as a whole and in order, and that truncate at the      *)
(* current LSN empties the log in one step.  What WAL shows to be torn by  *)
(* a crash, the header, is a step here too.  The index is the sequence of  *)
(* what its nodes hold, by node id; the graph file is the number of its    *)
(* nodes.  The k-th insert of a behaviour inserts vector k.                *)
(***************************************************************************)
EXTENDS Integers, Sequences

CONSTANTS
    CheckpointEvery,  \* the log's checkpoint_every (ShardManager passes 1000)
    LoadFlags,        \* how the server is started: TRUE with --load
    Overlap,          \* may snapshot_all and insert run at the same time?
    MaxInserts,       \* BOUND: inserts per behaviour
    MaxSnapshots,     \* BOUND: snapshot_all calls per behaviour (no code in the
                      \* server calls it, so 0 is the program as shipped)
    MaxCrashes,       \* BOUND: ends of the process per behaviour
    MaxFailures       \* BOUND: writes of a snapshot that fail (no space left), and
                      \* inserts that throw in the index (no memory left)

ASSUME ShardAssumption ==
    /\ CheckpointEvery \in Nat /\ MaxInserts \in Nat
    /\ MaxSnapshots \in Nat /\ MaxCrashes \in Nat /\ MaxFailures \in Nat
    /\ LoadFlags \subseteq BOOLEAN /\ Overlap \in BOOLEAN

VARIABLES
    log,          \* FILE shard_k.wal: the entries a replay delivers
    hdr,          \* FILE its header: checkpoint_lsn, and whether its CRC matches
    seg,          \* FILE .seg: its vectors, and whether its header CRC matches
    graph,        \* FILE .graph: its vec_count, whether it is all written, and how
                  \* many nodes its links and its entry point were chosen among
    up,           \* "down" | "up" | "failed" (an exception ended main)
    ckpt,         \* WAL::checkpoint_lsn_
    appends,      \* WAL::appends_since_ckpt_
    index,        \* HNSWIndex: what vectors_ holds, in the order of the node ids
    wpc,          \* where insert is: "idle", "ckpt", "seal", "logged"
    spc,          \* where snapshot_all is, see SnapshotSteps
    n,            \* the N that save or write_json_graph has read
    inserts,      \* inserts begun; also the vector of the latest one
    met,          \* HISTORY: the latest insert has run beside snapshot_all
    snapshots, crashes, failures,
    acked,        \* HISTORY: every insert that has returned: its vector, its node
                  \* id, and whether it ran beside no snapshot_all
    faults        \* HISTORY: what has gone wrong in a way the code does not repair

files  == <<log, hdr, seg, graph>>
counts == <<snapshots, crashes, failures>>
vars   == <<files, up, ckpt, appends, index, wpc, spc, n, inserts, met, counts, acked, faults>>

Vectors   == 1..MaxInserts

\* What a node holds that was made for vector v and that v was not copied into:
\* zeros, or what happens to lie there.
Blank(v) == -v
Held     == Vectors \cup {Blank(v) : v \in Vectors}

\* The vector that a node was made for.
Sent(held) == IF held < 0 THEN -held ELSE held

NoSegment == [there |-> FALSE, sealed |-> FALSE, vecs |-> <<>>]
NoGraph   == [there |-> FALSE, whole |-> FALSE, count |-> 0, reach |-> 0]

SaveSteps     == {"create", "seg", "write"}
SnapshotSteps == SaveSteps \cup {"truncate", "header", "seal"}
Faults        == {"save", "header", "unsynced", "stale", "noload", "noreplay",
                  "overlap", "mismatch", "torn"}

Elements(s) == {s[k] : k \in DOMAIN s}

TypeOK ==
    /\ log \in Seq(Vectors)
    /\ hdr \in [ckpt : Nat, sealed : BOOLEAN]
    /\ seg \in [there : BOOLEAN, sealed : BOOLEAN, vecs : Seq(Held)]
    /\ graph \in [there : BOOLEAN, whole : BOOLEAN, count : Nat, reach : Nat]
    /\ up \in {"down", "up", "failed"}
    /\ ckpt \in Nat /\ appends \in Nat
    /\ index \in Seq(Held)
    /\ wpc \in {"idle", "ckpt", "seal", "logged"}
    /\ spc \in {"idle"} \cup SnapshotSteps
    /\ n \in Nat
    /\ inserts \in 0..MaxInserts /\ snapshots \in 0..MaxSnapshots
    /\ crashes \in 0..MaxCrashes /\ failures \in 0..MaxFailures
    /\ met \in BOOLEAN
    /\ acked \subseteq [vec : Vectors, node : Nat, alone : BOOLEAN]
    /\ faults \subseteq Faults

Init ==
    /\ log = <<>> /\ hdr = [ckpt |-> 0, sealed |-> TRUE]
    /\ seg = NoSegment /\ graph = NoGraph
    /\ up = "up" /\ ckpt = 0 /\ appends = 0 /\ index = <<>>
    /\ wpc = "idle" /\ spc = "idle" /\ n = 0
    /\ inserts = 0 /\ met = FALSE /\ snapshots = 0 /\ crashes = 0 /\ failures = 0
    /\ acked = {} /\ faults = {}

-----------------------------------------------------------------------------
(* insert: the log first, then the index                                    *)

InsertLog ==
    /\ up = "up" /\ wpc = "idle" /\ inserts < MaxInserts
    /\ spc = "idle" \/ Overlap
    /\ inserts' = inserts + 1 /\ met' = (spc # "idle")
    /\ faults' = faults \cup (IF spc # "idle" THEN {"overlap"} ELSE {})
    /\ log' = Append(log, inserts + 1)
    /\ IF CheckpointEvery > 0 /\ appends + 1 >= CheckpointEvery
       THEN /\ ckpt' = Len(log) + 1 /\ appends' = 0 /\ wpc' = "ckpt"
       ELSE /\ appends' = appends + 1 /\ wpc' = "logged" /\ UNCHANGED ckpt
    /\ UNCHANGED <<hdr, seg, graph, up, index, spc, n, counts, acked>>

\* The automatic checkpoint of append: the LSN, then the header's CRC.
InsertCheckpoint ==
    /\ wpc = "ckpt"
    /\ hdr' = [ckpt |-> ckpt, sealed |-> FALSE]
    /\ wpc' = "seal"
    /\ UNCHANGED <<log, seg, graph, up, ckpt, appends, index, spc, n, inserts, met, counts, acked, faults>>

InsertSeal ==
    /\ wpc = "seal"
    /\ hdr' = [hdr EXCEPT !.sealed = TRUE]
    /\ wpc' = "logged"
    /\ UNCHANGED <<log, seg, graph, up, ckpt, appends, index, spc, n, inserts, met, counts, acked, faults>>

\* HNSWIndex::insert under its exclusive lock; the caller gets the node id.
InsertIndex ==
    /\ wpc = "logged"
    /\ index' = Append(index, inserts)
    /\ acked' = acked \cup {[vec |-> inserts, node |-> Len(index), alone |-> ~met]}
    /\ wpc' = "idle"
    /\ UNCHANGED <<files, up, ckpt, appends, spc, n, inserts, met, counts, faults>>

\* MUTANT: next_id_ is raised after all that may throw.
InsertIndexThrowsFirst ==
    /\ wpc = "logged" /\ failures < MaxFailures
    /\ failures' = failures + 1
    /\ wpc' = "idle"
    /\ UNCHANGED <<files, up, ckpt, appends, index, spc, n, inserts, met, snapshots, crashes, acked, faults>>

\* It runs out of memory after next_id_ has been raised, before or after the copy of
\* the vector, and BulkInsert goes on.  The entry is in the log by then.
InsertIndexThrows ==
    /\ wpc = "logged" /\ failures < MaxFailures
    /\ \E held \in {inserts, Blank(inserts)} : index' = Append(index, held)
    /\ failures' = failures + 1
    /\ wpc' = "idle"
    /\ UNCHANGED <<files, up, ckpt, appends, spc, n, inserts, met, snapshots, crashes, acked, faults>>

-----------------------------------------------------------------------------
(* snapshot_all: save, then truncate the log at its current LSN             *)

\* A snapshot_all that begins in the middle of an insert.
Meets ==
    /\ met' = (met \/ wpc # "idle")
    /\ faults' = faults \cup (IF wpc # "idle" THEN {"overlap"} ELSE {})

\* save reads the size and removes the segment of the previous snapshot.
RemoveSegment ==
    /\ up = "up" /\ spc = "idle" /\ snapshots < MaxSnapshots
    /\ wpc = "idle" \/ Overlap
    /\ snapshots' = snapshots + 1
    /\ n' = Len(index)
    /\ seg' = NoSegment
    /\ spc' = "create"
    /\ Meets
    /\ UNCHANGED <<log, hdr, graph, up, ckpt, appends, index, wpc, inserts, crashes, failures, acked>>

\* MmapStore::create: a file without a valid header at first.
CreateSegment ==
    /\ spc = "create"
    /\ seg' = [there |-> TRUE, sealed |-> FALSE, vecs |-> <<>>]
    /\ spc' = "seg"
    /\ UNCHANGED <<log, hdr, graph, up, ckpt, appends, index, wpc, n, inserts, met, counts, acked, faults>>

\* write_header, and the CRC store that ends every MmapStore::append.
SealSegment ==
    /\ spc = "seg" /\ ~seg.sealed
    /\ seg' = [seg EXCEPT !.sealed = TRUE]
    /\ UNCHANGED <<log, hdr, graph, up, ckpt, appends, index, wpc, spc, n, inserts, met, counts, acked, faults>>

\* MmapStore::append up to its store of vec_count.
AppendSegment ==
    /\ spc = "seg" /\ seg.sealed /\ Len(seg.vecs) < n
    /\ seg' = [seg EXCEPT !.sealed = FALSE,
                          !.vecs = Append(@, index[Len(seg.vecs) + 1])]
    /\ UNCHANGED <<log, hdr, graph, up, ckpt, appends, index, wpc, spc, n, inserts, met, counts, acked, faults>>

\* write_json_graph reads the size again and truncates the old graph file.
OpenGraph ==
    /\ spc = "seg" /\ seg.sealed /\ Len(seg.vecs) = n
    /\ n' = Len(index)
    /\ graph' = [NoGraph EXCEPT !.there = TRUE]
    /\ spc' = "write"
    /\ faults' = faults \cup (IF Len(index) # n THEN {"mismatch"} ELSE {})
    /\ UNCHANGED <<log, hdr, seg, up, ckpt, appends, index, wpc, inserts, met, counts, acked>>

\* MUTANT: the graph is not flushed before the log is truncated.
WriteGraphUnflushed ==
    /\ spc = "write"
    /\ graph' = [there |-> TRUE, whole |-> FALSE, count |-> n, reach |-> Len(index)]
    /\ spc' = "truncate"
    /\ UNCHANGED <<log, hdr, seg, up, ckpt, appends, index, wpc, n, inserts, met, counts, acked, faults>>

\* The lists of the first n nodes, as they are while the file is written.  What an
\* earlier save has left torn is whole now.
WriteGraph ==
    /\ spc = "write"
    /\ graph' = [there |-> TRUE, whole |-> TRUE, count |-> n, reach |-> Len(index)]
    /\ spc' = "truncate"
    /\ faults' = faults \ {"torn"}
    /\ UNCHANGED <<log, hdr, seg, up, ckpt, appends, index, wpc, n, inserts, met, counts, acked>>

\* A file cannot be created, sized or mapped (create, grow), or the stream finds that
\* a write failed: save throws, and the caller of snapshot_all goes on.
SaveThrows ==
    /\ spc \in SaveSteps /\ failures < MaxFailures
    /\ failures' = failures + 1
    /\ spc' = "idle"
    /\ faults' = faults \cup {"torn"}
    /\ UNCHANGED <<files, up, ckpt, appends, index, wpc, n, inserts, met, snapshots, crashes, acked>>

\* The stream is tested before close() writes out what it still holds, and close's
\* result is not: the file ends early and the log is truncated all the same.
CloseFails ==
    /\ spc = "write" /\ failures < MaxFailures
    /\ failures' = failures + 1
    /\ spc' = "truncate"
    /\ faults' = faults \cup {"torn"}
    /\ UNCHANGED <<files, up, ckpt, appends, index, wpc, n, inserts, met, snapshots, crashes, acked>>

\* WAL::truncate(current_lsn()): its early return leaves a checkpointed log as
\* it is; otherwise the entries go before the header is written again.
TruncateReturns ==
    /\ spc = "truncate" /\ Len(log) <= ckpt
    /\ spc' = "idle"
    /\ faults' = IF log = <<>> THEN faults ELSE faults \cup {"unsynced"}
    /\ UNCHANGED <<files, up, ckpt, appends, index, wpc, n, inserts, met, counts, acked>>

TruncateLog ==
    /\ spc = "truncate" /\ Len(log) > ckpt
    /\ log' = <<>> /\ ckpt' = 0 /\ appends' = 0
    /\ spc' = "header"
    /\ UNCHANGED <<hdr, seg, graph, up, index, wpc, n, inserts, met, counts, acked, faults>>

TruncateHeader ==
    /\ spc = "header"
    /\ hdr' = [ckpt |-> 0, sealed |-> FALSE]
    /\ spc' = "seal"
    /\ UNCHANGED <<log, seg, graph, up, ckpt, appends, index, wpc, n, inserts, met, counts, acked, faults>>

TruncateSeal ==
    /\ spc = "seal"
    /\ hdr' = [hdr EXCEPT !.sealed = TRUE]
    /\ spc' = "idle"
    /\ UNCHANGED <<log, seg, graph, up, ckpt, appends, index, wpc, n, inserts, met, counts, acked, faults>>

Snapshot ==
    \/ RemoveSegment \/ CreateSegment \/ SealSegment \/ AppendSegment
    \/ OpenGraph \/ WriteGraph \/ SaveThrows \/ CloseFails
    \/ TruncateReturns \/ TruncateLog \/ TruncateHeader \/ TruncateSeal

-----------------------------------------------------------------------------
(* The end of the process and its next start                                *)

\* main returns or the process is killed, at any step: its memory is gone.  (A start
\* that runs out of memory is a start and then this: it has written nothing.)
Crash ==
    /\ up = "up" /\ crashes < MaxCrashes
    /\ up' = "down" /\ crashes' = crashes + 1
    /\ ckpt' = 0 /\ appends' = 0 /\ index' = <<>> /\ wpc' = "idle" /\ spc' = "idle" /\ n' = 0
    /\ faults' = (faults \ {"torn"})
          \cup (IF spc \in SaveSteps \/ "torn" \in faults THEN {"save"} ELSE {})
          \cup (IF spc = "truncate" /\ log # <<>> THEN {"unsynced"} ELSE {})
          \cup (IF spc = "header" /\ hdr.ckpt > 0 THEN {"stale"} ELSE {})
          \cup (IF ~hdr.sealed THEN {"header"} ELSE {})
    /\ UNCHANGED <<files, inserts, met, snapshots, failures, acked>>

\* parse_json_graph: a text that ends early fails where the next character is expected.
GraphParses == graph.there /\ graph.whole

\* MmapStore::open: a header of zero bytes, or one whose CRC does not match, is refused.
SegmentOpens == seg.there /\ seg.sealed

\* storage::load accepts the two files.
Loadable == GraphParses /\ SegmentOpens /\ Len(seg.vecs) = graph.count

\* load_from_snapshot: the vectors get the node ids of their places in the segment.
Loaded == seg.vecs

\* The WAL constructor has opened the log; load_all only looks at it when both
\* snapshot files exist.
StartEmpty(load) ==
    /\ up # "up" /\ load \in LoadFlags /\ hdr.sealed
    /\ load => ~seg.there \/ ~graph.there
    /\ index' = <<>>
    /\ up' = "up" /\ ckpt' = hdr.ckpt /\ appends' = 0
    /\ faults' = IF log = <<>> /\ seg.vecs = <<>> THEN faults
                 ELSE faults \cup {IF load THEN "noreplay" ELSE "noload"}
    /\ UNCHANGED <<files, wpc, spc, n, inserts, met, counts, acked>>

\* MUTANT: load_all loads the snapshot and does not replay the log.
StartLoadedNoReplay ==
    /\ up # "up" /\ TRUE \in LoadFlags /\ hdr.sealed /\ Loadable
    /\ index' = Loaded
    /\ up' = "up" /\ ckpt' = hdr.ckpt /\ appends' = 0
    /\ UNCHANGED <<files, wpc, spc, n, inserts, met, counts, acked, faults>>

\* MUTANT: load_all replays the log before the snapshot.
StartLoadedReplayFirst ==
    /\ up # "up" /\ TRUE \in LoadFlags /\ hdr.sealed /\ Loadable
    /\ index' = log \o Loaded
    /\ up' = "up" /\ ckpt' = hdr.ckpt /\ appends' = 0
    /\ UNCHANGED <<files, wpc, spc, n, inserts, met, counts, acked, faults>>

StartLoaded ==
    /\ up # "up" /\ TRUE \in LoadFlags /\ hdr.sealed /\ Loadable
    /\ index' = Loaded \o log
    /\ up' = "up" /\ ckpt' = hdr.ckpt /\ appends' = 0
    /\ UNCHANGED <<files, wpc, spc, n, inserts, met, counts, acked, faults>>

\* The WAL constructor or storage::load throws, and nothing in main catches it.
StartFails ==
    /\ up = "down"
    /\ \/ ~hdr.sealed
       \/ TRUE \in LoadFlags /\ seg.there /\ graph.there /\ ~Loadable
    /\ up' = "failed"
    /\ UNCHANGED <<files, ckpt, appends, index, wpc, spc, n, inserts, met, counts, acked, faults>>

Next ==
    \/ InsertLog \/ InsertCheckpoint \/ InsertSeal \/ InsertIndex \/ InsertIndexThrows
    \/ Snapshot
    \/ Crash
    \/ \E load \in BOOLEAN : StartEmpty(load)
    \/ StartLoaded \/ StartFails

Spec == Init /\ [][Next]_vars

-----------------------------------------------------------------------------
(* Properties.  `faults' names the sequences that the code has no answer to.  *)

\* What load_all makes of the files.
Recovered == (IF Loadable THEN seg.vecs ELSE <<>>) \o log

\* Snapshots and starts between them never let go of an acknowledged vector: at
\* every step but those of a save it is in the log or in a snapshot that load
\* accepts, unless its insert ran beside snapshot_all, and also if others' did.
\* After a save that failed that holds again from the next one that succeeds, if the
\* process lives so long.  (truncate comes after save; load_all replays on top of load.)
AckedOnDisk ==
    spc \notin SaveSteps /\ faults \cap {"save", "noload", "noreplay", "mismatch", "torn"} = {} =>
        \A r \in acked : r.alone => r.vec \in Elements(Recovered)

\* A vector keeps the node id its client was given, over snapshots, crashes, starts
\* and other inserts that throw in the index; no vector is under two node ids, one
\* whose insert threw and that a replay brings back included.  (Searches return ids.)
NodeIdsStable ==
    up = "up" /\ faults = {} =>
        /\ \A r \in acked : r.node < Len(index) /\ index[r.node + 1] = r.vec
        /\ \A j, k \in DOMAIN index : Sent(index[j]) = Sent(index[k]) => j = k

\* The files have for every node of the index what it holds; only where an insert
\* threw before the copy may they have the vector it did not copy.
GivesBack(found, held) ==
    /\ Len(found) = Len(held)
    /\ \A k \in DOMAIN held : found[k] \in {held[k], Sent(held[k])}

\* Whenever no call runs, a start with --load would give back the index node by node,
\* if there is a snapshot: the log holds exactly what came after it, the entries of
\* inserts that threw in the index included, for these have taken their node ids.  And
\* no link of the graph leads to a node that the segment does not have.  (Searches
\* read the vector of a link's node without a test.)
FilesGiveBackIndex ==
    /\ TypeOK
    /\ up = "up" /\ wpc = "idle" /\ spc = "idle" /\ Loadable /\ faults = {} =>
         GivesBack(Recovered, index) /\ graph.reach <= Len(seg.vecs)

\* An entry leaves the log only in a step that finds its node in a loadable snapshot,
\* if close() did not fail: with its vector, or as its insert left it when it threw.
LogDroppedOnceSaved ==
    [][faults \cap {"noload", "noreplay", "overlap", "torn"} = {} =>
         \A v \in Elements(log) \ Elements(log') :
             Loadable /\ (v \in Elements(seg.vecs) \/ Blank(v) \in Elements(seg.vecs))]_vars

-----------------------------------------------------------------------------
(* Statements of the documentation and the tests that the code contradicts. *)

\* README 8.4 "The WAL is replayed ... valid entries are re-inserted into a
\* fresh HNSW index": an acknowledged vector is in the index after a start.
AckedAfterStart ==
    up = "up" => \A r \in acked : r.vec \in Elements(index)
=============================================================================
