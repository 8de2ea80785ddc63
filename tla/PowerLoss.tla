------------------------------ MODULE PowerLoss ------------------------------
(***************************************************************************)
(* The write-ahead log and a loss of power.  WAL shows what the file holds *)
(* when the process ends; here the machine does.  The stores go to pages   *)
(* of the page cache; the kernel writes any of them to the disk at any     *)
(* time, in any order, and msync(MS_SYNC) waits until the ones it names    *)
(* have been.  A loss of power leaves what is on the disk.                 *)
(*                                                                         *)
(* A page is what the disk writes as a whole.  An entry lies across pages  *)
(* as the layout says; vector_id and CRC may be on different ones, since   *)
(* entries are not aligned.  Taken from the file system: a truncation      *)
(* reaches the disk as a whole, and before anything written to the file    *)
(* after it.  ShardManager's truncate keeps nothing, so this one does too. *)
(* The file has its final size (WAL covers growth).                        *)
(***************************************************************************)
EXTENDS Naturals, Sequences

CONSTANTS
    Entries,          \* what clients append: an id and a vector of its own
    Zero,             \* fields of zero bytes
    MaxSlots,         \* BOUND: appends stop when this many slots are in use
    Pages,            \* pages of the file; the header is on page 0
    PageOf,           \* the page of a slot's "ids" (LSN, vector_id, dim), its
                      \* "crc" and its "data" (the last page, if more than one)
    CheckpointEvery,  \* checkpoint_every_
    MaxAppends,       \* BOUND: appends per behaviour
    MaxEnds,          \* BOUND: ends of the process or of the power
    MaxTruncates      \* BOUND: truncates

Slots == 0..(MaxSlots - 1)
Parts == {"ids", "crc", "data"}

ASSUME PowerAssumption ==
    /\ Zero \notin Entries
    /\ MaxSlots \in Nat /\ CheckpointEvery \in Nat \ {0}
    /\ MaxAppends \in Nat /\ MaxEnds \in Nat /\ MaxTruncates \in Nat
    /\ 0 \in Pages /\ PageOf \in [Slots -> [Parts -> Pages]]
    /\ 0 \in Slots => PageOf[0]["ids"] = 0 /\ PageOf[0]["crc"] = 0

VARIABLES
    cache,            \* the file as the process sees it: hdr, slots
    disk,             \* the file as a restart after a loss of power sees it
    cutting,          \* a truncation that has not reached the disk: of the
                      \* running truncate, or of one that a crash has ended
    pc,               \* the next step of the process
    next_lsn, checkpoint_lsn, appends,   \* the members of WAL
    arg,              \* the entry of the running append
    known,            \* HISTORY: entries acknowledged, or counted by the
                      \* latest start, and not truncated since
    synced,           \* HISTORY: how many of them an msync has covered
    held,             \* HISTORY: what each slot has been made to hold since
                      \* the latest truncation
    leftover,         \* HISTORY: a start has stopped in front of slots that
                      \* were not blank
    torn,             \* HISTORY: an end has come between the stores of a header
                      \* and its msync, and none has finished since
    budget            \* appends, ends and truncates so far

members == <<next_lsn, checkpoint_lsn, appends>>
history == <<known, synced, held, leftover, torn>>
vars    == <<cache, disk, cutting, pc, members, arg, history, budget>>

Blank     == [ids |-> Zero, crc |-> Zero, data |-> Zero]
NoSlots   == [k \in Slots |-> Blank]
Whole(e)  == [ids |-> e, crc |-> e, data |-> e]

\* MUTANT: the checksum of the payload is not compared.
ValidIgnoresCrc(f, k) == f.slots[k].ids # Zero

\* The test of the scan and of replay.  A blank slot fails it: its dim is 0, and
\* 0 is not the checksum of anything.
Valid(f, k) ==
    /\ f.slots[k].ids # Zero /\ f.slots[k].crc # Zero
    /\ f.slots[k].crc = f.slots[k].data

\* What replay makes of a file: the entries up to the first slot that fails.
ScanLength(f) == CHOOSE n \in 0..MaxSlots :
                    /\ \A k \in 0..(n - 1) : Valid(f, k)
                    /\ n < MaxSlots => ~Valid(f, n)
Replay(f) == [k \in 1..ScanLength(f) |->
                 [vid |-> f.slots[k-1].ids, vec |-> f.slots[k-1].data]]
Pair(e)   == [vid |-> e, vec |-> e]

HeaderOk(f) == f.hdr.crc = f.hdr.ckpt

SyncSteps == {"sync_ckpt", "sync_cut", "sync_hdr", "sync_exit"}
File == [hdr : [ckpt : Nat, crc : Nat],
         slots : [Slots -> [Parts -> Entries \cup {Zero}]]]

TypeOK ==
    /\ cache \in File /\ disk \in File /\ cutting \in {"no", "truncate", "orphan"}
    /\ pc \in {"idle", "down", "refused", "ids", "crc", "data", "count", "ckpt_lsn",
               "ckpt_crc", "cut", "hdr_lsn", "hdr_crc"} \cup SyncSteps
    /\ next_lsn \in 0..MaxSlots /\ checkpoint_lsn \in 0..MaxSlots
    /\ appends \in 0..CheckpointEvery
    /\ arg \in Entries
    /\ known \in Seq([vid : Entries, vec : Entries]) /\ synced \in 0..Len(known)
    /\ held \in [Slots -> SUBSET Entries]
    /\ leftover \in BOOLEAN /\ torn \in BOOLEAN
    /\ budget \in [appends : 0..MaxAppends, ends : 0..MaxEnds,
                   truncates : 0..MaxTruncates]

Init ==
    /\ cache = [hdr |-> [ckpt |-> 0, crc |-> 0], slots |-> NoSlots] /\ disk = cache
    /\ cutting = "no"
    /\ pc = "idle" /\ next_lsn = 0 /\ checkpoint_lsn = 0 /\ appends = 0
    /\ arg \in Entries
    /\ known = <<>> /\ synced = 0 /\ held = [k \in Slots |-> {}]
    /\ leftover = FALSE /\ torn = FALSE
    /\ budget = [appends |-> 0, ends |-> 0, truncates |-> 0]

-----------------------------------------------------------------------------
(* The kernel                                                                *)

OnPage(k, part, p) == PageOf[k][part] = p

\* f with page p as g has it.
WithPage(f, g, p) ==
    [hdr   |-> IF p = 0 THEN g.hdr ELSE f.hdr,
     slots |-> [k \in Slots |-> [part \in Parts |->
                   IF OnPage(k, part, p) THEN g.slots[k][part] ELSE f.slots[k][part]]]]

Clean(p) == cutting = "no" /\ WithPage(disk, cache, p) = disk

WriteBack(p) ==
    /\ cutting = "no" /\ ~Clean(p)
    /\ disk' = WithPage(disk, cache, p)
    /\ UNCHANGED <<cache, cutting, pc, members, arg, history, budget>>

\* The truncation reaches the disk; the 64 bytes of the header stay.
CommitCut ==
    /\ cutting # "no"
    /\ cutting' = "no"
    /\ disk' = [disk EXCEPT !.slots = NoSlots]
    /\ UNCHANGED <<cache, pc, members, arg, history, budget>>

-----------------------------------------------------------------------------
(* append                                                                    *)

AppendEntry(e) ==
    /\ pc = "idle" /\ next_lsn < MaxSlots /\ budget.appends < MaxAppends
    /\ arg' = e /\ pc' = "ids"
    /\ budget' = [budget EXCEPT !.appends = @ + 1]
    /\ UNCHANGED <<cache, disk, cutting, members, history>>

SlotStore(part, to) ==
    /\ pc = part
    /\ cache' = [cache EXCEPT !.slots[next_lsn][part] = arg]
    /\ pc' = to
    /\ UNCHANGED <<disk, cutting, members, arg, budget>>

StoreEntry ==
    \/ /\ SlotStore("ids", "crc")
       /\ held' = [held EXCEPT ![next_lsn] = @ \cup {arg}]
       /\ UNCHANGED <<known, synced, leftover, torn>>
    \/ SlotStore("crc", "data") /\ UNCHANGED history
    \/ SlotStore("data", "count") /\ UNCHANGED history

CountAppend ==
    /\ pc = "count"
    /\ next_lsn' = next_lsn + 1
    /\ known' = Append(known, Pair(arg))
    /\ IF appends + 1 >= CheckpointEvery
       THEN checkpoint_lsn' = next_lsn + 1 /\ appends' = 0 /\ pc' = "ckpt_lsn"
       ELSE appends' = appends + 1 /\ pc' = "idle" /\ UNCHANGED checkpoint_lsn
    /\ UNCHANGED <<cache, disk, cutting, arg, synced, held, leftover, torn, budget>>

-----------------------------------------------------------------------------
(* checkpoint: the header, then msync of the whole mapping                   *)

HeaderStore(from, to, h) ==
    /\ pc = from
    /\ cache' = [cache EXCEPT !.hdr = h]
    /\ pc' = to
    /\ UNCHANGED <<disk, cutting, members, arg, history, budget>>

CkptStoreLsn == HeaderStore("ckpt_lsn", "ckpt_crc", [cache.hdr EXCEPT !.ckpt = checkpoint_lsn])
CkptStoreCrc == HeaderStore("ckpt_crc", "sync_ckpt", [cache.hdr EXCEPT !.crc = cache.hdr.ckpt])

\* MUTANT: MS_ASYNC; the call returns without waiting.
SyncedAsync(pages) == TRUE

\* msync(MS_SYNC) of these pages may return.
Synced(pages) == \A p \in pages : Clean(p)

CkptReturns ==
    /\ pc = "sync_ckpt" /\ Synced(Pages)
    /\ synced' = Len(known) /\ torn' = FALSE
    /\ pc' = "idle"
    /\ UNCHANGED <<cache, disk, cutting, members, arg, known, held, leftover, budget>>

-----------------------------------------------------------------------------
(* truncate(current_lsn()): msync, cut, new header, msync of the header      *)

Truncate ==
    /\ pc = "idle" /\ next_lsn > checkpoint_lsn
    /\ budget.truncates < MaxTruncates
    /\ budget' = [budget EXCEPT !.truncates = @ + 1]
    /\ next_lsn' = 0 /\ checkpoint_lsn' = 0 /\ appends' = 0
    /\ pc' = "sync_cut"
    /\ UNCHANGED <<cache, disk, cutting, arg, history>>

\* MUTANT: the file is not cut.
CutFileKeepsSlots ==
    /\ pc = "sync_cut" /\ Synced(Pages)
    /\ cutting' = "truncate"
    /\ known' = <<>> /\ synced' = 0
    /\ held' = [k \in Slots |-> {}] /\ leftover' = FALSE
    /\ pc' = "hdr_lsn"
    /\ UNCHANGED <<cache, disk, members, arg, torn, budget>>

CutFile ==
    /\ pc = "sync_cut" /\ Synced(Pages)
    /\ cache' = [cache EXCEPT !.slots = NoSlots]
    /\ cutting' = "truncate"
    /\ known' = <<>> /\ synced' = 0
    /\ held' = [k \in Slots |-> {}] /\ leftover' = FALSE
    /\ pc' = "hdr_lsn"
    /\ UNCHANGED <<disk, members, arg, torn, budget>>

TruncStoreLsn == HeaderStore("hdr_lsn", "hdr_crc", [cache.hdr EXCEPT !.ckpt = 0])
TruncStoreCrc == HeaderStore("hdr_crc", "sync_hdr", [cache.hdr EXCEPT !.crc = cache.hdr.ckpt])

TruncateReturns ==
    /\ pc = "sync_hdr" /\ Synced({0})
    /\ torn' = FALSE
    /\ pc' = "idle"
    /\ UNCHANGED <<cache, disk, cutting, members, arg, known, synced, held, leftover, budget>>

-----------------------------------------------------------------------------
(* The end and the next start                                                *)

MidHeader == pc \in {"ckpt_crc", "sync_ckpt", "hdr_crc", "sync_hdr"}

Ends ==
    /\ budget.ends < MaxEnds
    /\ budget' = [budget EXCEPT !.ends = @ + 1]
    /\ next_lsn' = 0 /\ checkpoint_lsn' = 0 /\ appends' = 0

\* The destructor flushes before it unmaps.
Exit ==
    /\ pc = "idle"
    /\ pc' = "sync_exit"
    /\ UNCHANGED <<cache, disk, cutting, members, arg, history, budget>>

Exited ==
    /\ pc = "sync_exit" /\ Synced(Pages)
    /\ Ends
    /\ synced' = Len(known) /\ torn' = FALSE
    /\ pc' = "down"
    /\ UNCHANGED <<cache, disk, cutting, arg, known, held, leftover>>

\* The process dies: the page cache does not.
Crash ==
    /\ pc \notin {"down", "refused"} /\ Ends
    /\ pc' = "down"
    /\ cutting' = IF cutting = "no" THEN "no" ELSE "orphan"
    /\ torn' = (torn \/ MidHeader)
    /\ UNCHANGED <<cache, disk, arg, known, synced, held, leftover>>

\* If the truncation has not been committed, the file is as before it, and what
\* was in it counts again.
LosePower ==
    /\ Ends
    /\ cache' = disk /\ cutting' = "no"
    /\ pc' = "down"
    /\ IF cutting # "no"
       THEN /\ known' = Replay(disk)
            /\ held' = [k \in Slots |-> {disk.slots[k][part] : part \in Parts} \ {Zero}]
       ELSE UNCHANGED <<known, held>>
    /\ torn' = (torn \/ MidHeader)
    /\ UNCHANGED <<disk, arg, synced, leftover>>

\* The constructor: the entries it counts are the known ones from here on.
Open ==
    /\ pc = "down" /\ HeaderOk(cache)
    /\ next_lsn' = ScanLength(cache) /\ checkpoint_lsn' = cache.hdr.ckpt
    /\ known' = Replay(cache)
    /\ synced' = IF synced <= ScanLength(cache) THEN synced ELSE ScanLength(cache)
    /\ leftover' = (leftover \/ \E k \in Slots : k >= ScanLength(cache)
                                                  /\ cache.slots[k] # Blank)
    /\ pc' = "idle"
    /\ UNCHANGED <<cache, disk, cutting, appends, arg, held, torn, budget>>

OpenRefused ==
    /\ pc = "down" /\ ~HeaderOk(cache)
    /\ pc' = "refused"
    /\ UNCHANGED <<cache, disk, cutting, members, arg, history, budget>>

Next ==
    \/ \E p \in Pages : WriteBack(p)
    \/ CommitCut
    \/ \E e \in Entries : AppendEntry(e)
    \/ StoreEntry \/ CountAppend
    \/ CkptStoreLsn \/ CkptStoreCrc \/ CkptReturns
    \/ Truncate \/ CutFile \/ TruncStoreLsn \/ TruncStoreCrc \/ TruncateReturns
    \/ Exit \/ Exited \/ Crash \/ LosePower \/ Open \/ OpenRefused

Spec == Init /\ [][Next]_vars

-----------------------------------------------------------------------------
(* Properties.  They speak of `disk', so of a loss of power at any instant.  *)

\* An entry that a finished checkpoint (or a clean exit) has covered is in the
\* disk's log at its place, until a truncate: whatever was appended, written
\* back in part, or lost and appended again behind it.
SyncedSurvives ==
    LET r == Replay(disk) IN
    \A k \in 1..synced : k <= Len(r) /\ r[k] = known[k]

\* Until a start has left slots behind its end, what the disk gives back is a
\* beginning of what the process knows, or that and the running append: no
\* later entry without an earlier one, and after a truncate none from before.
DiskIsPrefix ==
    ~leftover /\ cutting = "no" =>
        LET r == Replay(disk)
            all == Append(known, Pair(arg))
        IN  Len(r) <= Len(all) /\ r = SubSeq(all, 1, Len(r))

\* Even after that, a slot gives back a vector that was appended there since
\* the latest truncation: no mixture of two payloads passes the checksum.
SlotsHoldAppended ==
    cutting = "no" => \A k \in 1..ScanLength(disk) :
                    Replay(disk)[k].vec \in held[k-1] /\ Replay(disk)[k].vid \in held[k-1]

\* Outside the two stores of a header and the msync behind them the header on the
\* disk is one the constructor accepts, unless an end has come in there before:
\* a start then works from the cache, and the disk may keep the torn header until
\* the next checkpoint.
HeaderDurable == ~torn /\ ~MidHeader => HeaderOk(disk)

\* When a truncate has returned its cut is on the disk: power lost later brings
\* no discarded entry back beside the snapshot that holds it.
CutIsDurable == cutting = "truncate" => pc \in {"hdr_lsn", "hdr_crc", "sync_hdr"}

\* What msync was asked for, and waited for, is there after a loss of power.
Durable == TypeOK /\ SyncedSurvives /\ HeaderDurable /\ CutIsDurable
=============================================================================
