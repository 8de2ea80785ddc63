-------------------------------- MODULE WAL --------------------------------
(***************************************************************************)
(* The write-ahead log of one shard: wal/wal.cpp, at the grain of the      *)
(* single stores the process makes into the memory-mapped file, with a     *)
(* crash of the process possible between any two of them.                  *)
(*                                                                         *)
(* A crash of the process keeps the page cache, so the file holds exactly  *)
(* the stores made before it (file, cap, hdr, slots survive; the members   *)
(* of class WAL do not).  msync is therefore invisible here.  CRC32 is     *)
(* taken to be injective: the checksum of a payload is represented by the  *)
(* payload itself, the checksum of the header by the header's fields.      *)
(***************************************************************************)
EXTENDS Naturals, Sequences

CONSTANTS
    VectorIds,        \* client ids
    ZeroId,           \* id 0, which a slot full of zero bytes holds
    Vecs,             \* vectors of dim floats
    Zero,             \* the all-zero vector, which such a slot holds too
    Torn,             \* a payload that is part of one vector and part of another
    NoCrc,            \* a checksum field holding zero bytes
    Dim,              \* dim_
    CheckpointEvery,  \* checkpoint_every_, 0 for never
    InitialSlots,     \* slots that fit in INITIAL_SIZE
    GrowSlots,        \* slots that fit in GROW_SIZE
    MaxSlots,         \* BOUND: appends stop when this many slots are in use
    MaxKept           \* BOUND: the most entries a caller's truncate keeps; the
                      \* one caller in the program, save_and_truncate_wal, keeps 0

\* crc32 of dim zero floats is not 0 and no torn payload matches a checksum;
\* the constructor rejects dim = 0, and one GROW_SIZE has room for an entry.
ASSUME WALAssumption ==
    /\ Dim \in Nat \ {0}
    /\ CheckpointEvery \in Nat
    /\ InitialSlots \in Nat
    /\ GrowSlots \in Nat \ {0}
    /\ MaxSlots \in Nat
    /\ MaxKept \in Nat
    /\ ZeroId \in VectorIds /\ Zero \in Vecs
    /\ NoCrc \notin Vecs \cup {Torn} /\ Torn \notin Vecs

VARIABLES
    file,             \* "absent" | "empty" (no header yet) | "sized"
    cap,              \* how many slots the file has room for
    hdr,              \* the 64-byte file header
    slots,            \* the entry slots behind the header
    pc,               \* the next store of the process, see Steps
    op,               \* the public call it is part of
    next_lsn,         \* next_lsn_
    checkpoint_lsn,   \* checkpoint_lsn_
    appends,          \* appends_since_ckpt_
    arg,              \* the entry of the latest append (kept by no code)
    keep,             \* keep_from_lsn of a running truncate, after clamping
    i,                \* loop index of a running truncate
    known,            \* HISTORY: the entries a caller knows to be in the log,
                      \* because append returned or the constructor counted them
    damage            \* HISTORY: what a crash inside truncate has left wrong:
                      \* a subset of {"entries", "checkpoint"}

fileVars  == <<file, cap, hdr, slots>>
memVars   == <<pc, op, next_lsn, checkpoint_lsn, appends, keep, i>>
ghostVars == <<arg, known, damage>>
vars      == <<fileVars, memVars, ghostVars>>

Slots   == 0..(MaxSlots - 1)
Entry   == [vid : VectorIds, vec : Vecs]
Payload == Vecs \cup {Torn}
Slot    == [lsn : Nat, vid : VectorIds, dim : {0, Dim},
            crc : Vecs \cup {NoCrc}, data : Payload]

Blank       == [lsn |-> 0, vid |-> ZeroId, dim |-> 0, crc |-> NoCrc, data |-> Zero]
BlankHeader == [magic |-> FALSE, ckpt |-> 0, dim |-> 0, crc |-> <<>>]

\* Bytes 0..19 of the header, which header_crc covers (magic and version are
\* the same two constants in every file, so one flag stands for both).
Covered(h) == <<h.magic, h.ckpt, h.dim>>

\* read_header accepts: magic, version, CRC and dim are all as expected.
HeaderOk(h) == h.magic /\ h.crc = Covered(h) /\ h.dim \in {0, Dim}

\* MUTANT: the checksum of the payload is not compared.
ValidIgnoresCrc(s, n) == s.lsn = n /\ s.dim = Dim

\* The test that the constructor's scan and replay make of slot n.
Valid(s, n) == s.lsn = n /\ s.dim = Dim /\ s.crc = s.data

\* The scan stops at n: n slots are valid, and the file ends or the next is not.
ScanStopsAt(n) ==
    /\ n \in 0..MaxSlots /\ n <= cap
    /\ \A k \in 0..(n - 1) : Valid(slots[k], k)
    /\ n < MaxSlots /\ n < cap => ~Valid(slots[n], n)

ScanLength == CHOOSE n \in 0..MaxSlots : ScanStopsAt(n)

\* What the first n slots hold, and what replay() hands to its callback.
Delivered(n) == [k \in 1..n |-> [vid |-> slots[k-1].vid, vec |-> slots[k-1].data]]
Replay       == Delivered(ScanLength)

Larger(a, b)  == IF a >= b THEN a ELSE b
Smaller(a, b) == IF a <= b THEN a ELSE b

OpenSteps     == {"size"}
HeaderSteps   == {"hdr_zero", "hdr_magic", "hdr_ckpt", "hdr_dim", "hdr_crc"}
AppendSteps   == {"app_lsn", "app_vid", "app_dim", "app_crc", "app_data", "app_done"}
CkptSteps     == {"ckpt_lsn", "ckpt_crc"}
TruncateSteps == {"trunc_move", "trunc_lsn", "trunc_cut", "trunc_grow"}
Steps == OpenSteps \cup HeaderSteps \cup AppendSteps \cup CkptSteps \cup TruncateSteps
Ops   == {"none", "open", "append", "checkpoint", "truncate"}

TypeOK ==
    /\ file \in {"absent", "empty", "sized"}
    /\ cap \in Nat
    /\ hdr \in [magic : BOOLEAN, ckpt : Nat, dim : {0, Dim},
                crc : {<<>>} \cup (BOOLEAN \X Nat \X {0, Dim})]
    /\ slots \in [Slots -> Slot]
    /\ pc \in {"down", "refused", "idle"} \cup Steps
    /\ op \in Ops
    /\ next_lsn \in 0..MaxSlots
    /\ checkpoint_lsn \in Nat
    /\ appends \in Nat
    /\ arg \in Entry
    /\ keep \in 0..MaxSlots
    /\ i \in 0..MaxSlots
    /\ known \in Seq(Entry)
    /\ damage \subseteq {"entries", "checkpoint"}

Init ==
    /\ file = "absent" /\ cap = 0
    /\ hdr = BlankHeader /\ slots = [n \in Slots |-> Blank]
    /\ pc = "down" /\ op = "none"
    /\ next_lsn = 0 /\ checkpoint_lsn = 0 /\ appends = 0
    /\ arg \in Entry
    /\ keep = 0 /\ i = 0
    /\ known = <<>> /\ damage = {}

-----------------------------------------------------------------------------
(* The constructor: open_or_create, write_header, read_header.             *)

\* access() finds nothing, so open(O_CREAT) makes a file of zero bytes.
CreateFile ==
    /\ pc = "down" /\ file = "absent"
    /\ file' = "empty"
    /\ pc' = "size" /\ op' = "open"
    /\ UNCHANGED <<cap, hdr, slots, next_lsn, checkpoint_lsn, appends, keep, i, ghostVars>>

SizeFile ==
    /\ pc = "size"
    /\ file' = "sized" /\ cap' = InitialSlots
    /\ pc' = "hdr_zero"
    /\ UNCHANGED <<hdr, slots, op, next_lsn, checkpoint_lsn, appends, keep, i, ghostVars>>

\* write_header, one action per store into the mapping.
HeaderStore(from, to, h) ==
    /\ pc = from
    /\ hdr' = h
    /\ pc' = to
    /\ UNCHANGED <<file, cap, slots, next_lsn, checkpoint_lsn, appends, keep, i, arg, known>>

ZeroHeader  == HeaderStore("hdr_zero", "hdr_magic", BlankHeader)
               /\ UNCHANGED <<op, damage>>
StoreMagic  == HeaderStore("hdr_magic", "hdr_ckpt", [hdr EXCEPT !.magic = TRUE])
               /\ UNCHANGED <<op, damage>>
StoreCkpt   == HeaderStore("hdr_ckpt", "hdr_dim", [hdr EXCEPT !.ckpt = checkpoint_lsn])
               /\ damage' = damage \ {"checkpoint"}
               /\ UNCHANGED op
StoreDim    == HeaderStore("hdr_dim", "hdr_crc", [hdr EXCEPT !.dim = Dim])
               /\ UNCHANGED <<op, damage>>
\* The last store ends the constructor or the truncate that called it.
StoreCrc    == HeaderStore("hdr_crc", "idle", [hdr EXCEPT !.crc = Covered(hdr)])
               /\ op' = "none"
               /\ UNCHANGED damage

WriteHeader == ZeroHeader \/ StoreMagic \/ StoreCkpt \/ StoreDim \/ StoreCrc

\* MUTANT: the constructor trusts checkpoint_lsn instead of counting entries.
OpenExistingTrustsCheckpoint ==
    /\ pc = "down" /\ file = "sized" /\ HeaderOk(hdr)
    /\ cap' = Larger(cap, InitialSlots)
    /\ next_lsn' = hdr.ckpt /\ checkpoint_lsn' = hdr.ckpt
    /\ pc' = "idle"
    /\ UNCHANGED <<file, hdr, slots, op, appends, keep, i, ghostVars>>

\* An existing file: extend it to INITIAL_SIZE, check the header, count the
\* valid entries.  Nothing is stored, so a crash inside it changes nothing.
OpenExisting ==
    /\ pc = "down" /\ file = "sized" /\ HeaderOk(hdr)
    /\ cap' = Larger(cap, InitialSlots)
    /\ \E n \in 0..MaxSlots : ScanStopsAt(n) /\ next_lsn' = n /\ known' = Delivered(n)
    /\ checkpoint_lsn' = hdr.ckpt
    /\ pc' = "idle"
    /\ UNCHANGED <<file, hdr, slots, op, appends, keep, i, arg, damage>>

\* The constructor throws: the file is shorter than a header, or the header
\* has a bad magic or CRC.
OpenRefused ==
    /\ pc = "down" /\ file # "absent"
    /\ file = "sized" => ~HeaderOk(hdr)
    /\ cap' = IF file = "sized" THEN Larger(cap, InitialSlots) ELSE cap
    /\ pc' = "refused"
    /\ UNCHANGED <<file, hdr, slots, op, next_lsn, checkpoint_lsn, appends, keep, i, ghostVars>>

-----------------------------------------------------------------------------
(* append                                                                   *)

\* The call: when the next slot does not fit in the mapping, grow() first.
AppendEntry(e) ==
    /\ pc = "idle" /\ next_lsn < MaxSlots
    /\ arg' = e
    /\ cap' = IF next_lsn + 1 > cap THEN cap + GrowSlots ELSE cap
    /\ pc' = "app_lsn" /\ op' = "append"
    /\ UNCHANGED <<file, hdr, slots, next_lsn, checkpoint_lsn, appends, keep, i, known, damage>>

\* One memcpy of append into the slot of next_lsn_.
SlotStore(from, to, slot) ==
    /\ pc = from
    /\ slots' = [slots EXCEPT ![next_lsn] = slot]
    /\ pc' = to
    /\ UNCHANGED <<file, cap, hdr, op, next_lsn, checkpoint_lsn, appends, keep, i, ghostVars>>

StoreLsn  == SlotStore("app_lsn", "app_vid", [slots[next_lsn] EXCEPT !.lsn = next_lsn])
StoreVid  == SlotStore("app_vid", "app_dim", [slots[next_lsn] EXCEPT !.vid = arg.vid])
StoreSDim == SlotStore("app_dim", "app_crc", [slots[next_lsn] EXCEPT !.dim = Dim])
StoreSCrc == SlotStore("app_crc", "app_data", [slots[next_lsn] EXCEPT !.crc = arg.vec])
\* The payload is many words: while memcpy overwrites another payload the slot
\* can hold any mixture that is not yet the vector; finally it is the vector.
TearData(mix) == /\ pc = "app_data"
                 /\ slots[next_lsn].data # arg.vec /\ mix # arg.vec
                 /\ SlotStore("app_data", "app_data", [slots[next_lsn] EXCEPT !.data = mix])
StoreData == SlotStore("app_data", "app_done", [slots[next_lsn] EXCEPT !.data = arg.vec])

StoreEntry ==
    \/ StoreLsn \/ StoreVid \/ StoreSDim \/ StoreSCrc
    \/ \E mix \in Payload : TearData(mix)
    \/ StoreData

\* The counters move on; append returns, or runs the automatic checkpoint.
CheckpointDue == CheckpointEvery > 0 /\ appends + 1 >= CheckpointEvery

CountAppend ==
    /\ pc = "app_done"
    /\ next_lsn' = next_lsn + 1
    /\ IF CheckpointDue
       THEN /\ checkpoint_lsn' = next_lsn + 1 /\ appends' = 0
            /\ pc' = "ckpt_lsn"
            /\ UNCHANGED <<op, known, damage>>
       ELSE /\ appends' = appends + 1
            /\ pc' = "idle" /\ op' = "none"
            /\ known' = known \o <<arg>>
            /\ UNCHANGED <<checkpoint_lsn, damage>>
    /\ UNCHANGED <<fileVars, keep, i, arg>>

-----------------------------------------------------------------------------
(* checkpoint: called by a client, or by append (CountAppend above)         *)

Checkpoint ==
    /\ pc = "idle"
    /\ checkpoint_lsn' = next_lsn /\ appends' = 0
    /\ pc' = "ckpt_lsn" /\ op' = "checkpoint"
    /\ UNCHANGED <<fileVars, next_lsn, keep, i, ghostVars>>

CkptStoreLsn ==
    /\ pc = "ckpt_lsn"
    /\ hdr' = [hdr EXCEPT !.ckpt = checkpoint_lsn]
    /\ damage' = damage \ {"checkpoint"}
    /\ pc' = "ckpt_crc"
    /\ UNCHANGED <<file, cap, slots, op, next_lsn, checkpoint_lsn, appends, keep, i, arg, known>>

CkptStoreCrc ==
    /\ pc = "ckpt_crc"
    /\ hdr' = [hdr EXCEPT !.crc = Covered(hdr)]
    /\ pc' = "idle" /\ op' = "none"
    /\ known' = IF op = "append" THEN known \o <<arg>> ELSE known
    /\ UNCHANGED <<file, cap, slots, next_lsn, checkpoint_lsn, appends, keep, i, arg, damage>>

-----------------------------------------------------------------------------
(* truncate(keep_from_lsn)                                                  *)

Kept == next_lsn - keep    \* entries_to_keep

\* The early return: nothing happens up to and including the checkpoint.
TruncateReturns(from) ==
    /\ pc = "idle" /\ from <= checkpoint_lsn
    /\ UNCHANGED vars

Truncate(from) ==
    /\ pc = "idle" /\ from > checkpoint_lsn
    /\ keep' = Smaller(from, next_lsn)
    /\ next_lsn - keep' <= MaxKept
    /\ i' = 0
    /\ pc' = "trunc_move" /\ op' = "truncate"
    /\ UNCHANGED <<fileVars, next_lsn, checkpoint_lsn, appends, ghostVars>>

\* memmove, lowest address first and a slot at a time.
MoveSlot ==
    /\ pc = "trunc_move"
    /\ IF i < Kept
       THEN /\ slots' = [slots EXCEPT ![i] = slots[keep + i]]
            /\ i' = i + 1
            /\ UNCHANGED pc
       ELSE /\ i' = 0 /\ pc' = "trunc_lsn"
            /\ UNCHANGED slots
    /\ UNCHANGED <<file, cap, hdr, op, next_lsn, checkpoint_lsn, appends, keep, ghostVars>>

\* MUTANT: the LSN fields count from 1.
RenumberSlotOffByOne ==
    /\ pc = "trunc_lsn"
    /\ IF i < Kept
       THEN /\ slots' = [slots EXCEPT ![i].lsn = i + 1]
            /\ i' = i + 1
            /\ UNCHANGED pc
       ELSE /\ i' = 0 /\ pc' = "trunc_cut"
            /\ UNCHANGED slots
    /\ UNCHANGED <<file, cap, hdr, op, next_lsn, checkpoint_lsn, appends, keep, ghostVars>>

\* The loop that makes the LSN fields count from 0 again.
RenumberSlot ==
    /\ pc = "trunc_lsn"
    /\ IF i < Kept
       THEN /\ slots' = [slots EXCEPT ![i].lsn = i]
            /\ i' = i + 1
            /\ UNCHANGED pc
       ELSE /\ i' = 0 /\ pc' = "trunc_cut"
            /\ UNCHANGED slots
    /\ UNCHANGED <<file, cap, hdr, op, next_lsn, checkpoint_lsn, appends, keep, ghostVars>>

\* MUTANT: the counters are reset and the file is not cut.
CutFileLeavesEntries ==
    /\ pc = "trunc_cut"
    /\ next_lsn' = Kept /\ checkpoint_lsn' = 0 /\ appends' = 0
    /\ pc' = "trunc_grow"
    /\ known' = SubSeq(known, keep + 1, Len(known))
    /\ UNCHANGED <<fileVars, op, keep, i, arg, damage>>

\* The members are reset and ftruncate drops every slot behind the kept ones;
\* from here on the discarded entries are gone.
CutFile ==
    /\ pc = "trunc_cut"
    /\ next_lsn' = Kept /\ checkpoint_lsn' = 0 /\ appends' = 0
    /\ cap' = Kept
    /\ slots' = [n \in Slots |-> IF n < Kept THEN slots[n] ELSE Blank]
    /\ pc' = "trunc_grow"
    /\ known' = SubSeq(known, keep + 1, Len(known))
    /\ damage' = IF Kept = 0 THEN damage \ {"entries"} ELSE damage
    /\ UNCHANGED <<file, hdr, op, keep, i, arg>>

\* The second ftruncate, to at least INITIAL_SIZE; then write_header.
RegrowFile ==
    /\ pc = "trunc_grow"
    /\ cap' = Larger(cap, InitialSlots)
    /\ pc' = "hdr_zero"
    /\ UNCHANGED <<file, hdr, slots, op, next_lsn, checkpoint_lsn, appends, keep, i, ghostVars>>

TruncateStep == MoveSlot \/ RenumberSlot \/ CutFile \/ RegrowFile

-----------------------------------------------------------------------------
(* The process ends: it crashes between two stores, or exits when idle (the *)
(* destructor only flushes and unmaps).  A crash with kept entries in       *)
(* transit leaves the slots in disorder; one after the cut and before the   *)
(* new header leaves the old checkpoint_lsn in front of fewer entries.      *)

InTransit == /\ op = "truncate" /\ Kept > 0
             /\ \/ pc = "trunc_move" /\ i > 0
                \/ pc \in {"trunc_lsn", "trunc_cut"}

Crash ==
    /\ pc # "down"
    /\ pc' = "down" /\ op' = "none"
    /\ next_lsn' = 0 /\ checkpoint_lsn' = 0 /\ appends' = 0 /\ keep' = 0 /\ i' = 0
    /\ damage' = damage
                 \cup (IF InTransit THEN {"entries"} ELSE {})
                 \cup (IF pc \in {"trunc_grow", "hdr_zero"} /\ op = "truncate"
                       THEN {"checkpoint"} ELSE {})
    /\ UNCHANGED <<fileVars, arg, known>>

Next ==
    \/ CreateFile \/ SizeFile \/ WriteHeader \/ OpenExisting \/ OpenRefused
    \/ \E e \in Entry : AppendEntry(e)
    \/ StoreEntry \/ CountAppend
    \/ Checkpoint \/ CkptStoreLsn \/ CkptStoreCrc
    \/ \E from \in 0..MaxSlots : TruncateReturns(from) \/ Truncate(from)
    \/ TruncateStep
    \/ Crash

Spec == Init /\ [][Next]_vars

-----------------------------------------------------------------------------
(* Properties.  `Intact' excludes the one thing no caller in the program    *)
(* does, a crash inside a truncate that keeps entries (see CutFile).        *)

Intact == "entries" \notin damage /\ ~InTransit

\* Every entry whose append returned (or that a restart counted), and that no
\* truncate has discarded, is delivered by a replay of the file as it is now,
\* in the order of the appends: at every store of every operation, and after a
\* crash at any of them.  (append's store order, the stop rule of replay.)
KnownEntriesReplay ==
    Intact => /\ Len(known) <= ScanLength
              /\ \A k \in 1..Len(known) : Replay[k] = known[k]

\* A replay delivers nothing else: at most one more entry, and that one is the
\* latest append, whole.  No torn, stale or half-overwritten slot comes back.
NoPhantomEntry ==
    Intact /\ ScanLength > Len(known) => Replay = Append(known, arg)

\* Between calls the counter in memory is the number of entries a replay of
\* the file delivers, so the next append goes where the next replay stops.
CounterMatchesFile ==
    pc = "idle" /\ Intact => ScanStopsAt(next_lsn)

\* append stores inside the file: grow() has made room before the first store.
StoresInsideFile ==
    pc \in AppendSteps => next_lsn < cap

\* Outside the stores that replace it the header of an open log is one that
\* read_header accepts, and it records the checkpoint that is in memory.
HeaderMatchesMemory ==
    pc = "idle" \/ pc \in AppendSteps \cup (TruncateSteps \ {"trunc_grow"}) =>
        HeaderOk(hdr) /\ hdr.ckpt = checkpoint_lsn

\* The recorded checkpoint lies inside the log, unless a crash hit a truncate
\* after its first store and before its new header.
CheckpointInsideLog ==
    pc = "idle" /\ damage = {} => checkpoint_lsn <= next_lsn

\* What the members of class WAL say of the file is so, at every store.
FileMatchesMemory ==
    TypeOK /\ CounterMatchesFile /\ StoresInsideFile /\ HeaderMatchesMemory /\ CheckpointInsideLog

\* What the caller of append, checkpoint and truncate sees of the file is a
\* DurableLog: entries appear whole and in order, none is lost or invented by
\* a crash, and truncate drops the oldest ones in one step, the one that cuts
\* the file: until then the entries in transit count as where they were.
Log == INSTANCE DurableLog WITH
           Entries <- Entry, MaxKept <- MaxKept,
           entries <- IF InTransit THEN known ELSE Replay,
           acked <- Len(known), broken <- "entries" \in damage
LogSpec == Log!Spec

-----------------------------------------------------------------------------
(* Statements of the documentation and the tests that the code contradicts. *)

\* wal.hpp:6 "no inserted vector is ever lost, even if the process crashes
\* mid-insert": a log that holds known entries can be opened again.  (append's
\* automatic checkpoint rewrites checkpoint_lsn before the header CRC.)
KnownEntriesReopen == pc = "refused" => known = <<>>
=============================================================================
