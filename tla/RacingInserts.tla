---------------------------- MODULE RacingInserts ----------------------------
(***************************************************************************)
(* ShardManager::insert on one shard, from several gRPC handlers at a time: *)
(* WAL::append, which takes no lock, then HNSWIndex::insert, which does.    *)
(*                                                                         *)
(* The accesses of append to the members of WAL and to the mapping are     *)
(* data races.  What a build makes of them is taken to be: a plain load    *)
(* and a plain store for each ++, one load of next_lsn_ for the size test  *)
(* and the slot (grow forces a second one), the stores in the order of the *)
(* source.  A store through a pointer into a mapping that another thread's *)
(* grow has removed kills the process, or lands where it was meant to if   *)
(* the kernel gave the same address out again.                             *)
(*                                                                         *)
(* Each handler inserts one vector, named like the handler, under an id of  *)
(* its own of that name; a payload is two words.                           *)
(***************************************************************************)
EXTENDS Naturals, Sequences, FiniteSets

CONSTANTS
    Handlers,         \* gRPC threads in insert
    Nobody,           \* the content of zero bytes
    CheckpointEvery,  \* checkpoint_every_
    InitialSlots,     \* slots that fit in INITIAL_SIZE
    GrowSlots         \* slots that fit in GROW_SIZE

ASSUME RacingAssumption ==
    /\ IsFiniteSet(Handlers) /\ Nobody \notin Handlers
    /\ CheckpointEvery \in Nat \ {0}
    /\ InitialSlots \in Nat /\ GrowSlots \in Nat \ {0}

VARIABLES
    slots,            \* FILE the entry slots
    hdr,              \* FILE the header: checkpoint_lsn and what its CRC is of
    mapping,          \* map_ and map_size_: which mapping it is, slots in it
    next_lsn,         \* next_lsn_
    appends,          \* appends_since_ckpt_
    alive,            \* no store has hit an unmapped page
    pc,               \* the next access of each handler
    at,               \* its entry_ptr: the mapping and the slot (lsn)
    loaded,           \* the value its last load or checksum gave
    index,            \* HNSWIndex: the vectors by node id
    acked,            \* HISTORY: node ids of the inserts that returned
    racedAppends,     \* HISTORY: pairs of handlers that were in append at once
    racedInserts,     \* HISTORY: pairs that were in insert at once
    racedCheckpoint   \* HISTORY: the latest checkpoint began during another

logVars   == <<slots, hdr, mapping, next_lsn, appends>>
threadVars == <<pc, at, loaded>>
history   == <<racedAppends, racedInserts, racedCheckpoint>>
vars      == <<logVars, alive, threadVars, index, acked, history>>

\* BOUND: every handler appends once; ++ done twice on one slot uses two.
Slots   == 0..Cardinality(Handlers)
Whole(h) == [lsn |-> TRUE, vid |-> h, crc |-> h, low |-> h, high |-> h]
Blank   == [lsn |-> FALSE, vid |-> Nobody, crc |-> Nobody, low |-> Nobody, high |-> Nobody]

GrowSteps   == {"grow", "reload"}
StoreSteps  == {"ids", "crc", "low", "high"}
CountSteps  == {"load", "bump", "since", "tick"}
CkptSteps   == {"ckpt", "ckpt_lsn", "ckpt_crc", "ckpt_seal"}
AppendSteps == GrowSteps \cup StoreSteps \cup CountSteps \cup CkptSteps

InAppend     == {h \in Handlers : pc[h] \in AppendSteps}
InInsert     == {h \in Handlers : pc[h] \in AppendSteps \cup {"logged"}}
InCheckpoint == {h \in Handlers : pc[h] \in CkptSteps \ {"ckpt"}}

TypeOK ==
    /\ slots \in [Slots -> [lsn : BOOLEAN, vid : Handlers \cup {Nobody},
                            crc : Handlers \cup {Nobody}, low : Handlers \cup {Nobody},
                            high : Handlers \cup {Nobody}]]
    /\ hdr \in [ckpt : Nat, crc : Nat]
    /\ mapping \in [nr : Nat, slots : Nat]
    /\ next_lsn \in 0..Cardinality(Handlers) /\ appends \in 0..Cardinality(Handlers)
    /\ alive \in BOOLEAN
    /\ pc \in [Handlers -> {"idle", "logged", "done"} \cup AppendSteps]
    /\ at \in [Handlers -> [nr : Nat, slot : Slots]]
    /\ loaded \in [Handlers -> Nat]
    /\ index \in Seq(Handlers)
    /\ acked \in [Handlers -> Nat]
    /\ racedAppends \subseteq racedInserts
    /\ racedInserts \subseteq {{g, h} : g, h \in Handlers}
    /\ racedCheckpoint \in BOOLEAN

Init ==
    /\ slots = [k \in Slots |-> Blank] /\ hdr = [ckpt |-> 0, crc |-> 0]
    /\ mapping = [nr |-> 0, slots |-> InitialSlots]
    /\ next_lsn = 0 /\ appends = 0 /\ alive = TRUE
    /\ pc = [h \in Handlers |-> "idle"]
    /\ at = [h \in Handlers |-> [nr |-> 0, slot |-> 0]]
    /\ loaded = [h \in Handlers |-> 0]
    /\ index = <<>> /\ acked = [h \in Handlers |-> 0]
    /\ racedAppends = {} /\ racedInserts = {} /\ racedCheckpoint = FALSE

Goes(h, from, to) == alive /\ pc[h] = from /\ pc' = [pc EXCEPT ![h] = to]

-----------------------------------------------------------------------------
(* append: the size test and entry_ptr                                      *)

\* MUTANT: the first entry is number one.
EnterFromOne(h) ==
    /\ Goes(h, "idle", IF next_lsn + 1 > mapping.slots THEN "grow" ELSE "ids")
    /\ at' = [at EXCEPT ![h] = [nr |-> mapping.nr, slot |-> next_lsn + 1]]
    /\ racedAppends' = racedAppends \cup {{g, h} : g \in InAppend}
    /\ racedInserts' = racedInserts \cup {{g, h} : g \in InInsert}
    /\ UNCHANGED <<logVars, alive, loaded, index, acked, racedCheckpoint>>

\* needed > map_size_ with the next_lsn_ just loaded; with room, that value is
\* the slot too.
Enter(h) ==
    /\ Goes(h, "idle", IF next_lsn + 1 > mapping.slots THEN "grow" ELSE "ids")
    /\ at' = [at EXCEPT ![h] = [nr |-> mapping.nr, slot |-> next_lsn]]
    /\ racedAppends' = racedAppends \cup {{g, h} : g \in InAppend}
    /\ racedInserts' = racedInserts \cup {{g, h} : g \in InInsert}
    /\ UNCHANGED <<logVars, alive, loaded, index, acked, racedCheckpoint>>

\* grow(map_size_ + GROW_SIZE): another mapping takes the place of this one.
Grow(h) ==
    /\ Goes(h, "grow", "reload")
    /\ mapping' = [nr |-> mapping.nr + 1, slots |-> mapping.slots + GrowSlots]
    /\ UNCHANGED <<slots, hdr, next_lsn, appends, alive, at, loaded, index, acked, history>>

Reload(h) ==
    /\ Goes(h, "reload", "ids")
    /\ at' = [at EXCEPT ![h] = [nr |-> mapping.nr, slot |-> next_lsn]]
    /\ UNCHANGED <<logVars, alive, loaded, index, acked, history>>

-----------------------------------------------------------------------------
(* append: the stores through ep                                            *)

Store(h, from, to, field) ==
    /\ Goes(h, from, to)
    /\ slots' = [slots EXCEPT ![at[h].slot] =
                    [f \in DOMAIN @ |-> IF f \in field
                                        THEN Whole(h)[f] ELSE @[f]]]
    /\ UNCHANGED <<hdr, mapping, next_lsn, appends, alive, at, loaded, index, acked, history>>

\* The lsn and dim fields are the same whoever stores them into a slot.
StoreIds(h)  == Store(h, "ids", "crc", {"lsn", "vid"})
StoreCrc(h)  == Store(h, "crc", "low", {"crc"})
StoreLow(h)  == Store(h, "low", "high", {"low"})
StoreHigh(h) == Store(h, "high", "load", {"high"})

StoreEntry(h) == StoreIds(h) \/ StoreCrc(h) \/ StoreLow(h) \/ StoreHigh(h)

\* A store through ep after another handler's grow.
Killed(h) ==
    /\ alive /\ pc[h] \in StoreSteps
    /\ at[h].nr # mapping.nr \/ at[h].slot >= mapping.slots
    /\ alive' = FALSE
    /\ UNCHANGED <<logVars, threadVars, index, acked, history>>

-----------------------------------------------------------------------------
(* append: the counters                                                     *)

LoadNext(h) ==
    /\ Goes(h, "load", "bump")
    /\ loaded' = [loaded EXCEPT ![h] = next_lsn]
    /\ UNCHANGED <<logVars, alive, at, index, acked, history>>

\* MUTANT: the counter is stored as it was loaded.
BumpForgotten(h) ==
    /\ Goes(h, "bump", "since")
    /\ next_lsn' = loaded[h]
    /\ UNCHANGED <<slots, hdr, mapping, appends, alive, at, loaded, index, acked, history>>

Bump(h) ==
    /\ Goes(h, "bump", "since")
    /\ next_lsn' = loaded[h] + 1
    /\ UNCHANGED <<slots, hdr, mapping, appends, alive, at, loaded, index, acked, history>>

LoadAppends(h) ==
    /\ Goes(h, "since", "tick")
    /\ loaded' = [loaded EXCEPT ![h] = appends]
    /\ UNCHANGED <<logVars, alive, at, index, acked, history>>

CountAppend(h) ==
    /\ Goes(h, "tick", IF loaded[h] + 1 >= CheckpointEvery THEN "ckpt" ELSE "logged")
    /\ appends' = loaded[h] + 1
    /\ UNCHANGED <<slots, hdr, mapping, next_lsn, alive, at, loaded, index, acked, history>>

Count(h) == LoadNext(h) \/ Bump(h) \/ LoadAppends(h) \/ CountAppend(h)

-----------------------------------------------------------------------------
(* checkpoint: the members, the LSN in the header, the CRC of what is there *)

CkptLoad(h) ==
    /\ Goes(h, "ckpt", "ckpt_lsn")
    /\ loaded' = [loaded EXCEPT ![h] = next_lsn]
    /\ appends' = 0
    /\ racedCheckpoint' = (InCheckpoint # {})
    /\ UNCHANGED <<slots, hdr, mapping, next_lsn, alive, at, index, acked, racedAppends, racedInserts>>

CkptStoreLsn(h) ==
    /\ Goes(h, "ckpt_lsn", "ckpt_crc")
    /\ hdr' = [hdr EXCEPT !.ckpt = loaded[h]]
    /\ UNCHANGED <<slots, mapping, next_lsn, appends, alive, at, loaded, index, acked, history>>

\* MUTANT: the checksum is taken of the counter as it is by now.
CkptSumCounter(h) ==
    /\ Goes(h, "ckpt_crc", "ckpt_seal")
    /\ loaded' = [loaded EXCEPT ![h] = next_lsn]
    /\ UNCHANGED <<logVars, alive, at, index, acked, history>>

CkptSum(h) ==
    /\ Goes(h, "ckpt_crc", "ckpt_seal")
    /\ loaded' = [loaded EXCEPT ![h] = hdr.ckpt]
    /\ UNCHANGED <<logVars, alive, at, index, acked, history>>

CkptSeal(h) ==
    /\ Goes(h, "ckpt_seal", "logged")
    /\ hdr' = [hdr EXCEPT !.crc = loaded[h]]
    /\ UNCHANGED <<slots, mapping, next_lsn, appends, alive, at, loaded, index, acked, history>>

Checkpoint(h) == CkptLoad(h) \/ CkptStoreLsn(h) \/ CkptSum(h) \/ CkptSeal(h)

-----------------------------------------------------------------------------
(* HNSWIndex::insert under its exclusive lock, and the return               *)

\* MUTANT: the node id is the size after the insert.
IndexInsertOffByOne(h) ==
    /\ Goes(h, "logged", "done")
    /\ index' = Append(index, h)
    /\ acked' = [acked EXCEPT ![h] = Len(index) + 1]
    /\ UNCHANGED <<logVars, alive, at, loaded, history>>

IndexInsert(h) ==
    /\ Goes(h, "logged", "done")
    /\ index' = Append(index, h)
    /\ acked' = [acked EXCEPT ![h] = Len(index)]
    /\ UNCHANGED <<logVars, alive, at, loaded, history>>

Next == \E h \in Handlers :
    \/ Enter(h) \/ Grow(h) \/ Reload(h) \/ StoreEntry(h) \/ Killed(h)
    \/ Count(h) \/ Checkpoint(h) \/ IndexInsert(h)

Spec == Init /\ [][Next]_vars

-----------------------------------------------------------------------------
(* What a replay of the file as it is would do                               *)

\* MUTANT: the checksum of the payload is not compared.
ValidIgnoresCrc(k) == slots[k].lsn

\* The CRC of a whole payload is not the 0 of an unwritten field.
Valid(k) ==
    /\ slots[k].lsn /\ slots[k].crc # Nobody
    /\ slots[k].low = slots[k].crc /\ slots[k].high = slots[k].crc

Reached(k) == k < mapping.slots /\ \A j \in 0..k : Valid(j)

\* h's entry, whole, is the one that a replay hands out as entry k.
DeliveredAs(h, k) == k \in Slots /\ Reached(k) /\ slots[k] = Whole(h)

Acked(h)    == pc[h] = "done"
Appended(h) == pc[h] \in {"since", "tick", "logged", "done"} \cup CkptSteps

Lone(h) == \A r \in racedAppends : h \notin r

-----------------------------------------------------------------------------
(* Properties                                                                *)

\* The entry of an append that overlapped with no other is never written over,
\* whatever later appends do to each other: the counter is past it before they
\* load it, and their stale stores of the counter never take it back that far.
LoneEntryKept ==
    \A h \in Handlers : Appended(h) /\ Lone(h) => slots[at[h].slot] = Whole(h)

\* An acknowledged entry that a replay does not deliver was lost to a race: two
\* appends overlapped, at its slot or at one before it (a blank or mixed slot
\* there ends every replay, for good and for everyone behind it).
LossNeedsEarlierRace ==
    \A h \in Handlers : Acked(h) =>
        \/ DeliveredAs(h, at[h].slot)
        \/ \E r \in racedAppends : \E g \in r : at[g].slot <= at[h].slot

\* The checksum keeps mixtures of two payloads out of a replay; what it lets by
\* is a vector under the id of another one, and only if the append of that vector
\* overlapped with some other.  That need not have been the append of the id: a
\* stale store of the counter can bring a third, undisturbed append to its slot.
DeliveredWhole ==
    \A k \in Slots : Reached(k) =>
        \E g, h \in Handlers :
            /\ slots[k].low = h /\ slots[k].high = h /\ slots[k].vid = g
            /\ g = h \/ ~Lone(h)

\* A replay gives an acknowledged vector the node id that its client was told,
\* unless two inserts overlapped at its entry or before it: the log may then
\* have them in one order and the index in the other.
ReplayNumbersNodes ==
    \A h \in Handlers : Acked(h) =>
        \/ DeliveredAs(h, acked[h])
        \/ \E r \in racedInserts : \E g \in r : at[g].slot <= at[h].slot

\* Outside a checkpoint the header is one that read_header accepts, unless the
\* latest checkpoint began while another was under way; one that runs by itself
\* repairs what earlier ones left.
HeaderSealed ==
    TypeOK /\ (InCheckpoint = {} /\ ~racedCheckpoint => hdr.crc = hdr.ckpt)
=============================================================================
