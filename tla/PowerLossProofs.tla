--------------------------- MODULE PowerLossProofs ---------------------------
(***************************************************************************)
(* Theorems about PowerLoss, for every layout of the entries over pages    *)
(* (PageOf), any number of slots, pages and entries, and any number of     *)
(* ends of the process and of the power.                                   *)
(*                                                                         *)
(* The disk only lags behind the cache: a part of a slot is on the disk as *)
(* it is in the cache, or is still zero.  That fails while a truncation is *)
(* not committed, and once a start has left slots behind its end; what an  *)
(* msync has covered does not depend on it.                                *)
(***************************************************************************)
EXTENDS PowerLoss, SequenceTheorems, WellFoundedInduction, TLAPS

Up == pc \notin {"down", "refused"}

Appending == {"ids", "crc", "data", "count"}

\* The slots of f hold the first so many known entries.
Holds(f, count) ==
    \A k \in Slots : k < count =>
        /\ k < Len(known)
        /\ f.slots[k]["ids"] = known[k + 1].vid
        /\ f.slots[k]["crc"] = known[k + 1].vec /\ f.slots[k]["data"] = known[k + 1].vec

\* The process knows what it has appended, and the cache holds it.
InvKnown ==
    /\ Up /\ pc # "sync_cut" => Len(known) = next_lsn
    /\ pc = "sync_cut" => next_lsn = 0
    /\ pc \in Appending => next_lsn < MaxSlots
    /\ pc \in {"crc", "data", "count"} => cache.slots[next_lsn]["ids"] = arg
    /\ pc \in {"data", "count"} => cache.slots[next_lsn]["crc"] = arg
    /\ pc = "count" => cache.slots[next_lsn]["data"] = arg
    /\ Len(known) <= MaxSlots
    /\ Up => Holds(cache, Len(known))

\* What an msync has covered is in the cache and on the disk.
InvSynced ==
    /\ cutting # "no" => synced = 0
    /\ Holds(cache, synced) /\ Holds(disk, synced)

\* The header that the cache holds outside its stores, and that the disk holds.
InvHeader ==
    /\ cache.hdr.ckpt <= MaxSlots /\ disk.hdr.ckpt <= MaxSlots
    /\ Up /\ pc \notin {"ckpt_crc", "hdr_crc"} => HeaderOk(cache)
    /\ ~torn /\ ~Up => HeaderOk(cache)
    /\ ~torn /\ ~MidHeader => HeaderOk(disk)
    /\ cutting = "truncate" => pc \in {"hdr_lsn", "hdr_crc", "sync_hdr"}

\* No slot holds what was not appended there.
InvHeld ==
    \A k \in Slots : \A part \in Parts :
        /\ cache.slots[k][part] \in held[k] \cup {Zero}
        /\ cutting = "no" => disk.slots[k][part] \in held[k] \cup {Zero}
        /\ pc \in {"crc", "data"} /\ k = next_lsn => arg \in held[k]

\* What a part of slot k may hold beside zero: that of the known entry k, or behind the
\* last one that of the running append, also if the process ended in it.
Wanted(k, part) ==
    IF k < Len(known) THEN IF part = "ids" THEN known[k + 1].vid ELSE known[k + 1].vec
    ELSE IF k = Len(known) /\ pc \in {"crc", "data", "count", "down", "refused"} THEN arg
    ELSE Zero

Within == \A k \in Slots : \A part \in Parts : cache.slots[k][part] \in {Zero, Wanted(k, part)}

\* A loss of power has brought back the file as it was before a truncation.
Restored == ~Up /\ cutting = "no" /\ cache = disk /\ known = Replay(disk)

Lagging == \A k \in Slots : \A part \in Parts : disk.slots[k][part] \in {Zero, cache.slots[k][part]}

InvOrder == ~leftover => (Within \/ Restored) /\ (cutting = "no" => Lagging)

IInv == TypeOK /\ InvKnown /\ InvSynced /\ InvHeader /\ InvHeld /\ InvOrder

-----------------------------------------------------------------------------
(* Files                                                                    *)

Contents == [Parts -> Entries \cup {Zero}]
Header   == [ckpt : Nat, crc : Nat]

LEMMA FileParts ==
    /\ \A f \in File : /\ f.hdr \in Header /\ f.slots \in [Slots -> Contents]
                       /\ f = [hdr |-> f.hdr, slots |-> f.slots]
    /\ \A h \in Header, s \in [Slots -> Contents] : [hdr |-> h, slots |-> s] \in File
BY DEF File, Header, Contents

LEMMA NoSlotsZero ==
    /\ NoSlots \in [Slots -> Contents]
    /\ \A k \in Slots : \A part \in Parts : NoSlots[k][part] = Zero
<1>1. Blank \in Contents /\ \A part \in Parts : Blank[part] = Zero
  BY DEF Blank, Contents, Parts
<1> HIDE DEF Blank
<1> QED BY <1>1 DEF NoSlots

\* A store through entry_ptr.
LEMMA StoredPart ==
    ASSUME TypeOK, NEW part \in Parts, next_lsn \in Slots,
           cache' = [cache EXCEPT !.slots[next_lsn][part] = arg]
    PROVE  /\ cache' \in File /\ cache'.hdr = cache.hdr
           /\ \A k \in Slots : \A q \in Parts :
                 cache'.slots[k][q] = IF k = next_lsn /\ q = part THEN arg ELSE cache.slots[k][q]
<1>1. cache \in File /\ arg \in Entries
  BY DEF TypeOK
<1>2. cache.hdr \in Header /\ cache.slots \in [Slots -> Contents]
  BY <1>1, FileParts
<1> DEFINE z == [cache.slots EXCEPT ![next_lsn] = [cache.slots[next_lsn] EXCEPT ![part] = arg]]
<1>3. cache' = [hdr |-> cache.hdr, slots |-> z]
  BY <1>1, FileParts
<1>4. z \in [Slots -> Contents]
  <2>1. [cache.slots[next_lsn] EXCEPT ![part] = arg] \in Contents
    BY <1>1, <1>2 DEF Contents
  <2> QED BY <1>2, <2>1
<1>5. \A k \in Slots : \A q \in Parts :
         z[k][q] = IF k = next_lsn /\ q = part THEN arg ELSE cache.slots[k][q]
  BY <1>2 DEF Contents
<1> HIDE DEF z
<1>6. cache'.hdr = cache.hdr /\ cache'.slots = z
  BY <1>3
<1>7. cache' \in File
  <2>1. \A h \in Header, t \in [Slots -> Contents] : [hdr |-> h, slots |-> t] \in File
    BY FileParts
  <2>2. [hdr |-> cache.hdr, slots |-> z] \in File
    BY <1>2, <1>4, <2>1, Zenon
  <2> QED BY <1>3, <2>2, Zenon
<1> QED BY <1>5, <1>6, <1>7

\* The write of a page.
LEMMA WrittenPage ==
    ASSUME NEW f \in File, NEW g \in File, NEW p \in Pages
    PROVE  /\ WithPage(f, g, p) \in File
           /\ WithPage(f, g, p).hdr = IF p = 0 THEN g.hdr ELSE f.hdr
           /\ \A k \in Slots : \A q \in Parts : WithPage(f, g, p).slots[k][q] =
                 IF PageOf[k][q] = p THEN g.slots[k][q] ELSE f.slots[k][q]
<1>1. /\ f.hdr \in Header /\ g.hdr \in Header
      /\ f.slots \in [Slots -> Contents] /\ g.slots \in [Slots -> Contents]
  BY FileParts
<1> DEFINE Part(k, q) == IF OnPage(k, q, p) THEN g.slots[k][q] ELSE f.slots[k][q]
           z == [k \in Slots |-> [q \in Parts |-> Part(k, q)]]
<1>2. WithPage(f, g, p) = [hdr |-> IF p = 0 THEN g.hdr ELSE f.hdr, slots |-> z]
  BY DEF WithPage
<1>3. \A k \in Slots : \A q \in Parts : Part(k, q) \in Entries \cup {Zero}
  BY <1>1 DEF Contents
<1>4. \A k \in Slots : \A q \in Parts : z[k][q] = Part(k, q)
  OBVIOUS
<1>5. z \in [Slots -> Contents]
  <2> HIDE DEF Part
  <2> QED BY <1>3 DEF Contents
<1>6. (IF p = 0 THEN g.hdr ELSE f.hdr) \in Header
  BY <1>1
<1>7. \A k \in Slots : \A q \in Parts :
         z[k][q] = IF PageOf[k][q] = p THEN g.slots[k][q] ELSE f.slots[k][q]
  BY <1>4 DEF OnPage
<1> HIDE DEF z
<1> QED BY <1>2, <1>5, <1>6, <1>7, FileParts

\* When msync of the whole file may return, the disk has what the cache has.
LEMMA SyncedAll ==
    ASSUME TypeOK, Synced(Pages)
    PROVE  /\ cutting = "no" /\ disk.hdr = cache.hdr
           /\ \A k \in Slots : \A q \in Parts : disk.slots[k][q] = cache.slots[k][q]
<1>1. \A p \in Pages : cutting = "no" /\ WithPage(disk, cache, p) = disk
  BY DEF Synced, Clean
<1>2. disk \in File /\ cache \in File /\ 0 \in Pages
      /\ \A k \in Slots : \A q \in Parts : PageOf[k][q] \in Pages
  BY PowerAssumption DEF TypeOK
<1>3. cutting = "no" /\ disk.hdr = cache.hdr
  <2>1. WithPage(disk, cache, 0).hdr = cache.hdr
    BY <1>2, WrittenPage
  <2>2. WithPage(disk, cache, 0) = disk /\ cutting = "no"
    BY <1>1, <1>2
  <2> QED BY <2>1, <2>2
<1>4. ASSUME NEW k \in Slots, NEW q \in Parts PROVE disk.slots[k][q] = cache.slots[k][q]
  <2>1. PICK p \in Pages : PageOf[k][q] = p
    BY <1>2
  <2>2. \A j \in Slots : \A r \in Parts : WithPage(disk, cache, p).slots[j][r] =
           IF PageOf[j][r] = p THEN cache.slots[j][r] ELSE disk.slots[j][r]
    BY <1>2, WrittenPage
  <2>3. WithPage(disk, cache, p) = disk
    BY <1>1
  <2> QED BY <2>1, <2>2, <2>3
<1> QED BY <1>3, <1>4

-----------------------------------------------------------------------------
(* The scan                                                                 *)

LEMMA LeastNat == ASSUME NEW T \in SUBSET Nat, T # {} PROVE \E n \in T : \A m \in T : n <= m
<1>1. PICK n \in T : \A m \in T : ~(<<m, n>> \in OpToRel(<, Nat))
  BY NatLessThanWellFounded, WFMin, Zenon
<1>2. \A m \in T : ~(m < n)
  BY <1>1 DEF OpToRel
<1> QED BY <1>2

\* The scan stops at the first slot that fails the test, whatever the file holds.
LEMMA ScanStops ==
    ASSUME NEW f
    PROVE  /\ ScanLength(f) \in 0..MaxSlots
           /\ \A k \in Nat : k < ScanLength(f) => Valid(f, k)
           /\ ScanLength(f) < MaxSlots => ~Valid(f, ScanLength(f))
<1> DEFINE T == {n \in 0..MaxSlots : n < MaxSlots => ~Valid(f, n)}
           Q(n) == (\A k \in 0..(n - 1) : Valid(f, k)) /\ (n < MaxSlots => ~Valid(f, n))
<1>0. MaxSlots \in Nat
  BY PowerAssumption
<1>1. T \in SUBSET Nat /\ MaxSlots \in T
  BY <1>0
<1>2. PICK n \in T : \A m \in T : n <= m
  BY <1>1, LeastNat
<1>3. n \in 0..MaxSlots /\ Q(n)
  <2>1. \A k \in 0..(n - 1) : k \in 0..MaxSlots /\ k < MaxSlots /\ ~(n <= k)
    BY <1>0, <1>2
  <2>2. \A k \in 0..(n - 1) : Valid(f, k)
    BY <1>2, <2>1
  <2> QED BY <1>2, <2>2
<1>4. ScanLength(f) \in 0..MaxSlots /\ Q(ScanLength(f))
  <2>1. \E m \in 0..MaxSlots : Q(m)
    BY <1>3
  <2>2. ScanLength(f) = CHOOSE m \in 0..MaxSlots : Q(m)
    BY DEF ScanLength
  <2> HIDE DEF Q
  <2> QED BY <2>1, <2>2
<1>5. ASSUME NEW k \in Nat, k < ScanLength(f) PROVE k \in 0..(ScanLength(f) - 1)
  BY <1>0, <1>4, <1>5
<1> QED BY <1>4, <1>5

Pairs == [vid : Entries, vec : Entries]

\* What replay delivers is what the valid slots hold.
LEMMA ReplayGives ==
    ASSUME NEW f \in File
    PROVE  /\ Replay(f) \in Seq(Pairs) /\ Len(Replay(f)) = ScanLength(f)
           /\ \A k \in Slots : k < ScanLength(f) =>
                 /\ Replay(f)[k + 1] = [vid |-> f.slots[k]["ids"], vec |-> f.slots[k]["data"]]
                 /\ f.slots[k]["ids"] \in Entries /\ f.slots[k]["data"] \in Entries
                 /\ f.slots[k]["crc"] = f.slots[k]["data"]
<1> DEFINE n == ScanLength(f)
           Entry(k) == [vid |-> f.slots[k]["ids"], vec |-> f.slots[k]["data"]]
<1>0. MaxSlots \in Nat /\ Zero \notin Entries
  BY PowerAssumption
<1>1. n \in Nat /\ n <= MaxSlots /\ \A k \in Nat : k < n => Valid(f, k)
  BY <1>0, ScanStops
<1>2. Replay(f) = [k \in 1..n |-> Entry(k - 1)]
  BY DEF Replay
<1> HIDE DEF n
<1>3. ASSUME NEW k \in Slots, k < n
      PROVE  /\ f.slots[k]["ids"] \in Entries /\ f.slots[k]["data"] \in Entries
             /\ f.slots[k]["crc"] = f.slots[k]["data"]
  <2>1. k \in Nat
    BY DEF Slots
  <2>2. Valid(f, k)
    BY <1>1, <1>3, <2>1
  <2>3. f.slots[k] \in Contents
    BY FileParts
  <2>4. f.slots[k]["ids"] \in Entries \cup {Zero} /\ f.slots[k]["data"] \in Entries \cup {Zero}
    BY <2>3 DEF Contents, Parts
  <2>5. f.slots[k]["ids"] # Zero /\ f.slots[k]["crc"] # Zero /\ f.slots[k]["crc"] = f.slots[k]["data"]
    BY <2>2 DEF Valid
  <2> QED BY <2>4, <2>5
<1>4. \A k \in 1..n : k - 1 \in Slots /\ k - 1 < n
  BY <1>0, <1>1 DEF Slots
<1>5. \A k \in 1..n : Entry(k - 1) \in Pairs
  BY <1>3, <1>4 DEF Pairs
<1> HIDE DEF Entry
<1>6. Replay(f) \in Seq(Pairs) /\ Len(Replay(f)) = n
  BY <1>1, <1>2, <1>5
<1>7. ASSUME NEW k \in Slots, k < n PROVE Replay(f)[k + 1] = Entry(k)
  <2>1. k \in Nat /\ k + 1 \in 1..n /\ (k + 1) - 1 = k
    BY <1>1, <1>7 DEF Slots
  <2> QED BY <1>2, <2>1
<1> QED BY <1>3, <1>6, <1>7 DEF n, Entry

LEMMA SamePage == ASSUME NEW f \in File, NEW p PROVE WithPage(f, f, p) = f
<1> DEFINE z == [k \in Slots |-> [q \in Parts |-> f.slots[k][q]]]
<1>1. f.slots \in [Slots -> Contents] /\ f = [hdr |-> f.hdr, slots |-> f.slots]
  BY FileParts
<1>2. WithPage(f, f, p) = [hdr |-> f.hdr, slots |-> z]
  BY DEF WithPage
<1>3. z = f.slots
  <2>1. \A k \in Slots : f.slots[k] = [q \in Parts |-> f.slots[k][q]]
    BY <1>1 DEF Contents
  <2> QED BY <1>1, <2>1
<1> QED BY <1>1, <1>2, <1>3

-----------------------------------------------------------------------------
(* Types                                                                    *)

Number ==
    /\ MaxSlots \in Nat /\ CheckpointEvery \in Nat \ {0} /\ Zero \notin Entries
    /\ cache \in File /\ disk \in File /\ arg \in Entries
    /\ next_lsn \in Nat /\ next_lsn <= MaxSlots /\ appends \in Nat
    /\ known \in Seq(Pairs) /\ Len(known) \in Nat
    /\ synced \in Nat /\ synced <= Len(known)
    /\ \A k \in Slots : k \in Nat /\ k < MaxSlots
    /\ \A k \in Nat : k < MaxSlots => k \in Slots

LEMMA Numbers == TypeOK => Number
<1> SUFFICES ASSUME TypeOK PROVE Number
  OBVIOUS
<1>1. known \in Seq(Pairs) /\ Len(known) \in Nat
  BY LenProperties DEF TypeOK, Pairs
<1> QED BY <1>1, PowerAssumption DEF Number, TypeOK, Slots

LEMMA TypeAppend ==
    ASSUME IInv, (\E e \in Entries : AppendEntry(e)) \/ StoreEntry \/ CountAppend
    PROVE  TypeOK'
<1> USE DEF IInv, members, history
<1>1. Number
  BY Numbers
<1>2. CASE \E e \in Entries : AppendEntry(e)
  <2>1. PICK e \in Entries : AppendEntry(e)
    BY <1>2
  <2>2. budget' \in [appends : 0..MaxAppends, ends : 0..MaxEnds, truncates : 0..MaxTruncates]
    <3>1. budget \in [appends : 0..MaxAppends, ends : 0..MaxEnds, truncates : 0..MaxTruncates]
          /\ budget.appends < MaxAppends /\ budget' = [budget EXCEPT !.appends = @ + 1]
          /\ MaxAppends \in Nat
      BY <2>1, PowerAssumption DEF TypeOK, AppendEntry
    <3> QED BY <3>1
  <2> QED BY <2>1, <2>2 DEF TypeOK, AppendEntry
<1>3. CASE StoreEntry
  <2>1. PICK part \in Parts, to \in {"crc", "data", "count"} : SlotStore(part, to)
    BY <1>3 DEF StoreEntry, Parts
  <2>2. part = pc /\ pc \in Appending /\ next_lsn \in Slots
    BY <1>1, <2>1 DEF SlotStore, InvKnown, Number, Parts, Appending
  <2>3. cache' \in File
    BY <2>1, <2>2, StoredPart DEF SlotStore
  <2>4. held' \in [Slots -> SUBSET Entries]
    BY <1>1, <1>3 DEF StoreEntry, TypeOK, Number
  <2>5. UNCHANGED <<known, synced, leftover, torn>>
    BY <1>3 DEF StoreEntry
  <2> QED BY <2>1, <2>3, <2>4, <2>5 DEF TypeOK, SlotStore
<1>4. CASE CountAppend
  <2>1. next_lsn + 1 \in 0..MaxSlots
    BY <1>1, <1>4 DEF CountAppend, InvKnown, Number, Appending
  <2>2. known' \in Seq(Pairs) /\ Len(known') = Len(known) + 1
    <3>1. Pair(arg) \in Pairs
      BY <1>1 DEF Number, Pair, Pairs
    <3> QED BY <1>1, <1>4, <3>1, AppendProperties DEF CountAppend, Number
  <2>3. synced' \in 0..Len(known')
    BY <1>1, <1>4, <2>2 DEF CountAppend, Number
  <2>4. checkpoint_lsn' \in 0..MaxSlots /\ appends' \in 0..CheckpointEvery
        /\ pc' \in {"ckpt_lsn", "idle"} /\ next_lsn' = next_lsn + 1
    BY <1>1, <1>4, <2>1 DEF CountAppend, TypeOK, Number
  <2> QED BY <1>4, <2>1, <2>2, <2>3, <2>4 DEF TypeOK, CountAppend, Pairs
<1> QED BY <1>2, <1>3, <1>4

HeaderSteps == CkptStoreLsn \/ CkptStoreCrc \/ TruncStoreLsn \/ TruncStoreCrc

\* What a store into the header does.
LEMMA HeaderStored ==
    ASSUME TypeOK, HeaderSteps
    PROVE  /\ cache' \in File /\ cache'.slots = cache.slots
           /\ UNCHANGED <<disk, cutting, next_lsn, checkpoint_lsn, appends, arg, known, synced, held,
                          leftover, torn, budget>>
           /\ \/ pc = "ckpt_lsn" /\ pc' = "ckpt_crc" /\ cache'.hdr.ckpt = checkpoint_lsn
              \/ pc = "hdr_lsn" /\ pc' = "hdr_crc" /\ cache'.hdr.ckpt = 0
              \/ /\ pc = "ckpt_crc" /\ pc' = "sync_ckpt"
                 /\ cache'.hdr.ckpt = cache.hdr.ckpt /\ cache'.hdr.crc = cache.hdr.ckpt
              \/ /\ pc = "hdr_crc" /\ pc' = "sync_hdr"
                 /\ cache'.hdr.ckpt = cache.hdr.ckpt /\ cache'.hdr.crc = cache.hdr.ckpt
<1>1. cache \in File /\ cache.hdr \in Header /\ cache.slots \in [Slots -> Contents]
      /\ cache = [hdr |-> cache.hdr, slots |-> cache.slots] /\ checkpoint_lsn \in Nat
  BY FileParts, PowerAssumption DEF TypeOK
<1>2. ASSUME NEW h \in Header, cache' = [cache EXCEPT !.hdr = h]
      PROVE  cache' \in File /\ cache'.slots = cache.slots /\ cache'.hdr = h
  <2>1. cache' = [hdr |-> h, slots |-> cache.slots]
    BY <1>1, <1>2
  <2>2. [hdr |-> h, slots |-> cache.slots] \in File
    BY <1>1, <1>2, FileParts, Zenon
  <2> QED BY <2>1, <2>2
<1> USE DEF HeaderStore, members, history
<1>3. CASE CkptStoreLsn
  <2> DEFINE h == [cache.hdr EXCEPT !.ckpt = checkpoint_lsn]
  <2>1. h \in Header /\ h.ckpt = checkpoint_lsn
    BY <1>1 DEF Header
  <2>2. cache' = [cache EXCEPT !.hdr = h]
    BY <1>3 DEF CkptStoreLsn
  <2> HIDE DEF h
  <2> QED BY <1>2, <1>3, <2>1, <2>2 DEF CkptStoreLsn
<1>4. CASE CkptStoreCrc
  <2> DEFINE h == [cache.hdr EXCEPT !.crc = cache.hdr.ckpt]
  <2>1. h \in Header /\ h.ckpt = cache.hdr.ckpt /\ h.crc = cache.hdr.ckpt
    BY <1>1 DEF Header
  <2>2. cache' = [cache EXCEPT !.hdr = h]
    BY <1>4 DEF CkptStoreCrc
  <2> HIDE DEF h
  <2> QED BY <1>2, <1>4, <2>1, <2>2 DEF CkptStoreCrc
<1>5. CASE TruncStoreLsn
  <2> DEFINE h == [cache.hdr EXCEPT !.ckpt = 0]
  <2>1. h \in Header /\ h.ckpt = 0
    BY <1>1 DEF Header
  <2>2. cache' = [cache EXCEPT !.hdr = h]
    BY <1>5 DEF TruncStoreLsn
  <2> HIDE DEF h
  <2> QED BY <1>2, <1>5, <2>1, <2>2 DEF TruncStoreLsn
<1>6. CASE TruncStoreCrc
  <2> DEFINE h == [cache.hdr EXCEPT !.crc = cache.hdr.ckpt]
  <2>1. h \in Header /\ h.ckpt = cache.hdr.ckpt /\ h.crc = cache.hdr.ckpt
    BY <1>1 DEF Header
  <2>2. cache' = [cache EXCEPT !.hdr = h]
    BY <1>6 DEF TruncStoreCrc
  <2> HIDE DEF h
  <2> QED BY <1>2, <1>6, <2>1, <2>2 DEF TruncStoreCrc
<1> QED BY <1>3, <1>4, <1>5, <1>6 DEF HeaderSteps

-----------------------------------------------------------------------------
(* The kernel                                                               *)

LEMMA WriteBackStep == ASSUME IInv, NEW p \in Pages, WriteBack(p) PROVE IInv'
<1> USE DEF IInv
<1>1. /\ cutting = "no" /\ ~Clean(p) /\ disk' = WithPage(disk, cache, p)
      /\ UNCHANGED <<cache, cutting, pc, next_lsn, checkpoint_lsn, appends, arg, known, synced, held,
                     leftover, torn, budget>>
  BY DEF WriteBack, members, history
<1>2. Number
  BY Numbers
<1>3. /\ disk' \in File /\ disk'.hdr \in {cache.hdr, disk.hdr}
      /\ \A k \in Slots : \A q \in Parts : disk'.slots[k][q] \in {cache.slots[k][q], disk.slots[k][q]}
  <2>1. disk \in File /\ cache \in File
    BY <1>2 DEF Number
  <2>2. /\ WithPage(disk, cache, p) \in File
        /\ WithPage(disk, cache, p).hdr = IF p = 0 THEN cache.hdr ELSE disk.hdr
    BY <2>1, WrittenPage
  <2>3. \A k \in Slots : \A q \in Parts : WithPage(disk, cache, p).slots[k][q] =
           IF PageOf[k][q] = p THEN cache.slots[k][q] ELSE disk.slots[k][q]
    BY <2>1, WrittenPage
  <2>4. \A k \in Slots : \A q \in Parts : disk'.slots[k][q] \in {cache.slots[k][q], disk.slots[k][q]}
    BY <1>1, <2>3
  <2> QED BY <1>1, <2>2, <2>4
<1>4. TypeOK'
  BY <1>1, <1>3 DEF TypeOK
<1>5. InvKnown'
  BY <1>1 DEF InvKnown, Holds, Up
<1>6. InvSynced'
  BY <1>1, <1>3 DEF InvSynced, Holds, Parts
<1>7. InvHeader'
  <2>1. ~torn /\ ~MidHeader => HeaderOk(cache) /\ HeaderOk(disk)
    BY DEF InvHeader, Up, MidHeader
  <2> QED BY <1>1, <1>3, <2>1 DEF InvHeader, HeaderOk, Up, MidHeader
<1>8. InvHeld'
  BY <1>1, <1>3 DEF InvHeld
<1>9. InvOrder'
  <2>1. ~Restored
    BY <1>1, <1>2, SamePage DEF Restored, Clean, Number
  <2>2. Within => Within'
    BY <1>1 DEF Within, Wanted
  <2>3. Lagging => Lagging'
    BY <1>1, <1>3 DEF Lagging
  <2> QED BY <1>1, <2>1, <2>2, <2>3 DEF InvOrder
<1> QED BY <1>4, <1>5, <1>6, <1>7, <1>8, <1>9

LEMMA CommitCutStep == ASSUME IInv, CommitCut PROVE IInv'
<1> USE DEF IInv
<1>1. /\ cutting # "no" /\ cutting' = "no" /\ disk' = [disk EXCEPT !.slots = NoSlots]
      /\ UNCHANGED <<cache, pc, next_lsn, checkpoint_lsn, appends, arg, known, synced, held,
                     leftover, torn, budget>>
  BY DEF CommitCut, members, history
<1>2. Number
  BY Numbers
<1>3. disk' \in File /\ disk'.hdr = disk.hdr /\ disk'.slots = NoSlots
  <2>1. disk = [hdr |-> disk.hdr, slots |-> disk.slots] /\ disk.hdr \in Header
    BY <1>2, FileParts DEF Number
  <2>2. disk' = [hdr |-> disk.hdr, slots |-> NoSlots]
    BY <1>1, <2>1
  <2>3. [hdr |-> disk.hdr, slots |-> NoSlots] \in File
    BY <2>1, NoSlotsZero, FileParts, Zenon
  <2> QED BY <2>2, <2>3
<1>4. TypeOK'
  BY <1>1, <1>3 DEF TypeOK
<1>5. InvKnown'
  BY <1>1 DEF InvKnown, Holds, Up
<1>6. InvSynced'
  BY <1>1, <1>2 DEF InvSynced, Holds, Number
<1>7. InvHeader'
  BY <1>1, <1>3 DEF InvHeader, HeaderOk, Up, MidHeader
<1>8. InvHeld'
  BY <1>1, <1>3, NoSlotsZero DEF InvHeld
<1>9. InvOrder'
  <2>1. ~Restored
    BY <1>1 DEF Restored
  <2>2. Within => Within'
    BY <1>1 DEF Within, Wanted
  <2>3. Lagging'
    BY <1>1, <1>3, NoSlotsZero DEF Lagging
  <2> QED BY <1>1, <2>1, <2>2, <2>3 DEF InvOrder
<1> QED BY <1>4, <1>5, <1>6, <1>7, <1>8, <1>9

-----------------------------------------------------------------------------
(* append                                                                   *)

LEMMA AppendEntryStep == ASSUME IInv, NEW e \in Entries, AppendEntry(e) PROVE IInv'
<1>1. /\ pc = "idle" /\ pc' = "ids" /\ next_lsn < MaxSlots /\ arg' = e
      /\ UNCHANGED <<cache, disk, cutting, next_lsn, checkpoint_lsn, appends, known, synced, held,
                     leftover, torn>>
  BY DEF AppendEntry, members, history
<1>2. Number /\ TypeOK'
  BY Numbers, TypeAppend DEF IInv
<1> USE DEF IInv
<1>3. InvKnown'
  BY <1>1 DEF InvKnown, Holds, Up, Appending
<1>4. InvSynced'
  BY <1>1 DEF InvSynced, Holds
<1>5. InvHeader'
  BY <1>1 DEF InvHeader, HeaderOk, Up, MidHeader
<1>6. InvHeld'
  BY <1>1 DEF InvHeld
<1>7. InvOrder'
  <2>1. ~Restored
    BY <1>1 DEF Restored, Up
  <2>2. Within => Within'
    BY <1>1 DEF Within, Wanted
  <2>3. Lagging => Lagging'
    BY <1>1 DEF Lagging
  <2> QED BY <1>1, <2>1, <2>2, <2>3 DEF InvOrder
<1> QED BY <1>2, <1>3, <1>4, <1>5, <1>6, <1>7

LEMMA StoreEntryStep == ASSUME IInv, StoreEntry PROVE IInv'
<1>1. PICK part \in Parts, to \in {"crc", "data", "count"} :
         /\ SlotStore(part, to)
         /\ <<part, to>> \in {<<"ids", "crc">>, <<"crc", "data">>, <<"data", "count">>}
  <2>1. SlotStore("ids", "crc") \/ SlotStore("crc", "data") \/ SlotStore("data", "count")
    BY DEF StoreEntry
  <2> USE DEF Parts
  <2>2. CASE SlotStore("ids", "crc")
    <3> WITNESS "ids" \in Parts, "crc" \in {"crc", "data", "count"}
    <3> QED BY <2>2
  <2>3. CASE SlotStore("crc", "data")
    <3> WITNESS "crc" \in Parts, "data" \in {"crc", "data", "count"}
    <3> QED BY <2>3
  <2>4. CASE SlotStore("data", "count")
    <3> WITNESS "data" \in Parts, "count" \in {"crc", "data", "count"}
    <3> QED BY <2>4
  <2> QED BY <2>1, <2>2, <2>3, <2>4
<1>2. /\ pc = part /\ pc' = to
      /\ UNCHANGED <<disk, cutting, next_lsn, checkpoint_lsn, appends, arg, known, synced, leftover, torn, budget>>
  BY <1>1 DEF SlotStore, StoreEntry, members, history
<1>3. /\ pc = "ids" => held' = [held EXCEPT ![next_lsn] = @ \cup {arg}]
      /\ pc # "ids" => held' = held
  BY DEF StoreEntry, SlotStore, history
<1>4. Number /\ TypeOK' /\ TypeOK
  BY Numbers, TypeAppend DEF IInv
<1> USE DEF IInv
<1>5. next_lsn \in Slots /\ next_lsn = Len(known)
  BY <1>1, <1>2, <1>4 DEF InvKnown, Number, Appending, Up, Parts
<1>6. /\ cache'.hdr = cache.hdr
      /\ \A k \in Slots : \A q \in Parts :
            cache'.slots[k][q] = IF k = next_lsn /\ q = part THEN arg ELSE cache.slots[k][q]
  BY <1>1, <1>4, <1>5, StoredPart DEF SlotStore
<1>7. \A k \in Slots : k < next_lsn => \A q \in Parts : cache'.slots[k][q] = cache.slots[k][q]
  BY <1>4, <1>6 DEF Number
<1>8. InvKnown'
  <2>1. Holds(cache, Len(known))'
    BY <1>1, <1>2, <1>5, <1>7 DEF InvKnown, Holds, Up, Parts
  <2> QED BY <1>1, <1>2, <1>5, <1>6, <2>1 DEF InvKnown, Up, Appending, Parts
<1>9. InvSynced'
  <2>1. \A k \in Slots : k < synced => k < next_lsn
    BY <1>4, <1>5 DEF Number
  <2> QED BY <1>2, <1>7, <2>1 DEF InvSynced, Holds, Parts
<1>10. InvHeader'
  BY <1>1, <1>2, <1>6 DEF InvHeader, HeaderOk, Up, MidHeader
<1>11. InvHeld'
  <2>1. held \in [Slots -> SUBSET Entries]
    BY <1>4 DEF TypeOK
  <2>2. \A k \in Slots : held[k] \subseteq held'[k]
    BY <1>3, <1>5, <2>1
  <2>3. arg \in held'[next_lsn]
    BY <1>1, <1>2, <1>3, <1>5, <2>1 DEF InvHeld, Parts
  <2> QED BY <1>1, <1>2, <1>6, <2>2, <2>3 DEF InvHeld
<1>12. InvOrder'
  <2>1. ~Restored
    BY <1>1, <1>2 DEF Restored, Up
  <2>2. ASSUME Within PROVE Within'
    <3>1. ASSUME NEW k \in Slots, NEW q \in Parts PROVE cache'.slots[k][q] \in {Zero, Wanted(k, q)'}
      <4>1. CASE k = next_lsn /\ q = part
        <5>1. Wanted(k, q)' = arg
          BY <1>1, <1>2, <1>4, <1>5, <4>1 DEF Wanted, Number
        <5> QED BY <1>6, <4>1, <5>1
      <4>2. CASE ~(k = next_lsn /\ q = part)
        <5>1. Wanted(k, q) = Zero \/ Wanted(k, q)' = Wanted(k, q)
          BY <1>1, <1>2, <1>4, <1>5 DEF Wanted, Number
        <5>2. cache'.slots[k][q] = cache.slots[k][q]
          BY <1>6, <4>2
        <5> QED BY <2>2, <5>1, <5>2 DEF Within
      <4> QED BY <4>1, <4>2
    <3> QED BY <3>1 DEF Within
  <2>3. ASSUME Within, Lagging PROVE Lagging'
    <3>1. \A q \in Parts : Wanted(next_lsn, q) \in {Zero, arg}
      BY <1>4, <1>5 DEF Wanted, Number
    <3>2. cache.slots[next_lsn][part] \in {Zero, arg}
      BY <1>5, <2>3, <3>1 DEF Within
    <3> QED BY <1>2, <1>6, <2>3, <3>2 DEF Lagging
  <2> QED BY <1>2, <2>1, <2>2, <2>3 DEF InvOrder
<1> QED BY <1>4, <1>8, <1>9, <1>10, <1>11, <1>12

LEMMA CountAppendStep == ASSUME IInv, CountAppend PROVE IInv'
<1>1. /\ pc = "count" /\ pc' \in {"idle", "ckpt_lsn"} /\ next_lsn' = next_lsn + 1
      /\ known' = Append(known, Pair(arg))
      /\ UNCHANGED <<cache, disk, cutting, arg, synced, held, leftover, torn>>
  BY DEF CountAppend
<1>2. Number /\ TypeOK'
  BY Numbers, TypeAppend DEF IInv
<1> USE DEF IInv
<1>3. next_lsn \in Slots /\ next_lsn = Len(known) /\ next_lsn + 1 <= MaxSlots
  BY <1>1, <1>2 DEF InvKnown, Number, Appending, Up
<1>4. /\ Len(known') = Len(known) + 1 /\ known'[Len(known) + 1] = Pair(arg)
      /\ \A k \in Slots : k < Len(known) => known'[k + 1] = known[k + 1]
  <2>1. Pair(arg) \in Pairs
    BY <1>2 DEF Number, Pair, Pairs
  <2>2. /\ Len(known') = Len(known) + 1 /\ known'[Len(known) + 1] = Pair(arg)
        /\ \A k \in 1..Len(known) : known'[k] = known[k]
    BY <1>1, <1>2, <2>1, AppendProperties DEF Number
  <2>3. \A k \in Slots : k < Len(known) => k + 1 \in 1..Len(known)
    BY <1>2 DEF Number
  <2> QED BY <2>2, <2>3
<1>5. Pair(arg).vid = arg /\ Pair(arg).vec = arg
  BY DEF Pair
<1>6. InvKnown'
  <2>1. ASSUME NEW k \in Slots, k < Len(known')
        PROVE  /\ cache.slots[k]["ids"] = known'[k + 1].vid
               /\ cache.slots[k]["crc"] = known'[k + 1].vec /\ cache.slots[k]["data"] = known'[k + 1].vec
    <3>1. CASE k < Len(known)
      BY <1>1, <1>4, <3>1 DEF InvKnown, Holds, Up
    <3>2. CASE k = Len(known)
      BY <1>1, <1>3, <1>4, <1>5, <3>2 DEF InvKnown
    <3> QED BY <1>2, <1>4, <2>1, <3>1, <3>2 DEF Number
  <2>2. Holds(cache, Len(known))'
    BY <1>1, <2>1 DEF Holds
  <2> QED BY <1>1, <1>3, <1>4, <2>2 DEF InvKnown, Up, Appending
<1>7. InvSynced'
  BY <1>1, <1>2, <1>4 DEF InvSynced, Holds, Number
<1>8. InvHeader'
  BY <1>1 DEF InvHeader, HeaderOk, Up, MidHeader
<1>9. InvHeld'
  BY <1>1 DEF InvHeld
<1>10. InvOrder'
  <2>1. ~Restored
    BY <1>1 DEF Restored, Up
  <2>2. ASSUME Within PROVE Within'
    <3>1. ASSUME NEW k \in Slots, NEW q \in Parts PROVE Wanted(k, q) = Zero \/ Wanted(k, q)' = Wanted(k, q)
      <4>1. CASE k < Len(known)
        BY <1>2, <1>4, <4>1 DEF Wanted, Number
      <4>2. CASE k = Len(known)
        BY <1>1, <1>2, <1>4, <1>5, <4>2 DEF Wanted, Number
      <4>3. CASE k > Len(known)
        BY <1>2, <4>3 DEF Wanted, Number
      <4> QED BY <1>2, <4>1, <4>2, <4>3 DEF Number
    <3> QED BY <1>1, <2>2, <3>1 DEF Within
  <2>3. Lagging => Lagging'
    BY <1>1 DEF Lagging
  <2> QED BY <1>1, <2>1, <2>2, <2>3 DEF InvOrder
<1> QED BY <1>2, <1>6, <1>7, <1>8, <1>9, <1>10

-----------------------------------------------------------------------------
(* checkpoint and truncate                                                  *)

LEMMA HeaderStep == ASSUME IInv, HeaderSteps PROVE IInv'
<1> USE DEF IInv
<1>1. /\ cache' \in File /\ cache'.slots = cache.slots
      /\ UNCHANGED <<disk, cutting, next_lsn, checkpoint_lsn, appends, arg, known, synced, held,
                     leftover, torn, budget>>
      /\ \/ pc = "ckpt_lsn" /\ pc' = "ckpt_crc" /\ cache'.hdr.ckpt = checkpoint_lsn
         \/ pc = "hdr_lsn" /\ pc' = "hdr_crc" /\ cache'.hdr.ckpt = 0
         \/ /\ pc = "ckpt_crc" /\ pc' = "sync_ckpt"
            /\ cache'.hdr.ckpt = cache.hdr.ckpt /\ cache'.hdr.crc = cache.hdr.ckpt
         \/ /\ pc = "hdr_crc" /\ pc' = "sync_hdr"
            /\ cache'.hdr.ckpt = cache.hdr.ckpt /\ cache'.hdr.crc = cache.hdr.ckpt
  BY HeaderStored
<1>2. Number /\ checkpoint_lsn <= MaxSlots
  BY Numbers, PowerAssumption DEF TypeOK
<1>3. TypeOK'
  BY <1>1 DEF TypeOK, SyncSteps
<1>4. InvKnown'
  BY <1>1 DEF InvKnown, Holds, Up, Appending
<1>5. InvSynced'
  BY <1>1 DEF InvSynced, Holds
<1>6. InvHeader'
  <2>1. cache'.hdr.ckpt <= MaxSlots
    BY <1>1, <1>2 DEF InvHeader, Number
  <2> QED BY <1>1, <2>1 DEF InvHeader, HeaderOk, Up, MidHeader
<1>7. InvHeld'
  BY <1>1 DEF InvHeld
<1>8. InvOrder'
  <2>1. ~Restored
    BY <1>1 DEF Restored, Up
  <2>2. Within => Within'
    BY <1>1 DEF Within, Wanted
  <2>3. Lagging => Lagging'
    BY <1>1 DEF Lagging
  <2> QED BY <1>1, <2>1, <2>2, <2>3 DEF InvOrder
<1> QED BY <1>3, <1>4, <1>5, <1>6, <1>7, <1>8

LEMMA EndBudget ==
    ASSUME TypeOK, Ends
    PROVE  /\ budget' \in [appends : 0..MaxAppends, ends : 0..MaxEnds, truncates : 0..MaxTruncates]
           /\ next_lsn' \in 0..MaxSlots /\ checkpoint_lsn' \in 0..MaxSlots
           /\ appends' \in 0..CheckpointEvery
<1>1. budget \in [appends : 0..MaxAppends, ends : 0..MaxEnds, truncates : 0..MaxTruncates]
      /\ MaxEnds \in Nat /\ budget.ends < MaxEnds /\ budget' = [budget EXCEPT !.ends = @ + 1]
  BY PowerAssumption DEF TypeOK, Ends
<1> QED BY <1>1, PowerAssumption DEF Ends

\* An msync of the whole file has returned, outside an append.
LEMMA SyncedStep ==
    ASSUME IInv, CkptReturns \/ Exited
    PROVE  IInv'
<1> USE DEF IInv
<1>1. /\ Synced(Pages) /\ synced' = Len(known) /\ torn' = FALSE
      /\ <<pc, pc'>> \in {<<"sync_ckpt", "idle">>, <<"sync_exit", "down">>}
      /\ UNCHANGED <<cache, disk, cutting, arg, known, held, leftover>>
      /\ (pc' = "idle" => UNCHANGED <<next_lsn, checkpoint_lsn, appends, budget>>)
      /\ (pc' = "down" => Ends)
  BY DEF CkptReturns, Exited, members
<1>2. Number
  BY Numbers
<1>3. pc \in {"sync_ckpt", "sync_exit"} /\ pc' \in {"idle", "down"}
  BY <1>1
<1>4. /\ cutting = "no" /\ disk.hdr = cache.hdr
      /\ \A k \in Slots : \A q \in Parts : disk.slots[k][q] = cache.slots[k][q]
  BY <1>1, SyncedAll
<1>5. TypeOK'
  <2>1. /\ next_lsn' \in 0..MaxSlots /\ checkpoint_lsn' \in 0..MaxSlots /\ appends' \in 0..CheckpointEvery
        /\ budget' \in [appends : 0..MaxAppends, ends : 0..MaxEnds, truncates : 0..MaxTruncates]
    <3>1. CASE pc' = "idle"
      BY <1>1, <3>1 DEF TypeOK
    <3>2. CASE pc' = "down"
      <4>1. Ends
        BY <1>1, <3>2
      <4> QED BY <4>1, EndBudget
    <3> QED BY <1>3, <3>1, <3>2
  <2>2. synced' \in 0..Len(known)
    BY <1>1, <1>2 DEF Number
  <2>3. torn' \in BOOLEAN
    BY <1>1, Zenon
  <2>4. UNCHANGED <<cache, disk, cutting, arg, known, held, leftover>>
    BY <1>1
  <2> QED BY <1>3, <2>1, <2>2, <2>3, <2>4 DEF TypeOK
<1>6. InvKnown'
  BY <1>1, <1>3 DEF InvKnown, Holds, Up, Appending
<1>7. InvSynced'
  <2>1. Holds(cache, Len(known))
    BY <1>3 DEF InvKnown, Up
  <2> QED BY <1>1, <1>4, <2>1 DEF InvSynced, Holds, Parts
<1>8. InvHeader'
  BY <1>1, <1>3, <1>4 DEF InvHeader, HeaderOk, Up, MidHeader
<1>9. InvHeld'
  BY <1>1, <1>3 DEF InvHeld
<1>10. InvOrder'
  <2>1. ~Restored
    BY <1>3 DEF Restored, Up
  <2>2. ASSUME Within PROVE Within'
    <3>1. \A k \in Slots : \A q \in Parts : Wanted(k, q) = Zero \/ Wanted(k, q)' = Wanted(k, q)
      BY <1>1, <1>3 DEF Wanted
    <3> QED BY <1>1, <2>2, <3>1 DEF Within
  <2>3. Lagging => Lagging'
    BY <1>1 DEF Lagging
  <2> QED BY <1>1, <2>1, <2>2, <2>3 DEF InvOrder
<1> QED BY <1>5, <1>6, <1>7, <1>8, <1>9, <1>10

\* The start of a truncate, its return, and the start of the destructor.
LEMMA PlainStep ==
    ASSUME IInv, Truncate \/ TruncateReturns \/ Exit
    PROVE  IInv'
<1> USE DEF IInv
<1>1. /\ UNCHANGED <<cache, disk, cutting, arg, known, synced, held, leftover>>
      /\ <<pc, pc'>> \in {<<"idle", "sync_cut">>, <<"sync_hdr", "idle">>, <<"idle", "sync_exit">>}
      /\ next_lsn' \in {next_lsn, 0} /\ checkpoint_lsn' \in {checkpoint_lsn, 0} /\ appends' \in {appends, 0}
      /\ next_lsn' = IF pc' = "sync_cut" THEN 0 ELSE next_lsn
      /\ (pc' # "idle" => torn' = torn)
      /\ (pc' = "idle" => torn' = FALSE /\ Clean(0))
  BY DEF Truncate, TruncateReturns, Exit, members, history, Synced
<1>2. Number
  BY Numbers
<1>3. pc \in {"idle", "sync_hdr"} /\ pc' \in {"sync_cut", "idle", "sync_exit"}
      /\ (pc = "sync_hdr" <=> pc' = "idle")
  BY <1>1
<1>4. pc = "sync_hdr" => cutting = "no" /\ disk.hdr = cache.hdr
  <2>1. pc = "sync_hdr" => cutting = "no" /\ WithPage(disk, cache, 0) = disk
    BY <1>1, <1>3 DEF Clean
  <2>2. WithPage(disk, cache, 0).hdr = cache.hdr
    BY <1>2, PowerAssumption, WrittenPage DEF Number
  <2> QED BY <2>1, <2>2
<1>5. TypeOK'
  <2>1. budget' \in [appends : 0..MaxAppends, ends : 0..MaxEnds, truncates : 0..MaxTruncates]
    <3>1. budget \in [appends : 0..MaxAppends, ends : 0..MaxEnds, truncates : 0..MaxTruncates]
          /\ MaxTruncates \in Nat
      BY PowerAssumption DEF TypeOK
    <3>2. CASE Truncate
      BY <3>1, <3>2 DEF Truncate
    <3>3. CASE TruncateReturns \/ Exit
      BY <3>1, <3>3 DEF TruncateReturns, Exit
    <3> QED BY <3>2, <3>3
  <2>2. /\ next_lsn' \in 0..MaxSlots /\ checkpoint_lsn' \in 0..MaxSlots /\ appends' \in 0..CheckpointEvery
    BY <1>1, PowerAssumption DEF TypeOK
  <2>3. torn' \in BOOLEAN
    BY <1>1, <1>3 DEF TypeOK
  <2> QED BY <1>1, <1>3, <2>1, <2>2, <2>3 DEF TypeOK, SyncSteps
<1>6. InvKnown'
  BY <1>1, <1>3 DEF InvKnown, Holds, Up, Appending
<1>7. InvSynced'
  BY <1>1 DEF InvSynced, Holds
<1>8. InvHeader'
  BY <1>1, <1>3, <1>4 DEF InvHeader, HeaderOk, Up, MidHeader
<1>9. InvHeld'
  BY <1>1, <1>3 DEF InvHeld
<1>10. InvOrder'
  <2>1. ~Restored
    BY <1>3 DEF Restored, Up
  <2>2. Within => Within'
    BY <1>1, <1>3 DEF Within, Wanted
  <2>3. Lagging => Lagging'
    BY <1>1 DEF Lagging
  <2> QED BY <1>1, <2>1, <2>2, <2>3 DEF InvOrder
<1> QED BY <1>5, <1>6, <1>7, <1>8, <1>9, <1>10

LEMMA CutFileStep == ASSUME IInv, CutFile PROVE IInv'
<1> USE DEF IInv
<1>1. /\ pc = "sync_cut" /\ pc' = "hdr_lsn" /\ Synced(Pages)
      /\ cache' = [cache EXCEPT !.slots = NoSlots] /\ cutting' = "truncate"
      /\ known' = <<>> /\ synced' = 0 /\ held' = [k \in Slots |-> {}] /\ leftover' = FALSE
      /\ UNCHANGED <<disk, next_lsn, checkpoint_lsn, appends, arg, torn, budget>>
  BY DEF CutFile, members
<1>2. Number
  BY Numbers
<1>3. cache' \in File /\ cache'.hdr = cache.hdr /\ cache'.slots = NoSlots
  <2>1. cache = [hdr |-> cache.hdr, slots |-> cache.slots] /\ cache.hdr \in Header
    BY <1>2, FileParts DEF Number
  <2>2. cache' = [hdr |-> cache.hdr, slots |-> NoSlots]
    BY <1>1, <2>1
  <2>3. [hdr |-> cache.hdr, slots |-> NoSlots] \in File
    BY <2>1, NoSlotsZero, FileParts, Zenon
  <2> QED BY <2>2, <2>3
<1>4. next_lsn = 0
  BY <1>1 DEF InvKnown
<1>5. TypeOK'
  <2>1. known' \in Seq([vid : Entries, vec : Entries]) /\ synced' \in 0..Len(known')
    <3>1. known' = <<>> /\ Len(known') = 0 /\ synced' = 0
      BY <1>1
    <3> QED BY <3>1
  <2>2. held' \in [Slots -> SUBSET Entries]
    BY <1>1
  <2>3. leftover' \in BOOLEAN /\ cutting' \in {"no", "truncate", "orphan"}
    BY <1>1, Zenon
  <2>4. pc' = "hdr_lsn" /\ UNCHANGED <<disk, next_lsn, checkpoint_lsn, appends, arg, torn, budget>>
    BY <1>1
  <2> QED BY <1>3, <2>1, <2>2, <2>3, <2>4 DEF TypeOK
<1>6. Len(<<>>) = 0 /\ MaxSlots \in Nat
  BY PowerAssumption
<1>7. InvKnown'
  BY <1>1, <1>2, <1>4, <1>6 DEF InvKnown, Holds, Up, Appending, Number
<1>8. InvSynced'
  BY <1>1, <1>2 DEF InvSynced, Holds, Number
<1>9. InvHeader'
  BY <1>1, <1>3 DEF InvHeader, HeaderOk, Up, MidHeader
<1>10. InvHeld'
  BY <1>1, <1>3, NoSlotsZero DEF InvHeld
<1>11. InvOrder'
  BY <1>1, <1>3, NoSlotsZero DEF InvOrder, Within
<1> QED BY <1>5, <1>7, <1>8, <1>9, <1>10, <1>11

-----------------------------------------------------------------------------
(* The end and the next start                                               *)

LEMMA CrashStep == ASSUME IInv, Crash PROVE IInv'
<1> USE DEF IInv
<1>1. /\ Up /\ pc' = "down" /\ Ends /\ torn' = (torn \/ MidHeader)
      /\ cutting' = IF cutting = "no" THEN "no" ELSE "orphan"
      /\ UNCHANGED <<cache, disk, arg, known, synced, held, leftover>>
  BY DEF Crash, Up
<1>2. TypeOK'
  <2>1. torn' \in BOOLEAN
    BY <1>1 DEF TypeOK
  <2>2. cutting' \in {"no", "truncate", "orphan"} /\ pc' = "down"
    BY <1>1
  <2> QED BY <1>1, <2>1, <2>2, EndBudget DEF TypeOK
<1>3. InvKnown'
  BY <1>1 DEF InvKnown, Holds, Up, Appending
<1>4. InvSynced'
  BY <1>1 DEF InvSynced, Holds
<1>5. InvHeader'
  BY <1>1 DEF InvHeader, HeaderOk, Up, MidHeader
<1>6. InvHeld'
  BY <1>1 DEF InvHeld
<1>7. InvOrder'
  <2>1. ~Restored
    BY <1>1 DEF Restored
  <2>2. ASSUME Within PROVE Within'
    <3>1. \A k \in Slots : \A q \in Parts : Wanted(k, q) = Zero \/ Wanted(k, q)' = Wanted(k, q)
      BY <1>1 DEF Wanted
    <3> QED BY <1>1, <2>2, <3>1 DEF Within
  <2>3. Lagging => Lagging'
    BY <1>1 DEF Lagging
  <2> QED BY <1>1, <2>1, <2>2, <2>3 DEF InvOrder
<1> QED BY <1>2, <1>3, <1>4, <1>5, <1>6, <1>7

LEMMA LosePowerStep == ASSUME IInv, LosePower PROVE IInv'
<1> USE DEF IInv
<1>1. /\ pc' = "down" /\ Ends /\ torn' = (torn \/ MidHeader) /\ cache' = disk /\ cutting' = "no"
      /\ UNCHANGED <<disk, arg, synced, leftover>>
      /\ cutting = "no" => UNCHANGED <<known, held>>
      /\ cutting # "no" =>
            /\ known' = Replay(disk)
            /\ held' = [k \in Slots |-> {disk.slots[k][part] : part \in Parts} \ {Zero}]
  BY DEF LosePower
<1>2. Number
  BY Numbers
<1>3. Replay(disk) \in Seq(Pairs) /\ Len(Replay(disk)) \in 0..MaxSlots
  BY <1>2, ReplayGives, ScanStops DEF Number
<1>4. cutting # "no" => synced = 0
  BY DEF InvSynced
<1>5. TypeOK'
  <2>1. torn' \in BOOLEAN
    BY <1>1 DEF TypeOK
  <2>2. known' \in Seq(Pairs) /\ synced' \in 0..Len(known')
    BY <1>1, <1>2, <1>3, <1>4 DEF Number
  <2>3. held' \in [Slots -> SUBSET Entries]
    <3>1. CASE cutting = "no"
      BY <1>1, <3>1 DEF TypeOK
    <3>2. CASE cutting # "no"
      <4>1. \A k \in Slots : \A part \in Parts : disk.slots[k][part] \in Entries \cup {Zero}
        BY <1>2, FileParts DEF Number, Contents
      <4>2. \A k \in Slots : {disk.slots[k][part] : part \in Parts} \ {Zero} \in SUBSET Entries
        BY <4>1
      <4> QED BY <1>1, <3>2, <4>2
    <3> QED BY <3>1, <3>2
  <2> QED BY <1>1, <1>2, <2>1, <2>2, <2>3, EndBudget DEF TypeOK, Pairs, Number
<1>6. InvKnown'
  BY <1>1, <1>2, <1>3 DEF InvKnown, Up, Appending, Number
<1>7. InvSynced'
  <2>1. CASE cutting = "no"
    BY <1>1, <2>1 DEF InvSynced, Holds
  <2>2. CASE cutting # "no"
    BY <1>1, <1>2, <1>4, <2>2 DEF InvSynced, Holds, Number
  <2> QED BY <2>1, <2>2
<1>8. InvHeader'
  BY <1>1 DEF InvHeader, HeaderOk, Up, MidHeader
<1>9. InvHeld'
  <2>1. CASE cutting = "no"
    BY <1>1, <2>1 DEF InvHeld
  <2>2. CASE cutting # "no"
    <3>1. \A k \in Slots : \A part \in Parts : disk.slots[k][part] \in held'[k] \cup {Zero}
      BY <1>1, <2>2
    <3> QED BY <1>1, <3>1 DEF InvHeld
  <2> QED BY <2>1, <2>2
<1>10. InvOrder'
  <2>1. Lagging'
    BY <1>1 DEF Lagging
  <2>2. CASE cutting # "no"
    BY <1>1, <2>1, <2>2 DEF InvOrder, Restored, Up
  <2>3. CASE cutting = "no"
    <3>1. Restored => Restored'
      BY <1>1, <2>3 DEF Restored, Up
    <3>2. ASSUME Within, Lagging PROVE Within'
      <4>1. \A k \in Slots : \A q \in Parts : Wanted(k, q) = Zero \/ Wanted(k, q)' = Wanted(k, q)
        BY <1>1, <2>3 DEF Wanted
      <4> QED BY <1>1, <3>2, <4>1 DEF Within, Lagging
    <3> QED BY <1>1, <2>1, <2>3, <3>1, <3>2 DEF InvOrder
  <2> QED BY <2>2, <2>3
<1> QED BY <1>5, <1>6, <1>7, <1>8, <1>9, <1>10

LEMMA OpenStep == ASSUME IInv, Open PROVE IInv'
<1> USE DEF IInv
<1> DEFINE n == ScanLength(cache)
<1>1. /\ pc = "down" /\ pc' = "idle" /\ HeaderOk(cache)
      /\ next_lsn' = n /\ checkpoint_lsn' = cache.hdr.ckpt /\ known' = Replay(cache)
      /\ synced' = IF synced <= n THEN synced ELSE n
      /\ leftover' = (leftover \/ \E k \in Slots : k >= n /\ cache.slots[k] # Blank)
      /\ UNCHANGED <<cache, disk, cutting, appends, arg, held, torn, budget>>
  BY DEF Open
<1>2. Number
  BY Numbers
<1>3. /\ known' \in Seq(Pairs) /\ Len(known') = n /\ n \in Nat /\ n <= MaxSlots
      /\ \A k \in Slots : k < n =>
            /\ known'[k + 1].vid = cache.slots[k]["ids"] /\ known'[k + 1].vec = cache.slots[k]["data"]
            /\ cache.slots[k]["crc"] = cache.slots[k]["data"]
  <2>1. cache \in File
    BY <1>2 DEF Number
  <2>2. n \in Nat /\ n <= MaxSlots
    BY <1>2, ScanStops DEF Number
  <2>3. known' = Replay(cache)
    BY <1>1
  <2>4. Replay(cache) \in Seq(Pairs) /\ Len(Replay(cache)) = n
    BY <2>1, ReplayGives
  <2>5. ASSUME NEW k \in Slots, k < n
        PROVE  /\ Replay(cache)[k + 1].vid = cache.slots[k]["ids"]
               /\ Replay(cache)[k + 1].vec = cache.slots[k]["data"]
               /\ cache.slots[k]["crc"] = cache.slots[k]["data"]
    <3>1. /\ Replay(cache)[k + 1] = [vid |-> cache.slots[k]["ids"], vec |-> cache.slots[k]["data"]]
          /\ cache.slots[k]["crc"] = cache.slots[k]["data"]
      BY <2>1, <2>5, ReplayGives
    <3> QED BY <3>1
  <2> HIDE DEF n
  <2> QED BY <2>2, <2>3, <2>4, <2>5
<1> HIDE DEF n
<1>4. synced' \in Nat /\ synced' <= synced /\ synced' <= n
  BY <1>1, <1>2, <1>3 DEF Number
<1>5. TypeOK'
  <2>1. leftover' \in BOOLEAN
    BY <1>1 DEF TypeOK
  <2>2. checkpoint_lsn' \in 0..MaxSlots
    <3>1. cache.hdr.ckpt \in Nat
      BY <1>2, FileParts DEF Number, Header
    <3> QED BY <1>1, <1>2, <3>1 DEF InvHeader, Number
  <2>3. next_lsn' \in 0..MaxSlots /\ synced' \in 0..Len(known')
    BY <1>1, <1>2, <1>3, <1>4 DEF Number
  <2> QED BY <1>1, <1>3, <2>1, <2>2, <2>3 DEF TypeOK, Pairs
<1>6. ASSUME NEW k \in Slots, k < n
      PROVE  /\ k < Len(known')
             /\ cache'.slots[k]["ids"] = known'[k + 1].vid
             /\ cache'.slots[k]["crc"] = known'[k + 1].vec
             /\ cache'.slots[k]["data"] = known'[k + 1].vec
  BY <1>1, <1>3, <1>6
<1>7. InvKnown'
  <2>1. Holds(cache, Len(known))'
    BY <1>3, <1>6 DEF Holds
  <2> QED BY <1>1, <1>3, <2>1 DEF InvKnown, Up, Appending
<1>8. InvSynced'
  <2>1. ASSUME NEW k \in Slots, k < synced'
        PROVE  /\ k < synced /\ k < n
               /\ cache.slots[k]["ids"] = disk.slots[k]["ids"]
               /\ cache.slots[k]["crc"] = disk.slots[k]["crc"]
               /\ cache.slots[k]["data"] = disk.slots[k]["data"]
    <3>1. k < synced /\ k < n
      <4>1. k \in Nat /\ synced \in Nat /\ n \in Nat
        BY <1>2, <1>3 DEF Number
      <4> QED BY <1>4, <2>1, <4>1
    <3> QED BY <3>1 DEF InvSynced, Holds
  <2>2. ASSUME NEW k \in Slots, k < synced'
        PROVE  /\ k < Len(known')
               /\ cache'.slots[k]["ids"] = known'[k + 1].vid /\ disk'.slots[k]["ids"] = known'[k + 1].vid
               /\ cache'.slots[k]["crc"] = known'[k + 1].vec /\ disk'.slots[k]["crc"] = known'[k + 1].vec
               /\ cache'.slots[k]["data"] = known'[k + 1].vec /\ disk'.slots[k]["data"] = known'[k + 1].vec
    <3>1. k < n /\ UNCHANGED <<cache, disk>>
      BY <1>1, <2>1, <2>2
    <3> QED BY <1>6, <2>1, <2>2, <3>1
  <2>4. Holds(cache, synced)' /\ Holds(disk, synced)'
    BY <2>2 DEF Holds
  <2>3. cutting' # "no" => synced' = 0
    BY <1>1, <1>3, <1>4 DEF InvSynced
  <2> QED BY <2>3, <2>4 DEF InvSynced
<1>9. InvHeader'
  BY <1>1 DEF InvHeader, HeaderOk, Up, MidHeader
<1>10. InvHeld'
  BY <1>1 DEF InvHeld
<1>11. InvOrder'
  <2>1. Lagging => Lagging'
    BY <1>1 DEF Lagging
  <2>2. ASSUME ~leftover' PROVE Within'
    <3>1. ASSUME NEW k \in Slots, NEW q \in Parts PROVE cache.slots[k][q] \in {Zero, Wanted(k, q)'}
      <4>1. CASE k < n
        BY <1>1, <1>3, <4>1 DEF Wanted, Parts
      <4>2. CASE ~(k < n)
        <5>1. k >= n
          <6>1. k \in Nat /\ n \in Nat
            BY <1>2, <1>3 DEF Number
          <6> QED BY <4>2, <6>1
        <5>2. ~ \E j \in Slots : j >= n /\ cache.slots[j] # Blank
          BY <1>1, <2>2
        <5>3. cache.slots[k] = Blank
          BY <5>1, <5>2
        <5> QED BY <5>3 DEF Blank, Parts
      <4> QED BY <4>1, <4>2
    <3> QED BY <1>1, <3>1 DEF Within
  <2> QED BY <1>1, <2>1, <2>2 DEF InvOrder
<1> QED BY <1>5, <1>7, <1>8, <1>9, <1>10, <1>11

LEMMA RefusedStep == ASSUME IInv, OpenRefused PROVE IInv'
<1> USE DEF IInv
<1>1. /\ pc = "down" /\ pc' = "refused" /\ ~HeaderOk(cache)
      /\ UNCHANGED <<cache, disk, cutting, next_lsn, checkpoint_lsn, appends, arg, known, synced, held,
                     leftover, torn, budget>>
  BY DEF OpenRefused, members, history
<1>2. TypeOK' /\ InvKnown' /\ InvSynced'
  BY <1>1 DEF TypeOK, InvKnown, InvSynced, Holds, Up, Appending
<1>3. InvHeader' /\ InvHeld'
  BY <1>1 DEF InvHeader, HeaderOk, InvHeld, Up, MidHeader
<1>4. InvOrder'
  BY <1>1 DEF InvOrder, Within, Wanted, Lagging, Restored, Up
<1> QED BY <1>2, <1>3, <1>4

-----------------------------------------------------------------------------
(* The invariant                                                            *)

LEMMA IInvInit == Init => IInv
<1> SUFFICES ASSUME Init PROVE IInv
  OBVIOUS
<1>1. /\ cache = [hdr |-> [ckpt |-> 0, crc |-> 0], slots |-> NoSlots] /\ disk = cache
      /\ cutting = "no" /\ pc = "idle" /\ next_lsn = 0 /\ checkpoint_lsn = 0 /\ appends = 0
      /\ arg \in Entries /\ known = <<>> /\ synced = 0 /\ held = [k \in Slots |-> {}]
      /\ leftover = FALSE /\ torn = FALSE
      /\ budget = [appends |-> 0, ends |-> 0, truncates |-> 0]
  BY DEF Init
<1>2. cache.hdr = [ckpt |-> 0, crc |-> 0] /\ cache.slots = NoSlots
  BY <1>1
<1>3. cache \in File
  <2>1. [ckpt |-> 0, crc |-> 0] \in Header
    BY DEF Header
  <2>2. \A h \in Header, t \in [Slots -> Contents] : [hdr |-> h, slots |-> t] \in File
    BY FileParts
  <2>3. NoSlots \in [Slots -> Contents]
    BY NoSlotsZero
  <2> QED BY <1>1, <2>1, <2>2, <2>3, Zenon
<1>4. TypeOK
  <2>1. known \in Seq([vid : Entries, vec : Entries]) /\ Len(known) = 0
    BY <1>1
  <2>2. leftover \in BOOLEAN /\ torn \in BOOLEAN /\ cutting \in {"no", "truncate", "orphan"}
    BY <1>1, Zenon
  <2>3. held \in [Slots -> SUBSET Entries]
    BY <1>1
  <2>4. budget \in [appends : 0..MaxAppends, ends : 0..MaxEnds, truncates : 0..MaxTruncates]
    BY <1>1, PowerAssumption
  <2>5. /\ next_lsn \in 0..MaxSlots /\ checkpoint_lsn \in 0..MaxSlots /\ appends \in 0..CheckpointEvery
        /\ synced \in 0..Len(known)
    BY <1>1, <2>1, PowerAssumption
  <2> QED BY <1>1, <1>3, <2>1, <2>2, <2>3, <2>4, <2>5 DEF TypeOK
<1>5. Number /\ Len(known) = 0
  BY <1>1, <1>4, Numbers
<1>6. InvKnown /\ InvSynced
  BY <1>1, <1>5 DEF InvKnown, InvSynced, Holds, Up, Appending, Number
<1>7. InvHeader
  BY <1>1, <1>2, <1>5 DEF InvHeader, HeaderOk, Up, MidHeader, Number
<1>8. InvHeld
  BY <1>1, <1>2, NoSlotsZero DEF InvHeld
<1>9. InvOrder
  BY <1>1, <1>2, NoSlotsZero DEF InvOrder, Within, Lagging
<1> QED BY <1>4, <1>6, <1>7, <1>8, <1>9 DEF IInv

LEMMA IInvNext == IInv /\ [Next]_vars => IInv'
<1> SUFFICES ASSUME IInv, [Next]_vars PROVE IInv'
  OBVIOUS
<1>1. CASE \E p \in Pages : WriteBack(p)
  BY <1>1, WriteBackStep
<1>2. CASE CommitCut
  BY <1>2, CommitCutStep
<1>3. CASE \E e \in Entries : AppendEntry(e)
  BY <1>3, AppendEntryStep
<1>4. CASE StoreEntry
  BY <1>4, StoreEntryStep
<1>5. CASE CountAppend
  BY <1>5, CountAppendStep
<1>6. CASE CkptStoreLsn \/ CkptStoreCrc \/ TruncStoreLsn \/ TruncStoreCrc
  BY <1>6, HeaderStep DEF HeaderSteps
<1>7. CASE CkptReturns \/ Exited
  BY <1>7, SyncedStep
<1>8. CASE Truncate \/ TruncateReturns \/ Exit
  BY <1>8, PlainStep
<1>9. CASE CutFile
  BY <1>9, CutFileStep
<1>10. CASE Crash
  BY <1>10, CrashStep
<1>11. CASE LosePower
  BY <1>11, LosePowerStep
<1>12. CASE Open
  BY <1>12, OpenStep
<1>13. CASE OpenRefused
  BY <1>13, RefusedStep
<1>14. CASE UNCHANGED vars
  <2> USE <1>14 DEF IInv, vars, members, history
  <2>1. TypeOK' /\ InvKnown' /\ InvSynced'
    BY DEF TypeOK, InvKnown, InvSynced, Holds, Up, Appending
  <2>2. InvHeader' /\ InvHeld'
    BY DEF InvHeader, HeaderOk, InvHeld, Up, MidHeader
  <2>3. InvOrder'
    BY DEF InvOrder, Within, Wanted, Lagging, Restored, Up
  <2> QED BY <2>1, <2>2, <2>3
<1> QED
  BY <1>1, <1>2, <1>3, <1>4, <1>5, <1>6, <1>7, <1>8, <1>9, <1>10, <1>11, <1>12, <1>13, <1>14 DEF Next

\* The inductive invariant: what the process knows is in the cache, what an msync has
\* covered is on the disk as well, and the disk otherwise lags behind the cache, through
\* every order in which the kernel may write the pages of append, checkpoint and truncate.
THEOREM PowerInductive == Spec => []IInv
<1> QED BY IInvInit, IInvNext, PTL DEF Spec

\* Members, file and history stay in their types.
THEOREM PowerTypeCorrect == Spec => []TypeOK
<1>1. IInv => TypeOK
  BY DEF IInv
<1> QED BY <1>1, PowerInductive, PTL

-----------------------------------------------------------------------------
(* The properties                                                           *)

LEMMA SyncedIsReplayed == IInv => SyncedSurvives
<1> SUFFICES ASSUME IInv PROVE SyncedSurvives
  OBVIOUS
<1> DEFINE n == ScanLength(disk)
           r == Replay(disk)
<1>1. Number /\ Holds(disk, synced) /\ Len(known) <= MaxSlots
  BY Numbers DEF IInv, InvSynced, InvKnown
<1>2. n \in Nat /\ n <= MaxSlots /\ (n < MaxSlots => ~Valid(disk, n))
  BY <1>1, ScanStops DEF Number
<1>3. Len(r) = n /\ \A k \in Slots : k < n =>
         r[k + 1] = [vid |-> disk.slots[k]["ids"], vec |-> disk.slots[k]["data"]]
  BY <1>1, ReplayGives DEF Number
<1> HIDE DEF n, r
<1>4. ASSUME NEW k \in Slots, k < synced
      PROVE  /\ Valid(disk, k) /\ known[k + 1] \in Pairs
             /\ disk.slots[k]["ids"] = known[k + 1].vid /\ disk.slots[k]["data"] = known[k + 1].vec
  <2>1. /\ disk.slots[k]["ids"] = known[k + 1].vid /\ disk.slots[k]["data"] = known[k + 1].vec
        /\ disk.slots[k]["crc"] = known[k + 1].vec /\ k < Len(known)
    BY <1>1, <1>4 DEF Holds
  <2>2. k + 1 \in 1..Len(known) /\ known \in Seq(Pairs) /\ Zero \notin Entries
    BY <1>1, <2>1 DEF Number
  <2>3. known[k + 1] \in Pairs
    BY <2>2, ElementOfSeq
  <2>4. known[k + 1].vid \in Entries /\ known[k + 1].vec \in Entries
    BY <2>3 DEF Pairs
  <2> QED BY <2>1, <2>2, <2>3, <2>4 DEF Valid
<1>5. synced <= n
  <2>1. synced \in Nat /\ synced <= MaxSlots /\ MaxSlots \in Nat
    BY <1>1 DEF Number
  <2>2. n < synced => n < MaxSlots /\ n \in Slots
    BY <1>1, <1>2, <2>1 DEF Number
  <2>3. ~(n < synced)
    BY <1>2, <1>4, <2>2
  <2> QED BY <1>2, <2>1, <2>3
<1>6. ASSUME NEW k \in 1..synced PROVE k <= Len(r) /\ r[k] = known[k]
  <2>1. synced \in Nat /\ MaxSlots \in Nat
    BY <1>1 DEF Number
  <2>2. k - 1 \in Nat /\ k - 1 < synced /\ k - 1 < n /\ k - 1 < MaxSlots /\ (k - 1) + 1 = k /\ k <= n
    BY <1>2, <1>5, <2>1
  <2>3. k - 1 \in Slots
    BY <1>1, <2>2 DEF Number
  <2>4. r[k] = [vid |-> known[k].vid, vec |-> known[k].vec] /\ known[k] \in Pairs
    BY <1>3, <1>4, <2>2, <2>3
  <2> QED BY <1>3, <2>2, <2>4 DEF Pairs
<1> QED BY <1>6 DEF SyncedSurvives, r

\* What checkpoint and truncate promise of their msync, whenever the power is lost: the
\* entries they covered are in the disk's log at their place, the disk's header is one that
\* the constructor accepts, and a truncate that has returned is on the disk.
THEOREM PowerDurable == Spec => []Durable
<1>1. IInv => Durable
  BY SyncedIsReplayed DEF IInv, InvHeader, HeaderDurable, CutIsDurable, Durable
<1> QED BY <1>1, PowerInductive, PTL

LEMMA OrderGivesPrefix == IInv => DiskIsPrefix
<1> SUFFICES ASSUME IInv, ~leftover, cutting = "no"
             PROVE  LET r == Replay(disk)
                        all == Append(known, Pair(arg))
                    IN  Len(r) <= Len(all) /\ r = SubSeq(all, 1, Len(r))
  BY DEF DiskIsPrefix
<1> DEFINE r == Replay(disk)
           n == ScanLength(disk)
           all == Append(known, Pair(arg))
<1>1. Number /\ (Within \/ Restored) /\ Lagging
  BY Numbers DEF IInv, InvOrder
<1>2. n \in Nat /\ n <= MaxSlots
  BY <1>1, ScanStops DEF Number
<1>3. r \in Seq(Pairs) /\ Len(r) = n /\ \A k \in Slots : k < n =>
         /\ r[k + 1] = [vid |-> disk.slots[k]["ids"], vec |-> disk.slots[k]["data"]]
         /\ disk.slots[k]["ids"] \in Entries /\ disk.slots[k]["data"] \in Entries
  BY <1>1, ReplayGives DEF Number
<1>4. /\ Pair(arg) \in Pairs /\ all \in Seq(Pairs) /\ Len(all) = Len(known) + 1
      /\ all[Len(known) + 1] = Pair(arg) /\ \A k \in 1..Len(known) : all[k] = known[k]
  <2>1. Pair(arg) \in Pairs
    BY <1>1 DEF Number, Pair, Pairs
  <2> QED BY <1>1, <2>1, AppendProperties DEF Number
<1> HIDE DEF r, n, all
<1>5. SUFFICES n <= Len(all) /\ \A k \in 1..n : r[k] = all[k]
  <2>1. ASSUME n <= Len(all), \A k \in 1..n : r[k] = all[k]
        PROVE  r = SubSeq(all, 1, n)
    <3>1. SubSeq(all, 1, n) \in Seq(Pairs) /\ Len(SubSeq(all, 1, n)) = n
          /\ \A k \in 1..n : SubSeq(all, 1, n)[k] = all[k]
      BY <1>1, <1>2, <1>4, <2>1 DEF Number
    <3> QED BY <1>2, <1>3, <2>1, <3>1, SeqEqual
  <2> QED BY <1>3, <2>1 DEF r, all
<1>6. CASE Restored
  <2>1. r = known
    BY <1>6 DEF Restored, r
  <2> QED BY <1>1, <1>2, <1>3, <1>4, <2>1 DEF Number
<1>7. CASE Within
  <2>1. ASSUME NEW k \in Slots, k < n
        PROVE  disk.slots[k]["ids"] = Wanted(k, "ids") /\ disk.slots[k]["data"] = Wanted(k, "data")
               /\ Wanted(k, "ids") # Zero
    <3>1. \A q \in Parts : disk.slots[k][q] \in {Zero, Wanted(k, q)}
      BY <1>1, <1>7 DEF Lagging, Within
    <3>2. disk.slots[k]["ids"] # Zero /\ disk.slots[k]["data"] # Zero
      BY <1>1, <1>3, <2>1 DEF Number
    <3> QED BY <3>1, <3>2 DEF Parts
  <2>2. n <= Len(known) + 1
    <3>1. Len(known) \in Nat /\ MaxSlots \in Nat
      BY <1>1 DEF Number
    <3> DEFINE k == Len(known) + 1
    <3>2. k < n => k \in Slots
      BY <1>1, <1>2, <3>1 DEF Number
    <3>3. Wanted(k, "ids") = Zero
      BY <3>1 DEF Wanted
    <3>4. ~(k < n)
      BY <2>1, <3>2, <3>3
    <3> QED BY <1>2, <3>1, <3>4
  <2>3. ASSUME NEW k \in 1..n PROVE r[k] = all[k]
    <3>1. k \in Nat /\ k - 1 \in Nat /\ k - 1 < n /\ (k - 1) + 1 = k /\ k <= Len(known) + 1
          /\ k - 1 < MaxSlots /\ Len(known) \in Nat
      BY <1>1, <1>2, <2>2 DEF Number
    <3>2. k - 1 \in Slots
      BY <1>1, <3>1 DEF Number
    <3>3. r[k] = [vid |-> Wanted(k - 1, "ids"), vec |-> Wanted(k - 1, "data")] /\ Wanted(k - 1, "ids") # Zero
          /\ Wanted(k - 1, "data") # Zero
      BY <1>1, <1>3, <2>1, <3>1, <3>2 DEF Number
    <3>4. CASE k <= Len(known)
      <4>1. known[k] \in Pairs /\ all[k] = known[k]
        BY <1>1, <1>4, <3>1, <3>4, ElementOfSeq DEF Number
      <4>2. Wanted(k - 1, "ids") = known[k].vid /\ Wanted(k - 1, "data") = known[k].vec
        BY <3>1, <3>4 DEF Wanted
      <4> QED BY <3>3, <4>1, <4>2 DEF Pairs
    <3>5. CASE k = Len(known) + 1
      <4>1. Wanted(k - 1, "ids") = arg /\ Wanted(k - 1, "data") = arg
        BY <3>1, <3>3, <3>5 DEF Wanted
      <4> QED BY <1>4, <3>3, <3>5, <4>1 DEF Pair
    <3> QED BY <3>1, <3>4, <3>5
  <2> QED BY <1>1, <1>4, <2>2, <2>3
<1> QED BY <1>1, <1>6, <1>7

\* Whenever the power is lost, the disk gives back a beginning of what was appended since
\* the latest truncation, the running append included, in the order of the appends; unless
\* a start has left slots behind the end of its scan.
THEOREM PowerDiskIsPrefix == Spec => []DiskIsPrefix
<1> QED BY OrderGivesPrefix, PowerInductive, PTL

LEMMA HeldIsReplayed == IInv => SlotsHoldAppended
<1> SUFFICES ASSUME IInv, cutting = "no", NEW k \in 1..ScanLength(disk)
             PROVE  Replay(disk)[k].vec \in held[k - 1] /\ Replay(disk)[k].vid \in held[k - 1]
  BY DEF SlotsHoldAppended
<1>1. Number
  BY Numbers DEF IInv
<1>2. k - 1 \in Nat /\ k - 1 < ScanLength(disk) /\ (k - 1) + 1 = k /\ k - 1 < MaxSlots
  BY <1>1, ScanStops DEF Number
<1>3. k - 1 \in Slots /\ disk \in File
  BY <1>1, <1>2 DEF Number
<1>4. /\ Replay(disk)[k] = [vid |-> disk.slots[k - 1]["ids"], vec |-> disk.slots[k - 1]["data"]]
      /\ disk.slots[k - 1]["ids"] \in Entries /\ disk.slots[k - 1]["data"] \in Entries
  BY <1>2, <1>3, ReplayGives
<1>5. \A part \in Parts : disk.slots[k - 1][part] \in held[k - 1] \cup {Zero}
  BY <1>3 DEF IInv, InvHeld
<1> QED BY <1>1, <1>4, <1>5 DEF Number, Parts

\* Even after that, what a slot gives back was appended there since the latest truncation:
\* the checksum lets no mixture of two payloads through.
THEOREM PowerSlotsHoldAppended == Spec => []SlotsHoldAppended
<1> QED BY HeldIsReplayed, PowerInductive, PTL
=============================================================================
