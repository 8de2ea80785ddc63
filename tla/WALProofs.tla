----------------------------- MODULE WALProofs -----------------------------
(***************************************************************************)
(* Theorems about WAL, for all values of its constants: any number of      *)
(* slots, any set of vectors, any checkpoint interval, truncates that keep *)
(* any number of entries.                                                  *)
(*                                                                         *)
(* The properties are not inductive: whether the next crash loses an entry *)
(* depends on how far the running call has come.  IInv says, for each      *)
(* store the process is about to make, what the slots hold, and for a dead *)
(* process which of those it may have left behind.                         *)
(***************************************************************************)
EXTENDS WAL, SequenceTheorems, WellFoundedInduction, TLAPS

Clean == "entries" \notin damage
N     == Len(known)

\* Slot n is entry e, complete, with the LSN field l.
Holds(n, e, l) == slots[n] = [lsn |-> l, vid |-> e.vid, dim |-> Dim,
                              crc |-> e.vec, data |-> e.vec]

\* The checksum matches the payload: the last thing an append brings about.
Sealed(s) == s.crc = s.data

\* The members of class WAL agree with the history, step by step.
InvMemory ==
    /\ N <= MaxSlots /\ N <= cap
    /\ pc \in {"down", "refused", "size"} =>
          next_lsn = 0 /\ checkpoint_lsn = 0 /\ keep = 0 /\ i = 0
    /\ pc \notin {"down", "refused"} \cup CkptSteps => next_lsn = N
    /\ pc \in CkptSteps => /\ op \in {"append", "checkpoint"}
                           /\ next_lsn = (IF op = "append" THEN N + 1 ELSE N)
                           /\ checkpoint_lsn = next_lsn /\ next_lsn <= cap
    /\ pc \in HeaderSteps \cup {"trunc_grow"} => checkpoint_lsn = 0
    /\ pc \in AppendSteps => op = "append" /\ next_lsn < MaxSlots /\ next_lsn < cap

\* The file: nothing behind its end, nothing in it before it has a size.
InvFile ==
    /\ \A n \in Slots : n >= cap => slots[n] = Blank
    /\ file # "sized" => known = <<>> /\ cap = 0 /\ hdr = BlankHeader
    /\ pc = "size" => file = "empty"
    /\ pc \notin {"down", "refused", "size"} => file = "sized"

\* The known entries are in their slots; at most the one slot behind them is
\* in use, and it is either unfinished or the latest append, complete.
InvKnown == Intact => \A n \in Slots : n < N => Holds(n, known[n + 1], n)
InvFree  == Clean => \A n \in Slots : n > N => slots[n] = Blank
InvLatest == Clean /\ N < MaxSlots => ~Sealed(slots[N]) \/ Holds(N, arg, N)

\* The slot behind the known entries, from the call of append to its return.
InvAppend ==
    Clean /\ N < MaxSlots =>
        /\ pc \in {"idle", "app_lsn", "app_vid", "app_dim", "app_crc"}
               \cup HeaderSteps \cup TruncateSteps => ~Sealed(slots[N])
        /\ pc \in CkptSteps /\ op = "checkpoint" => ~Sealed(slots[N])
        /\ pc \in AppendSteps \ {"app_lsn"} => slots[N].lsn = N
        /\ pc \in AppendSteps \ {"app_lsn", "app_vid"} => slots[N].vid = arg.vid
        /\ pc \in {"app_crc", "app_data", "app_done"} => slots[N].dim = Dim
        /\ pc \in {"app_data", "app_done"} => slots[N].crc = arg.vec
        /\ pc = "app_done" => slots[N].data = arg.vec
        /\ pc \in CkptSteps /\ op = "append" => Holds(N, arg, N)

\* The kept entries on their way to the front of the file.
InvTruncate ==
    pc \in {"trunc_move", "trunc_lsn", "trunc_cut"} =>
        /\ op = "truncate"
        /\ keep <= next_lsn /\ (keep = 0 => next_lsn = 0)
        /\ i <= next_lsn - keep /\ next_lsn - keep <= MaxKept
        /\ Clean => \A n \in Slots :
              /\ pc = "trunc_move" => 
                    /\ n < i => Holds(n, known[keep + n + 1], keep + n)
                    /\ i <= n /\ n < N => Holds(n, known[n + 1], n)
              /\ pc = "trunc_lsn" /\ n < N - keep =>
                    Holds(n, known[keep + n + 1], IF n < i THEN n ELSE keep + n)
              /\ pc = "trunc_cut" /\ n < N - keep => Holds(n, known[keep + n + 1], n)

\* The header, store by store.
InvHeader ==
    /\ pc \in {"idle", "trunc_move", "trunc_lsn", "trunc_cut"} \cup AppendSteps =>
          HeaderOk(hdr) /\ hdr.ckpt = checkpoint_lsn
    /\ pc = "trunc_grow" => op = "truncate"
    /\ pc = "hdr_zero" /\ op # "truncate" => hdr = BlankHeader
    /\ pc = "hdr_magic" => hdr = BlankHeader
    /\ pc = "hdr_ckpt" => hdr = [BlankHeader EXCEPT !.magic = TRUE]
    /\ pc \in {"hdr_dim", "hdr_crc", "ckpt_lsn", "ckpt_crc"} => hdr.magic
    /\ pc \in {"hdr_dim", "hdr_crc", "ckpt_crc"} => hdr.ckpt = checkpoint_lsn
    /\ pc \in {"hdr_dim", "hdr_crc"} => hdr.crc = <<>>

\* A header that read_header accepts names a checkpoint inside the log; for a
\* dead process the log may end with the append it had under way.
Covers(c) == c <= N \/ (c = N + 1 /\ N < MaxSlots /\ Holds(N, arg, N))

InvCheckpoint ==
    damage = {} =>
        /\ pc \notin {"trunc_grow", "hdr_zero"} /\ HeaderOk(hdr) => Covers(hdr.ckpt)
        /\ pc \in {"idle", "trunc_move", "trunc_lsn", "trunc_cut"} \cup AppendSteps =>
              checkpoint_lsn <= N

IInv ==
    /\ TypeOK /\ InvMemory /\ InvFile /\ InvKnown /\ InvFree /\ InvLatest
    /\ InvAppend /\ InvTruncate /\ InvHeader /\ InvCheckpoint

-----------------------------------------------------------------------------
(* Typing                                                                   *)

\* What the constructor counts is a sequence of entries.
LEMMA DeliveredType ==
    ASSUME TypeOK, NEW n \in 0..MaxSlots, ScanStopsAt(n)
    PROVE  Delivered(n) \in Seq(Entry) /\ Len(Delivered(n)) = n
<1>1. ASSUME NEW k \in 1..n
      PROVE  [vid |-> slots[k-1].vid, vec |-> slots[k-1].data] \in Entry
  <2>1. k - 1 \in 0..(n - 1) /\ k - 1 \in Slots
    BY WALAssumption DEF Slots
  <2>2. slots[k-1] \in Slot /\ Valid(slots[k-1], k-1)
    BY <2>1 DEF TypeOK, ScanStopsAt
  <2>3. slots[k-1].data \in Vecs
    BY <2>2, WALAssumption DEF Valid, Slot, Payload
  <2> QED BY <2>2, <2>3 DEF Entry, Slot
<1> QED BY <1>1 DEF Delivered

-----------------------------------------------------------------------------
(* append                                                                   *)

\* The call of append finds an unsealed slot behind the known entries.
LEMMA AppendEntryStep == ASSUME IInv, NEW e \in Entry, AppendEntry(e) PROVE IInv'
<1> USE WALAssumption DEF IInv, AppendEntry, Clean, N
<1>1. TypeOK'
  <2>1. cap' \in Nat
    BY DEF TypeOK
  <2> QED BY <2>1 DEF TypeOK, Steps, Ops, AppendSteps
<1>2. next_lsn = N /\ next_lsn' = N' /\ next_lsn < cap' /\ cap <= cap'
  BY DEF InvMemory, TypeOK, CkptSteps, ghostVars
<1>3. InvMemory'
  BY <1>2 DEF InvMemory, TypeOK, CkptSteps, HeaderSteps, AppendSteps
<1>4. InvFile'
  BY <1>2 DEF InvFile, TypeOK, Slots
<1>5. InvKnown' /\ InvFree'
  BY DEF InvKnown, InvFree, Intact, InTransit, Holds
<1>6. InvLatest' /\ InvAppend'
  BY DEF InvLatest, InvAppend, AppendSteps, CkptSteps, HeaderSteps, TruncateSteps
<1>7. InvTruncate' /\ InvHeader'
  BY DEF InvTruncate, InvHeader, HeaderSteps, AppendSteps, CkptSteps, TruncateSteps
<1>8. InvCheckpoint'
  <2>1. damage = {} => checkpoint_lsn <= N /\ hdr.ckpt = checkpoint_lsn
    BY DEF InvCheckpoint, InvHeader
  <2> QED BY <2>1 DEF InvCheckpoint, Covers, AppendSteps
<1> QED BY <1>1, <1>3, <1>4, <1>5, <1>6, <1>7, <1>8

\* A store into the slot behind the known entries disturbs nothing else.
LEMMA SlotStoreStep ==
    ASSUME IInv, NEW from \in AppendSteps, NEW to \in AppendSteps, NEW s \in Slot,
           SlotStore(from, to, s)
    PROVE  /\ TypeOK' /\ InvMemory' /\ InvFile' /\ InvKnown' /\ InvFree'
           /\ InvTruncate' /\ InvHeader' /\ InvCheckpoint'
           /\ next_lsn = N /\ N \in Slots /\ N < MaxSlots
           /\ slots[N] \in Slot /\ slots'[N] = s
<1> USE WALAssumption DEF IInv, SlotStore, Clean, N, ghostVars
<1>1. next_lsn = N /\ N \in Slots /\ N < cap /\ slots \in [Slots -> Slot]
  BY DEF InvMemory, TypeOK, Slots, AppendSteps, CkptSteps
<1>2. slots'[N] = s /\ \A n \in Slots : n # N => slots'[n] = slots[n]
  BY <1>1
<1>3. TypeOK'
  BY <1>1 DEF TypeOK, Steps
<1>4. InvMemory'
  BY DEF InvMemory, AppendSteps, CkptSteps, HeaderSteps
<1>5. InvFile'
  <2>1. \A n \in Slots : n >= cap => n # N
    BY <1>1 DEF Slots, TypeOK
  <2> QED BY <1>2, <2>1 DEF InvFile, AppendSteps
<1>6. InvKnown'
  <2>1. Intact <=> Clean
    BY DEF Intact, InTransit, AppendSteps
  <2>2. Intact' <=> Clean
    BY DEF Intact, InTransit, AppendSteps
  <2>3. \A n \in Slots : n < N => n # N
    BY <1>1 DEF Slots
  <2> QED BY <1>2, <2>1, <2>2, <2>3 DEF InvKnown, Holds
<1>7. InvFree'
  BY <1>1, <1>2 DEF InvFree, Slots
<1>8. InvTruncate' /\ InvHeader'
  BY DEF InvTruncate, InvHeader, AppendSteps
<1>9. InvCheckpoint'
  <2>1. damage = {} => checkpoint_lsn <= N /\ hdr.ckpt = checkpoint_lsn
    BY DEF InvCheckpoint, InvHeader
  <2> QED BY <2>1 DEF InvCheckpoint, Covers, AppendSteps
<1> QED
  BY <1>1, <1>2, <1>3, <1>4, <1>5, <1>6, <1>7, <1>8, <1>9 DEF Slots

\* The slot is sealed by the CRC or the payload, and by then the fields before
\* them hold the new entry.
LEMMA StoreEntryStep == ASSUME IInv, StoreEntry PROVE IInv'
<1> USE WALAssumption
<1> DEFINE Untouched == /\ TypeOK' /\ InvMemory' /\ InvFile' /\ InvKnown' /\ InvFree'
                        /\ InvTruncate' /\ InvHeader' /\ InvCheckpoint'
           t == slots[N]
<1>1. pc \in AppendSteps /\ next_lsn \in Slots /\ next_lsn = N
  <2>1. pc \in {"app_lsn", "app_vid", "app_dim", "app_crc", "app_data"}
    BY DEF StoreEntry, StoreLsn, StoreVid, StoreSDim, StoreSCrc, TearData, StoreData, SlotStore
  <2> QED BY <2>1 DEF AppendSteps, IInv, InvMemory, TypeOK, Slots, CkptSteps
<1>2. t \in Slot /\ N \in Slots /\ N \in Nat /\ N < MaxSlots /\ arg \in Entry
  BY <1>1 DEF IInv, TypeOK, Slots
<1>3. InvLatest /\ InvAppend
  BY DEF IInv
<1>4. CASE StoreLsn
  <2> DEFINE s == [t EXCEPT !.lsn = N]
  <2>1. s \in Slot /\ SlotStore("app_lsn", "app_vid", s)
    BY <1>1, <1>2, <1>4 DEF Slot, StoreLsn
  <2>2. Untouched /\ slots'[N] = s
    BY <2>1, SlotStoreStep DEF AppendSteps
  <2>3. InvLatest' /\ InvAppend'
    BY <2>1, <2>2, <1>2, <1>3 DEF InvLatest, InvAppend, Sealed, Holds, Slot, SlotStore, N, Clean,
       ghostVars, AppendSteps, HeaderSteps, TruncateSteps, CkptSteps
  <2> QED BY <2>2, <2>3 DEF IInv
<1>5. CASE StoreVid
  <2> DEFINE s == [t EXCEPT !.vid = arg.vid]
  <2>1. s \in Slot /\ SlotStore("app_vid", "app_dim", s)
    BY <1>1, <1>2, <1>5 DEF Slot, Payload, Entry, StoreVid
  <2>2. Untouched /\ slots'[N] = s
    BY <2>1, SlotStoreStep DEF AppendSteps
  <2>3. InvLatest' /\ InvAppend'
    BY <2>1, <2>2, <1>2, <1>3 DEF InvLatest, InvAppend, Sealed, Holds, Slot, SlotStore, N, Clean,
       ghostVars, AppendSteps, HeaderSteps, TruncateSteps, CkptSteps
  <2> QED BY <2>2, <2>3 DEF IInv
<1>6. CASE StoreSDim
  <2> DEFINE s == [t EXCEPT !.dim = Dim]
  <2>1. s \in Slot /\ SlotStore("app_dim", "app_crc", s)
    BY <1>1, <1>2, <1>6 DEF Slot, Payload, Entry, StoreSDim
  <2>2. Untouched /\ slots'[N] = s
    BY <2>1, SlotStoreStep DEF AppendSteps
  <2>3. InvLatest' /\ InvAppend'
    BY <2>1, <2>2, <1>2, <1>3 DEF InvLatest, InvAppend, Sealed, Holds, Slot, SlotStore, N, Clean,
       ghostVars, AppendSteps, HeaderSteps, TruncateSteps, CkptSteps
  <2> QED BY <2>2, <2>3 DEF IInv
<1>7. CASE StoreSCrc
  <2> DEFINE s == [t EXCEPT !.crc = arg.vec]
  <2>1. s \in Slot /\ SlotStore("app_crc", "app_data", s)
    BY <1>1, <1>2, <1>7 DEF Slot, Payload, Entry, StoreSCrc
  <2>2. Untouched /\ slots'[N] = s
    BY <2>1, SlotStoreStep DEF AppendSteps
  <2>3. InvLatest' /\ InvAppend'
    BY <2>1, <2>2, <1>2, <1>3 DEF InvLatest, InvAppend, Sealed, Holds, Slot, SlotStore, N, Clean,
       ghostVars, AppendSteps, HeaderSteps, TruncateSteps, CkptSteps
  <2> QED BY <2>2, <2>3 DEF IInv
<1>8. CASE StoreData
  <2> DEFINE s == [t EXCEPT !.data = arg.vec]
  <2>1. s \in Slot /\ SlotStore("app_data", "app_done", s)
    BY <1>1, <1>2, <1>8 DEF Slot, Payload, Entry, StoreData
  <2>2. Untouched /\ slots'[N] = s
    BY <2>1, SlotStoreStep DEF AppendSteps
  <2>3. InvLatest' /\ InvAppend'
    BY <2>1, <2>2, <1>2, <1>3 DEF InvLatest, InvAppend, Sealed, Holds, Slot, SlotStore, N, Clean,
       ghostVars, AppendSteps, HeaderSteps, TruncateSteps, CkptSteps
  <2> QED BY <2>2, <2>3 DEF IInv
<1>9. ASSUME NEW mix \in Payload, TearData(mix) PROVE IInv'
  <2> DEFINE s == [t EXCEPT !.data = mix]
  <2>1. s \in Slot /\ SlotStore("app_data", "app_data", s)
    BY <1>1, <1>2, <1>9 DEF Slot, TearData
  <2>2. Untouched /\ slots'[N] = s
    BY <2>1, SlotStoreStep DEF AppendSteps
  <2>3. InvLatest' /\ InvAppend'
    BY <2>1, <2>2, <1>2, <1>3, <1>9 DEF InvLatest, InvAppend, Sealed, Holds, Slot, SlotStore, N,
       Clean, TearData, ghostVars, AppendSteps, HeaderSteps, TruncateSteps, CkptSteps
  <2> QED BY <2>2, <2>3 DEF IInv
<1> QED
  BY <1>4, <1>5, <1>6, <1>7, <1>8, <1>9 DEF StoreEntry

\* The return of append: the new entry joins the known ones, at once or when
\* the automatic checkpoint is through.
LEMMA CountAppendStep == ASSUME IInv, CountAppend PROVE IInv'
<1> USE WALAssumption DEF IInv
<1>1. /\ pc = "app_done" /\ next_lsn = N /\ N \in Slots /\ N \in Nat /\ N < MaxSlots /\ N < cap
      /\ N + 1 \in 0..MaxSlots /\ op = "append"
  BY DEF CountAppend, InvMemory, TypeOK, Slots, AppendSteps, CkptSteps, N
<1>2. Clean => Holds(N, arg, N)
  BY <1>1 DEF InvAppend, TypeOK, Slot, Holds, AppendSteps
<1>3. known \in Seq(Entry) /\ arg \in Entry
  BY DEF TypeOK
<1>4. CASE CheckpointDue
  <2>1. /\ pc' = "ckpt_lsn" /\ next_lsn' = N + 1 /\ checkpoint_lsn' = N + 1 /\ appends' = 0
        /\ UNCHANGED <<file, cap, hdr, slots, op, keep, i, known, damage, arg>>
    BY <1>1, <1>4 DEF CountAppend, fileVars
  <2>2. TypeOK'
    BY <1>1, <2>1 DEF TypeOK, Steps, CkptSteps
  <2>3. InvMemory'
    BY <1>1, <2>1 DEF InvMemory, CkptSteps, HeaderSteps, AppendSteps, TypeOK, N
  <2>4. InvFile'
    BY <1>1, <2>1 DEF InvFile
  <2>5. InvKnown' /\ InvFree' /\ InvLatest'
    BY <1>1, <2>1 DEF InvKnown, InvFree, InvLatest, Intact, InTransit, Clean, N, Holds
  <2>6. InvAppend'
    BY <1>1, <1>2, <2>1 DEF InvAppend, AppendSteps, HeaderSteps, TruncateSteps, CkptSteps, Clean, N,
       Holds
  <2>7. InvTruncate' /\ InvHeader'
    BY <1>1, <2>1 DEF InvTruncate, InvHeader, AppendSteps, HeaderOk
  <2>8. InvCheckpoint'
    BY <1>1, <2>1 DEF InvCheckpoint, Covers, AppendSteps, N, Holds
  <2> QED BY <2>2, <2>3, <2>4, <2>5, <2>6, <2>7, <2>8
<1>5. CASE ~CheckpointDue
  <2>1. /\ pc' = "idle" /\ op' = "none" /\ next_lsn' = N + 1 /\ appends' = appends + 1
        /\ known' = known \o <<arg>>
        /\ UNCHANGED <<file, cap, hdr, slots, checkpoint_lsn, keep, i, damage, arg>>
    BY <1>1, <1>5 DEF CountAppend, fileVars
  <2>2. known' \in Seq(Entry) /\ N' = N + 1 /\ known'[N + 1] = arg
        /\ \A n \in 1..N : known'[n] = known[n]
    BY <1>3, <2>1 DEF N
  <2>3. TypeOK'
    BY <1>1, <2>1, <2>2 DEF TypeOK, Steps, Ops
  <2>4. InvMemory'
    BY <1>1, <2>1, <2>2 DEF InvMemory, CkptSteps, HeaderSteps, AppendSteps, TypeOK
  <2>5. InvFile'
    BY <1>1, <2>1 DEF InvFile
  <2>6. InvKnown'
    <3>1. (Intact <=> Clean) /\ (Intact' <=> Clean)
      BY <1>1, <2>1 DEF Intact, InTransit, Clean
    <3>2. ASSUME NEW n \in Slots, n < N + 1, Clean
          PROVE  Holds(n, known'[n + 1], n)
      <4>1. CASE n = N
        BY <4>1, <1>2, <2>2, <3>2 DEF Holds
      <4>2. CASE n < N
        BY <4>2, <1>1, <2>2, <3>1, <3>2 DEF InvKnown, Holds, Slots
      <4> QED BY <1>1, <3>2, <4>1, <4>2 DEF Slots
    <3>3. N' = N + 1
      BY <2>2
    <3> QED
      BY <2>1, <3>1, <3>2, <3>3 DEF InvKnown, Holds
  <2>7. InvFree'
    BY <1>1, <2>1, <2>2 DEF InvFree, Clean, Slots
  <2>8. InvLatest' /\ InvAppend'
    <3>1. Clean /\ N + 1 < MaxSlots => N + 1 \in Slots /\ slots[N + 1] = Blank
      BY <1>1 DEF InvFree, Slots
    <3>2. ~Sealed(Blank)
      BY DEF Sealed, Blank
    <3>3. Clean' /\ N' < MaxSlots => ~Sealed(slots'[N'])
      BY <1>1, <2>1, <2>2, <3>1, <3>2 DEF Clean, Sealed
    <3> QED
      BY <2>1, <3>3 DEF InvLatest, InvAppend, AppendSteps, CkptSteps, Sealed
  <2>9. InvTruncate' /\ InvHeader'
    BY <1>1, <2>1 DEF InvTruncate, InvHeader, AppendSteps, HeaderOk
  <2>10. InvCheckpoint'
    <3>1. damage = {} => checkpoint_lsn <= N /\ hdr.ckpt = checkpoint_lsn
      BY <1>1 DEF InvCheckpoint, InvHeader, AppendSteps
    <3> QED BY <1>1, <2>1, <2>2, <3>1 DEF InvCheckpoint, Covers, AppendSteps, TypeOK
  <2> QED BY <2>3, <2>4, <2>5, <2>6, <2>7, <2>8, <2>9, <2>10
<1> QED BY <1>4, <1>5

-----------------------------------------------------------------------------
(* checkpoint                                                               *)

LEMMA CheckpointStep == ASSUME IInv, Checkpoint PROVE IInv'
<1> USE DEF IInv, Checkpoint, fileVars, ghostVars, N, Clean, CkptSteps
<1>1. TypeOK' /\ InvMemory'
  BY DEF TypeOK, Steps, Ops, InvMemory, AppendSteps, HeaderSteps
<1>2. InvFile' /\ InvKnown' /\ InvFree' /\ InvLatest'
  BY DEF InvFile, InvKnown, InvFree, InvLatest, Intact, InTransit, Holds
<1>3. InvAppend' /\ InvTruncate' /\ InvHeader'
  BY DEF InvAppend, InvTruncate, InvHeader, HeaderOk, AppendSteps, HeaderSteps, TruncateSteps
<1>4. InvCheckpoint'
  BY DEF InvCheckpoint, InvHeader, Covers, Holds, AppendSteps
<1> QED BY <1>1, <1>2, <1>3, <1>4

\* From here the header is one that read_header rejects, unless the new
\* checkpoint is the old one.
LEMMA CkptStoreLsnStep == ASSUME IInv, CkptStoreLsn PROVE IInv'
<1> USE DEF IInv, CkptStoreLsn, N, Clean, CkptSteps
<1>1. TypeOK' /\ InvMemory'
  BY DEF TypeOK, Steps, Ops, InvMemory, AppendSteps, HeaderSteps
<1>2. InvFile' /\ InvKnown' /\ InvFree' /\ InvLatest'
  BY DEF InvFile, InvKnown, InvFree, InvLatest, Intact, InTransit, Holds
<1>3. InvAppend' /\ InvTruncate' /\ InvHeader'
  BY DEF InvAppend, InvTruncate, InvHeader, Holds, AppendSteps, HeaderSteps, TruncateSteps,
     TypeOK
<1>4. InvCheckpoint'
  <2>1. Clean /\ N < MaxSlots /\ op = "append" => Holds(N, arg, N)
    BY DEF InvAppend
  <2>2. hdr'.ckpt = checkpoint_lsn
    BY DEF TypeOK
  <2>3. next_lsn = checkpoint_lsn /\ next_lsn <= MaxSlots /\ N \in Nat /\ MaxSlots \in Nat
    BY WALAssumption DEF InvMemory, TypeOK
  <2>4. Clean => Covers(checkpoint_lsn)
    BY <2>1, <2>3 DEF InvMemory, Covers
  <2> QED
    BY <2>2, <2>4 DEF InvCheckpoint, Covers, Holds, AppendSteps
<1> QED BY <1>1, <1>2, <1>3, <1>4

\* The header is whole again; an append that checkpointed returns here.
LEMMA CkptStoreCrcStep == ASSUME IInv, CkptStoreCrc PROVE IInv'
<1> USE WALAssumption DEF IInv
<1>1. /\ pc = "ckpt_crc" /\ pc' = "idle" /\ op' = "none"
      /\ hdr' = [hdr EXCEPT !.crc = Covered(hdr)]
      /\ UNCHANGED <<file, cap, slots, next_lsn, checkpoint_lsn, appends, keep, i, arg, damage>>
  BY DEF CkptStoreCrc
<1>2. /\ hdr.magic /\ hdr.ckpt = checkpoint_lsn /\ hdr.dim \in {0, Dim}
      /\ next_lsn \in 0..MaxSlots /\ next_lsn <= cap /\ checkpoint_lsn = next_lsn
  BY <1>1 DEF InvHeader, InvMemory, TypeOK, CkptSteps
<1>3. HeaderOk(hdr') /\ hdr'.ckpt = checkpoint_lsn
  BY <1>1, <1>2 DEF TypeOK, HeaderOk, Covered
<1>4. /\ known' \in Seq(Entry) /\ N' = next_lsn
      /\ \A n \in 1..N : known'[n] = known[n]
      /\ op = "append" => N' = N + 1 /\ known'[N + 1] = arg
      /\ op # "append" => N' = N /\ known' = known
  BY <1>1 DEF CkptStoreCrc, TypeOK, InvMemory, CkptSteps, N
<1>5. N \in Nat
  BY DEF TypeOK, N
<1>6. op = "append" /\ Clean => N \in Slots /\ Holds(N, arg, N)
  BY <1>1, <1>2, <1>4, <1>5 DEF InvAppend, CkptSteps, Slots
<1>7. TypeOK'
  BY <1>1, <1>4 DEF TypeOK, Steps, Ops, Covered
<1>8. InvMemory' /\ InvFile'
  BY <1>1, <1>2, <1>4 DEF InvMemory, InvFile, CkptSteps, HeaderSteps, AppendSteps
<1>9. InvKnown'
  <2>1. (Intact <=> Clean) /\ (Intact' <=> Clean)
    BY <1>1 DEF Intact, InTransit, Clean
  <2>2. ASSUME NEW n \in Slots, n < N', Clean
        PROVE  Holds(n, known'[n + 1], n)
    <3>1. CASE n < N
      <4>1. n + 1 \in 1..N /\ known'[n + 1] = known[n + 1]
        BY <3>1, <1>4, <1>5 DEF Slots
      <4> QED BY <3>1, <4>1, <2>1, <2>2 DEF InvKnown, Holds
    <3>2. CASE n = N /\ op = "append"
      BY <3>2, <2>2, <1>4, <1>6 DEF Holds
    <3> QED BY <1>4, <1>5, <2>2, <3>1, <3>2 DEF Slots
  <2> QED BY <1>1, <2>1, <2>2 DEF InvKnown, Holds
<1>10. InvFree'
  BY <1>1, <1>4, <1>5 DEF InvFree, Clean, Slots
<1>11. Clean' /\ N' < MaxSlots => ~Sealed(slots'[N'])
  <2>1. CASE op = "append"
    <3>1. N' = N + 1 /\ slots' = slots /\ (Clean' <=> Clean)
      BY <2>1, <1>1, <1>4 DEF Clean
    <3>2. Clean /\ N + 1 < MaxSlots => slots[N + 1] = Blank
      BY <1>5 DEF InvFree, Slots
    <3>3. ~Sealed(Blank)
      BY DEF Sealed, Blank
    <3> QED BY <3>1, <3>2, <3>3
  <2>2. CASE op # "append"
    BY <2>2, <1>1, <1>4 DEF InvAppend, InvMemory, Clean, Sealed, CkptSteps
  <2> QED BY <2>1, <2>2
<1>12. InvLatest' /\ InvAppend'
  BY <1>1, <1>11 DEF InvLatest, InvAppend, AppendSteps, CkptSteps, Sealed
<1>13. InvTruncate' /\ InvHeader' /\ InvCheckpoint'
  BY <1>1, <1>2, <1>3, <1>4 DEF InvTruncate, InvHeader, InvCheckpoint, Covers, HeaderSteps,
     AppendSteps, CkptSteps
<1> QED BY <1>7, <1>8, <1>9, <1>10, <1>12, <1>13

-----------------------------------------------------------------------------
(* The constructor                                                          *)

LEMMA CreateStep == ASSUME IInv, CreateFile \/ SizeFile PROVE IInv'
<1> USE WALAssumption DEF IInv, CreateFile, SizeFile, ghostVars, N, Clean
<1>1. TypeOK'
  BY DEF TypeOK, Steps, Ops, OpenSteps, HeaderSteps
<1>0. InvMemory'
  <2>1. N = 0 /\ next_lsn = 0 /\ checkpoint_lsn = 0 /\ keep = 0 /\ i = 0
    BY DEF InvMemory, InvFile
  <2> QED BY <2>1 DEF InvMemory, TypeOK, AppendSteps, HeaderSteps, CkptSteps
<1>2. InvFile' /\ InvKnown' /\ InvFree' /\ InvLatest'
  <2>1. UNCHANGED <<slots, hdr, known, damage, arg>> /\ known = <<>>
    BY DEF InvFile
  <2>2. InvFile'
    BY <2>1 DEF InvFile, TypeOK, Slots
  <2>3. InvKnown'
    BY <2>1 DEF InvKnown, Slots
  <2>4. InvFree' /\ InvLatest'
    BY <2>1 DEF InvFree, InvLatest, Sealed, Holds
  <2> QED BY <2>2, <2>3, <2>4
<1>3. InvAppend'
  <2>1. MaxSlots > 0 => slots[0] = Blank /\ ~Sealed(Blank)
    BY DEF InvFile, TypeOK, Slots, Sealed, Blank
  <2>2. N = 0
    BY DEF InvFile
  <2> QED BY <2>1, <2>2 DEF InvAppend, AppendSteps, CkptSteps, Sealed
<1>4. InvTruncate' /\ InvHeader' /\ InvCheckpoint'
  BY DEF InvTruncate, InvHeader, InvFile, InvCheckpoint, AppendSteps, HeaderOk, BlankHeader
<1> QED BY <1>0, <1>1, <1>2, <1>3, <1>4

\* write_header never meets a checkpoint other than 0: it runs for a new file
\* and after the reset in truncate.
LEMMA WriteHeaderStep == ASSUME IInv, WriteHeader PROVE IInv'
<1> USE DEF IInv, WriteHeader, ZeroHeader, StoreMagic, StoreCkpt, StoreDim, StoreCrc,
            HeaderStore, N, Clean
<1>1. TypeOK'
  <2>1. CASE StoreCrc
    BY <2>1 DEF StoreCrc, HeaderStore, TypeOK, Ops, Covered
  <2>2. CASE ZeroHeader
    BY <2>2 DEF ZeroHeader, HeaderStore, TypeOK, Steps, HeaderSteps, BlankHeader
  <2>3. CASE StoreMagic \/ StoreCkpt
    BY <2>3 DEF StoreMagic, StoreCkpt, HeaderStore, TypeOK, Steps, HeaderSteps
  <2>4. CASE StoreDim
    BY <2>4 DEF StoreDim, HeaderStore, TypeOK, Steps, HeaderSteps
  <2> QED BY <2>1, <2>2, <2>3, <2>4
<1>2. InvMemory'
  BY DEF InvMemory, AppendSteps, HeaderSteps, CkptSteps
<1>3. InvFile' /\ InvKnown' /\ InvFree' /\ InvLatest'
  BY DEF InvFile, InvKnown, InvFree, InvLatest, Intact, InTransit, Holds
<1>4. InvAppend' /\ InvTruncate'
  BY DEF InvAppend, InvTruncate, AppendSteps, HeaderSteps, TruncateSteps, CkptSteps
<1>5. InvHeader'
  BY DEF InvHeader, InvMemory, HeaderOk, BlankHeader, Covered, HeaderSteps, AppendSteps, TypeOK
<1>6. InvCheckpoint'
  BY DEF InvCheckpoint, InvHeader, InvMemory, Covers, HeaderOk, BlankHeader, HeaderSteps,
     AppendSteps, TypeOK
<1> QED BY <1>1, <1>2, <1>3, <1>4, <1>5, <1>6

LEMMA OpenRefusedStep == ASSUME IInv, OpenRefused PROVE IInv'
<1> USE WALAssumption DEF IInv, OpenRefused, Larger, ghostVars, N, Clean
<1>1. TypeOK' /\ InvMemory'
  BY DEF TypeOK, InvMemory, InvFile, AppendSteps, HeaderSteps, CkptSteps
<1>2. InvFile' /\ InvKnown' /\ InvFree' /\ InvLatest'
  BY DEF InvFile, InvKnown, InvFree, InvLatest, Intact, InTransit, Holds, TypeOK, Slots
<1>3. InvAppend' /\ InvTruncate' /\ InvHeader' /\ InvCheckpoint'
  BY DEF InvAppend, InvTruncate, InvHeader, InvCheckpoint, AppendSteps, HeaderSteps,
     TruncateSteps, CkptSteps, Covers, Holds
<1> QED BY <1>1, <1>2, <1>3

\* A restart finds the known entries, and behind them the append that was under
\* way if its last store was made; it counts exactly those.
LEMMA OpenExistingStep == ASSUME IInv, OpenExisting PROVE IInv'
<1> USE WALAssumption DEF IInv
<1>1. PICK n \in 0..MaxSlots : ScanStopsAt(n) /\ next_lsn' = n /\ known' = Delivered(n)
  BY DEF OpenExisting
<1>2. /\ pc = "down" /\ file = "sized" /\ HeaderOk(hdr)
      /\ cap' = Larger(cap, InitialSlots) /\ checkpoint_lsn' = hdr.ckpt /\ pc' = "idle"
      /\ UNCHANGED <<file, hdr, slots, op, appends, keep, i, arg, damage>>
  BY DEF OpenExisting
<1>3. /\ known' \in Seq(Entry) /\ N' = n /\ n \in Nat /\ n <= cap /\ cap \in Nat
      /\ cap' \in Nat /\ cap <= cap' /\ hdr.ckpt \in Nat
  <2>1. known' \in Seq(Entry) /\ Len(known') = n
    BY <1>1, DeliveredType
  <2>2. cap \in Nat /\ hdr.ckpt \in Nat
    BY DEF TypeOK
  <2>3. n \in Nat /\ n <= cap
    BY <1>1 DEF ScanStopsAt
  <2>4. cap' \in Nat /\ cap <= cap'
    BY <1>2, <2>2 DEF Larger
  <2> QED BY <2>1, <2>2, <2>3, <2>4 DEF N
<1>4. \A k \in 1..n : known'[k] = [vid |-> slots[k-1].vid, vec |-> slots[k-1].data]
  BY <1>1 DEF Delivered
<1>5. TypeOK'
  BY <1>1, <1>2, <1>3 DEF TypeOK
<1>6. InvMemory' /\ InvFile'
  BY <1>1, <1>2, <1>3 DEF InvMemory, InvFile, CkptSteps, HeaderSteps, AppendSteps, Slots
<1>7. N \in Nat /\ N <= MaxSlots /\ N <= cap /\ keep = 0 /\ i = 0
  BY <1>2 DEF InvMemory, TypeOK, N
<1>8. (Intact <=> Clean) /\ (Intact' <=> Clean)
  BY <1>2 DEF Intact, InTransit, Clean
<1>9. Clean => n = N \/ (n = N + 1 /\ N < MaxSlots /\ Holds(N, arg, N))
  <2> SUFFICES ASSUME Clean PROVE n = N \/ (n = N + 1 /\ N < MaxSlots /\ Holds(N, arg, N))
    OBVIOUS
  <2>1. ASSUME n < N PROVE FALSE
    <3>1. n \in Slots /\ Holds(n, known[n + 1], n)
      BY <2>1, <1>3, <1>7, <1>8 DEF InvKnown, Slots
    <3>2. Valid(slots[n], n)
      BY <3>1 DEF Holds, Valid
    <3> QED BY <2>1, <3>2, <1>1, <1>3, <1>7 DEF ScanStopsAt
  <2>2. ASSUME n > N PROVE N < MaxSlots /\ Holds(N, arg, N)
    <3>1. N < MaxSlots /\ N \in 0..(n - 1)
      BY <2>2, <1>1, <1>3, <1>7
    <3>2. Valid(slots[N], N)
      BY <3>1, <1>1 DEF ScanStopsAt
    <3> QED BY <3>1, <3>2 DEF Valid, Sealed, InvLatest
  <2>3. ASSUME n > N + 1 PROVE FALSE
    <3>1. N + 1 \in Slots /\ N + 1 \in 0..(n - 1)
      BY <2>3, <1>1, <1>3, <1>7 DEF Slots
    <3>2. slots[N + 1] = Blank
      BY <3>1, <1>7 DEF InvFree
    <3>3. Valid(slots[N + 1], N + 1)
      BY <3>1, <1>1 DEF ScanStopsAt
    <3> QED BY <3>2, <3>3 DEF Valid, Blank
  <2> QED BY <2>1, <2>2, <2>3, <1>3, <1>7
<1>10. InvKnown'
  <2>1. ASSUME NEW k \in Slots, k < n, Clean PROVE Holds(k, known'[k + 1], k)
    <3>1. k + 1 \in 1..n /\ known'[k + 1] = [vid |-> slots[k].vid, vec |-> slots[k].data]
      <4>1. k \in Nat /\ k + 1 \in 1..n /\ (k + 1) - 1 = k
        BY <2>1, <1>3 DEF Slots
      <4> QED BY <4>1, <1>4
    <3>2. \E e \in Entry : Holds(k, e, k)
      <4>1. CASE k < N
        BY <4>1, <2>1, <1>8, <1>7 DEF InvKnown, TypeOK, Slots, N
      <4>2. CASE k = N
        BY <4>2, <2>1, <1>9, <1>3, <1>7 DEF TypeOK
      <4> QED BY <4>1, <4>2, <2>1, <1>9, <1>3, <1>7 DEF Slots
    <3> QED BY <3>1, <3>2 DEF Holds, Entry
  <2> QED BY <2>1, <1>2, <1>3, <1>8 DEF InvKnown, Holds
<1>11. InvFree'
  BY <1>2, <1>3, <1>7, <1>9 DEF InvFree, Clean, Slots
<1>12. n < MaxSlots => ~Holds(n, arg, n)
  <2>1. n < MaxSlots /\ Holds(n, arg, n) => Valid(slots[n], n) /\ n < cap
    BY <1>3, <1>2 DEF Holds, Valid, InvFile, Slots, Blank
  <2> QED BY <2>1, <1>1 DEF ScanStopsAt
<1>13. Clean /\ n < MaxSlots => ~Sealed(slots[n])
  <2>1. CASE n = N
    BY <2>1, <1>12 DEF InvLatest
  <2>2. CASE n = N + 1
    BY <2>2, <1>3, <1>7 DEF InvFree, Slots, Sealed, Blank
  <2> QED BY <2>1, <2>2, <1>9
<1>14. InvLatest' /\ InvAppend'
  BY <1>2, <1>3, <1>13 DEF InvLatest, InvAppend, AppendSteps, CkptSteps, Sealed, Clean
<1>15. InvTruncate' /\ InvHeader'
  BY <1>2 DEF InvTruncate, InvHeader, HeaderOk, AppendSteps
<1>16. InvCheckpoint'
  <2>1. damage = {} => hdr.ckpt <= n
    <3>1. damage = {} => Covers(hdr.ckpt) /\ Clean
      BY <1>2 DEF InvCheckpoint, Clean
    <3> QED BY <3>1, <1>3, <1>7, <1>9, <1>12 DEF Covers
  <2> QED BY <2>1, <1>2, <1>3 DEF InvCheckpoint, Covers
<1> QED BY <1>5, <1>6, <1>10, <1>11, <1>14, <1>15, <1>16

-----------------------------------------------------------------------------
(* truncate                                                                 *)

LEMMA TruncateStepBegins ==
    ASSUME IInv, NEW from \in 0..MaxSlots, Truncate(from) PROVE IInv'
<1> USE WALAssumption DEF IInv, Truncate, Smaller, fileVars, ghostVars, N, Clean
<1>1. pc = "idle" /\ next_lsn = N /\ N \in Nat /\ keep' \in 0..MaxSlots /\ keep' <= N
      /\ (keep' = 0 => N = 0) /\ i' = 0
  BY DEF InvMemory, TypeOK, CkptSteps
<1>2. TypeOK' /\ InvMemory'
  BY <1>1 DEF TypeOK, Steps, Ops, TruncateSteps, InvMemory, AppendSteps, HeaderSteps, CkptSteps
<1>3. InvFile' /\ InvKnown' /\ InvFree' /\ InvLatest'
  BY <1>1 DEF InvFile, InvKnown, InvFree, InvLatest, Intact, InTransit, Holds
<1>4. InvAppend' /\ InvHeader' /\ InvCheckpoint'
  BY DEF InvAppend, InvHeader, InvCheckpoint, AppendSteps, HeaderSteps, TruncateSteps,
     CkptSteps, Covers, Holds
<1>5. InvTruncate'
  <2>1. Clean => \A n \in Slots : n < N => Holds(n, known[n + 1], n)
    BY <1>1 DEF InvKnown, Intact, InTransit
  <2> QED BY <1>1, <2>1 DEF InvTruncate, Slots, Holds
<1> QED BY <1>2, <1>3, <1>4, <1>5

\* A store of memmove or of the renumbering loop stays below the kept count, so
\* the slots from the end of the log on are not touched.
LEMMA TruncateStoreStep ==
    ASSUME IInv, pc \in {"trunc_move", "trunc_lsn"}, pc' = pc, i' = i + 1, i < Kept,
           NEW s \in Slot, slots' = [slots EXCEPT ![i] = s],
           UNCHANGED <<file, cap, hdr, op, next_lsn, checkpoint_lsn, appends, keep, ghostVars>>
    PROVE  /\ TypeOK' /\ InvMemory' /\ InvFile' /\ InvKnown' /\ InvFree' /\ InvLatest'
           /\ InvAppend' /\ InvHeader' /\ InvCheckpoint'
           /\ next_lsn = N /\ N \in Nat /\ i \in Slots /\ keep \in Nat /\ keep > 0 /\ keep + i < N
           /\ slots'[i] = s /\ \A n \in Slots : n # i => slots'[n] = slots[n]
<1> USE WALAssumption DEF IInv, Kept, ghostVars, N, Clean
<1>1. /\ next_lsn = N /\ N \in Nat /\ N <= MaxSlots /\ N <= cap /\ i \in Nat /\ keep \in Nat
      /\ keep <= N /\ keep > 0 /\ keep + i < N /\ i < N /\ i \in Slots /\ cap \in Nat
      /\ slots \in [Slots -> Slot] /\ op = "truncate"
  BY DEF InvMemory, InvTruncate, TypeOK, CkptSteps, Slots
<1>2. slots'[i] = s /\ \A n \in Slots : n # i => slots'[n] = slots[n]
  BY <1>1
<1>3. TypeOK' /\ InvMemory'
  BY <1>1 DEF TypeOK, InvMemory, AppendSteps, HeaderSteps, CkptSteps
<1>4. InvFile' /\ InvFree'
  BY <1>1, <1>2 DEF InvFile, InvFree, Slots
<1>5. InvKnown'
  BY <1>1 DEF InvKnown, Intact, InTransit
<1>6. N < MaxSlots => slots'[N] = slots[N]
  BY <1>1, <1>2 DEF Slots
<1>7. InvLatest' /\ InvAppend'
  BY <1>6 DEF InvLatest, InvAppend, Holds, Sealed, AppendSteps, CkptSteps, HeaderSteps, TruncateSteps
<1>8. InvHeader' /\ InvCheckpoint'
  <2>1. damage = {} => checkpoint_lsn <= N /\ hdr.ckpt = checkpoint_lsn
    BY DEF InvCheckpoint, InvHeader
  <2> QED BY <2>1 DEF InvHeader, InvCheckpoint, Covers, AppendSteps
<1> QED BY <1>1, <1>2, <1>3, <1>4, <1>5, <1>7, <1>8

\* The loops end: nothing is stored, the next loop starts at slot 0.
LEMMA TruncateLoopEnds ==
    ASSUME IInv, MoveSlot \/ RenumberSlot, ~(i < Kept) PROVE IInv'
<1> USE WALAssumption DEF IInv, MoveSlot, RenumberSlot, Kept, ghostVars, N, Clean
<1>1. next_lsn = N /\ N \in Nat /\ i \in Nat /\ keep \in Nat /\ keep <= N /\ i = N - keep
      /\ op = "truncate"
  <2>1. pc \in {"trunc_move", "trunc_lsn"} /\ next_lsn = N
    BY DEF InvMemory, CkptSteps
  <2>2. N \in Nat /\ i \in Nat /\ keep \in Nat /\ ~(i < N - keep)
    BY <2>1 DEF TypeOK
  <2>3. keep <= N /\ i <= N - keep /\ op = "truncate"
    BY <2>1 DEF InvTruncate
  <2> QED BY <2>1, <2>2, <2>3
<1>2. TypeOK' /\ InvMemory'
  <2>1. /\ pc \in {"trunc_move", "trunc_lsn"} /\ pc' \in {"trunc_lsn", "trunc_cut"} /\ i' = 0
        /\ UNCHANGED <<fileVars, op, next_lsn, checkpoint_lsn, appends, keep, ghostVars>>
    BY DEF fileVars
  <2>2. TypeOK'
    BY <2>1 DEF TypeOK, Steps, TruncateSteps, fileVars
  <2>3. InvMemory'
    BY <1>1, <2>1 DEF InvMemory, AppendSteps, HeaderSteps, CkptSteps, fileVars
  <2> QED BY <2>2, <2>3
<1>3. InvFile' /\ InvFree' /\ InvLatest' /\ InvAppend'
  BY DEF InvFile, InvFree, InvLatest, InvAppend, Holds, Sealed, AppendSteps, HeaderSteps,
     TruncateSteps, CkptSteps
<1>4. InvKnown'
  BY <1>1 DEF InvKnown, Intact, InTransit, Holds
<1>5. InvTruncate'
  <2>1. CASE pc = "trunc_move"
    <3>1. ASSUME Clean, NEW n \in Slots, n < N - keep
          PROVE  Holds(n, known[keep + n + 1], IF n < 0 THEN n ELSE keep + n)
      <4>1. Holds(n, known[keep + n + 1], keep + n)
        BY <1>1, <2>1, <3>1 DEF InvTruncate, Slots
      <4>2. n \in Nat /\ ~(n < 0)
        BY DEF Slots
      <4> QED BY <4>1, <4>2
    <3>2. pc' = "trunc_lsn" /\ i' = 0 /\ UNCHANGED <<slots, op, next_lsn, keep, known, damage>>
      BY <2>1
    <3> QED BY <1>1, <3>1, <3>2 DEF InvTruncate, Holds
  <2>2. CASE pc = "trunc_lsn"
    <3>1. ASSUME Clean, NEW n \in Slots, n < N - keep
          PROVE  Holds(n, known[keep + n + 1], n)
      BY <1>1, <2>2, <3>1 DEF InvTruncate, Slots
    <3>2. pc' = "trunc_cut" /\ i' = 0 /\ UNCHANGED <<slots, op, next_lsn, keep, known, damage>>
      BY <2>2
    <3> QED BY <1>1, <3>1, <3>2 DEF InvTruncate, Holds
  <2> QED BY <2>1, <2>2
<1>6. InvHeader' /\ InvCheckpoint'
  <2>1. damage = {} => checkpoint_lsn <= N /\ hdr.ckpt = checkpoint_lsn
    BY DEF InvCheckpoint, InvHeader
  <2> QED BY <2>1 DEF InvHeader, InvCheckpoint, Covers, AppendSteps
<1> QED BY <1>2, <1>3, <1>4, <1>5, <1>6

LEMMA MoveSlotStep == ASSUME IInv, MoveSlot PROVE IInv'
<1> USE WALAssumption
<1>1. CASE i < Kept
  <2> DEFINE s == slots[keep + i]
  <2>1. keep + i \in Slots /\ s \in Slot
    BY <1>1 DEF IInv, MoveSlot, Kept, TypeOK, Slots
  <2>2. /\ TypeOK' /\ InvMemory' /\ InvFile' /\ InvKnown' /\ InvFree' /\ InvLatest'
        /\ InvAppend' /\ InvHeader' /\ InvCheckpoint'
        /\ next_lsn = N /\ N \in Nat /\ i \in Slots /\ keep \in Nat /\ keep > 0 /\ keep + i < N
        /\ slots'[i] = s /\ \A n \in Slots : n # i => slots'[n] = slots[n]
    BY <1>1, <2>1, TruncateStoreStep DEF MoveSlot, ghostVars
  <2>3. InvTruncate'
    <3>1. pc = "trunc_move" /\ pc' = pc /\ i' = i + 1 /\ UNCHANGED <<keep, next_lsn, known, damage, op>>
      BY <1>1 DEF MoveSlot, ghostVars
    <3>2. /\ op = "truncate" /\ keep <= next_lsn /\ i' <= next_lsn - keep
          /\ next_lsn - keep <= MaxKept
      BY <1>1, <2>2, <3>1 DEF IInv, InvTruncate, Kept, Slots
    <3>3. ASSUME Clean, NEW n \in Slots
          PROVE /\ n < i + 1 => slots'[n] = [lsn |-> keep + n, vid |-> known[keep + n + 1].vid,
                       dim |-> Dim, crc |-> known[keep + n + 1].vec, data |-> known[keep + n + 1].vec]
                /\ i + 1 <= n /\ n < N => slots'[n] = slots[n] /\ Holds(n, known[n + 1], n)
      <4>1. Holds(keep + i, known[keep + i + 1], keep + i)
        BY <3>1, <3>3, <2>1, <2>2 DEF IInv, InvTruncate, Slots
      <4>2. CASE n < i
        BY <4>2, <3>1, <3>3, <2>2 DEF IInv, InvTruncate, Holds, Slots
      <4>3. CASE n = i
        BY <4>3, <4>1, <2>2 DEF Holds, Slots
      <4>4. CASE n > i
        BY <4>4, <3>1, <3>3, <2>2 DEF IInv, InvTruncate, Slots
      <4> QED BY <4>2, <4>3, <4>4, <2>2 DEF Slots
    <3> QED BY <3>1, <3>2, <3>3, <2>2 DEF InvTruncate, Holds, Clean, N, Slots
  <2> QED BY <2>2, <2>3 DEF IInv
<1>2. CASE ~(i < Kept)
  BY <1>2, TruncateLoopEnds
<1> QED BY <1>1, <1>2

LEMMA RenumberSlotStep == ASSUME IInv, RenumberSlot PROVE IInv'
<1> USE WALAssumption
<1>1. CASE i < Kept
  <2> DEFINE s == [slots[i] EXCEPT !.lsn = i]
  <2>0. i \in Slots /\ slots[i] \in Slot /\ i \in Nat
    <3>1. /\ i \in Nat /\ next_lsn \in Nat /\ keep \in Nat /\ next_lsn <= MaxSlots
          /\ MaxSlots \in Nat /\ slots \in [Slots -> Slot]
      BY DEF IInv, TypeOK
    <3>2. i < MaxSlots
      BY <1>1, <3>1 DEF Kept
    <3> QED BY <3>1, <3>2 DEF Slots
  <2>1. i \in Slots /\ s \in Slot /\ slots' = [slots EXCEPT ![i] = s]
    BY <1>1, <2>0 DEF RenumberSlot, Slot
  <2>2. /\ TypeOK' /\ InvMemory' /\ InvFile' /\ InvKnown' /\ InvFree' /\ InvLatest'
        /\ InvAppend' /\ InvHeader' /\ InvCheckpoint'
        /\ next_lsn = N /\ N \in Nat /\ i \in Slots /\ keep \in Nat /\ keep > 0 /\ keep + i < N
        /\ slots'[i] = s /\ \A n \in Slots : n # i => slots'[n] = slots[n]
    BY <1>1, <2>1, TruncateStoreStep DEF RenumberSlot, ghostVars
  <2>3. InvTruncate'
    <3>1. pc = "trunc_lsn" /\ pc' = pc /\ i' = i + 1 /\ UNCHANGED <<keep, next_lsn, known, damage, op>>
      BY <1>1 DEF RenumberSlot, ghostVars
    <3>2. /\ op = "truncate" /\ keep <= next_lsn /\ i' <= next_lsn - keep
          /\ next_lsn - keep <= MaxKept
      BY <1>1, <2>2, <3>1 DEF IInv, InvTruncate, Kept, Slots
    <3>3. ASSUME Clean, NEW n \in Slots, n < N - keep
          PROVE slots'[n] = [lsn |-> IF n < i + 1 THEN n ELSE keep + n,
                             vid |-> known[keep + n + 1].vid, dim |-> Dim,
                             crc |-> known[keep + n + 1].vec, data |-> known[keep + n + 1].vec]
      <4>1. Holds(n, known[keep + n + 1], IF n < i THEN n ELSE keep + n)
        BY <3>1, <3>3 DEF IInv, InvTruncate
      <4>2. CASE n = i
        BY <4>2, <4>1, <2>2 DEF Holds, Slots
      <4>3. CASE n # i
        BY <4>3, <4>1, <2>2 DEF Holds, Slots
      <4> QED BY <4>2, <4>3
    <3>4. N' = N /\ (Clean' <=> Clean)
      BY <3>1 DEF N, Clean
    <3>5. ASSUME Clean', NEW n \in Slots, n < N' - keep'
          PROVE slots'[n] = [lsn |-> IF n < i' THEN n ELSE keep' + n,
                             vid |-> known'[keep' + n + 1].vid, dim |-> Dim,
                             crc |-> known'[keep' + n + 1].vec,
                             data |-> known'[keep' + n + 1].vec]
      BY <3>1, <3>3, <3>4, <3>5
    <3> QED BY <2>2, <3>1, <3>2, <3>5 DEF InvTruncate, Holds
  <2> QED BY <2>2, <2>3 DEF IInv
<1>2. CASE ~(i < Kept)
  BY <1>2, TruncateLoopEnds
<1> QED BY <1>1, <1>2

\* The cut: the kept entries are the whole of the file and of the history.
LEMMA CutFileStep == ASSUME IInv, CutFile PROVE IInv'
<1> USE WALAssumption DEF IInv
<1> DEFINE K == next_lsn - keep
<1>1. /\ pc = "trunc_cut" /\ next_lsn = N /\ N \in Nat /\ N <= MaxSlots /\ keep \in Nat
      /\ keep <= N /\ K \in Nat /\ K <= N /\ i \in 0..MaxSlots /\ known \in Seq(Entry)
  BY DEF CutFile, InvMemory, InvTruncate, TypeOK, CkptSteps, N
<1>2. /\ next_lsn' = K /\ checkpoint_lsn' = 0 /\ appends' = 0 /\ cap' = K
      /\ slots' = [n \in Slots |-> IF n < K THEN slots[n] ELSE Blank]
      /\ pc' = "trunc_grow" /\ known' = SubSeq(known, keep + 1, Len(known))
      /\ damage' \in {damage, damage \ {"entries"}} /\ (K > 0 => damage' = damage)
      /\ UNCHANGED <<file, hdr, op, keep, i, arg>>
  BY <1>1 DEF CutFile, Kept
<1>3. known' \in Seq(Entry) /\ N' = K /\ \A k \in 1..K : known'[k] = known[keep + k]
  BY <1>1, <1>2 DEF N
<1>4. Blank \in Slot
  BY DEF Blank, Slot, Payload
<1>5. TypeOK'
  BY <1>1, <1>2, <1>3, <1>4 DEF TypeOK, Steps, TruncateSteps
<1>6. InvMemory' /\ InvFile'
  BY <1>1, <1>2, <1>3 DEF InvMemory, InvFile, CkptSteps, HeaderSteps, AppendSteps, Slots
<1>7. InvKnown'
  <2>1. ASSUME Clean', NEW n \in Slots, n < K
        PROVE slots'[n] = [lsn |-> n, vid |-> known'[n + 1].vid, dim |-> Dim,
                           crc |-> known'[n + 1].vec, data |-> known'[n + 1].vec]
    <3>1. Clean /\ n + 1 \in 1..K /\ n \in Nat
      BY <2>1, <1>1, <1>2 DEF Clean, Slots
    <3>2. Holds(n, known[keep + n + 1], n)
      BY <2>1, <3>1, <1>1 DEF InvTruncate
    <3>3. known'[n + 1] = known[keep + n + 1]
      BY <3>1, <1>1, <1>3
    <3> QED BY <2>1, <3>2, <3>3, <1>2 DEF Holds
  <2> QED BY <2>1, <1>3 DEF InvKnown, Intact, Clean, Holds
<1>8. InvFree'
  BY <1>1, <1>2, <1>3 DEF InvFree, Slots
<1>9. N' < MaxSlots => slots'[N'] = Blank /\ ~Sealed(Blank)
  BY <1>1, <1>2, <1>3 DEF Slots, Sealed, Blank
<1>10. InvLatest' /\ InvAppend'
  BY <1>2, <1>9 DEF InvLatest, InvAppend, Sealed, AppendSteps, CkptSteps
<1>11. InvTruncate' /\ InvHeader' /\ InvCheckpoint'
  BY <1>1, <1>2 DEF InvTruncate, InvHeader, InvCheckpoint, AppendSteps
<1> QED BY <1>5, <1>6, <1>7, <1>8, <1>10, <1>11

LEMMA RegrowFileStep == ASSUME IInv, RegrowFile PROVE IInv'
<1> USE WALAssumption DEF IInv, RegrowFile, Larger, ghostVars, N, Clean
<1>1. TypeOK' /\ InvMemory'
  BY DEF TypeOK, Steps, HeaderSteps, InvMemory, AppendSteps, CkptSteps, TruncateSteps
<1>2. InvFile' /\ InvKnown' /\ InvFree' /\ InvLatest'
  BY DEF InvFile, InvKnown, InvFree, InvLatest, Intact, InTransit, Holds, TypeOK, Slots
<1>3. InvAppend' /\ InvTruncate' /\ InvHeader' /\ InvCheckpoint'
  BY DEF InvAppend, InvTruncate, InvHeader, InvCheckpoint, AppendSteps, HeaderSteps,
     TruncateSteps, CkptSteps, Sealed
<1> QED BY <1>1, <1>2, <1>3

\* A crash keeps the file and the history; kept entries in transit are recorded
\* as damage, so nothing is claimed of them any more.
LEMMA CrashStep == ASSUME IInv, Crash PROVE IInv'
<1> USE WALAssumption DEF IInv
<1>0. /\ pc' = "down" /\ op' = "none" /\ next_lsn' = 0 /\ checkpoint_lsn' = 0 /\ appends' = 0
      /\ keep' = 0 /\ i' = 0 /\ UNCHANGED <<file, cap, hdr, slots, arg, known>>
      /\ damage' = damage \cup (IF InTransit THEN {"entries"} ELSE {})
                   \cup (IF pc \in {"trunc_grow", "hdr_zero"} /\ op = "truncate"
                         THEN {"checkpoint"} ELSE {})
  BY DEF Crash, fileVars
<1>1. /\ damage \subseteq damage' /\ damage' \subseteq {"entries", "checkpoint"}
      /\ (InTransit => "entries" \in damage')
      /\ (pc \in {"trunc_grow", "hdr_zero"} /\ op = "truncate" => damage' # {})
  BY <1>0 DEF TypeOK
<1>2. TypeOK' /\ InvMemory' /\ InvFile'
  BY <1>0, <1>1 DEF TypeOK, Ops, InvMemory, InvFile, AppendSteps, CkptSteps, HeaderSteps, N
<1>3. InvKnown'
  BY <1>0, <1>1 DEF InvKnown, Intact, InTransit, Holds, N
<1>4. InvFree' /\ InvLatest'
  BY <1>0, <1>1 DEF InvFree, InvLatest, Holds, Clean, N
<1>5. InvAppend' /\ InvTruncate' /\ InvHeader'
  BY <1>0, <1>1 DEF InvAppend, InvTruncate, InvHeader, AppendSteps, CkptSteps, HeaderSteps,
     TruncateSteps
<1>6. InvCheckpoint'
  <2>1. pc \in {"trunc_grow", "hdr_zero"} => op = "truncate" \/ ~HeaderOk(hdr)
    BY DEF InvHeader, HeaderOk, BlankHeader
  <2> QED BY <1>0, <1>1, <2>1 DEF InvCheckpoint, Covers, Holds, N, AppendSteps
<1> QED BY <1>2, <1>3, <1>4, <1>5, <1>6

-----------------------------------------------------------------------------
(* The theorems                                                             *)

LEMMA IInvInit == Init => IInv
<1> SUFFICES ASSUME Init PROVE IInv
  OBVIOUS
<1> USE WALAssumption DEF Init, N, Clean
<1>1. TypeOK
  BY DEF TypeOK, Ops, Blank, BlankHeader, Slot, Payload
<1>2. InvMemory /\ InvFile /\ InvKnown /\ InvFree
  BY DEF InvMemory, InvFile, InvKnown, InvFree, CkptSteps, HeaderSteps, AppendSteps, Slots
<1>3. InvLatest /\ InvAppend
  BY DEF InvLatest, InvAppend, CkptSteps, HeaderSteps, AppendSteps, TruncateSteps, Sealed,
     Blank, Slots
<1>4. InvTruncate /\ InvHeader /\ InvCheckpoint
  BY DEF InvTruncate, InvHeader, InvCheckpoint, AppendSteps, Covers, HeaderOk, BlankHeader
<1> QED BY <1>1, <1>2, <1>3, <1>4 DEF IInv

LEMMA IInvStutter == ASSUME IInv, UNCHANGED vars PROVE IInv'
BY DEF vars, fileVars, memVars, ghostVars, IInv, TypeOK, InvMemory, InvFile, InvKnown, InvFree,
   InvLatest, InvAppend, InvTruncate, InvHeader, InvCheckpoint, N, Clean, Intact, InTransit,
   Kept, Holds, Sealed, Covers, HeaderOk

\* The inductive invariant: one step per action of WAL.
THEOREM WALInductive == Spec => []IInv
<1>1. Init => IInv
  BY IInvInit
<1>2. IInv /\ [Next]_vars => IInv'
  <2> SUFFICES ASSUME IInv, [Next]_vars PROVE IInv'
    OBVIOUS
  <2>1. CASE CreateFile \/ SizeFile
    BY <2>1, CreateStep
  <2>2. CASE WriteHeader
    BY <2>2, WriteHeaderStep
  <2>3. CASE OpenExisting
    BY <2>3, OpenExistingStep
  <2>4. CASE OpenRefused
    BY <2>4, OpenRefusedStep
  <2>5. ASSUME NEW e \in Entry, AppendEntry(e) PROVE IInv'
    BY <2>5, AppendEntryStep
  <2>6. CASE StoreEntry
    BY <2>6, StoreEntryStep
  <2>7. CASE CountAppend
    BY <2>7, CountAppendStep
  <2>8. CASE Checkpoint
    BY <2>8, CheckpointStep
  <2>9. CASE CkptStoreLsn
    BY <2>9, CkptStoreLsnStep
  <2>10. CASE CkptStoreCrc
    BY <2>10, CkptStoreCrcStep
  <2>11. ASSUME NEW from \in 0..MaxSlots, Truncate(from) PROVE IInv'
    BY <2>11, TruncateStepBegins
  <2>12. CASE TruncateStep
    BY <2>12, MoveSlotStep, RenumberSlotStep, CutFileStep, RegrowFileStep DEF TruncateStep
  <2>13. CASE Crash
    BY <2>13, CrashStep
  <2>14. ASSUME NEW from \in 0..MaxSlots, TruncateReturns(from) PROVE IInv'
    BY <2>14, IInvStutter DEF TruncateReturns
  <2>15. CASE UNCHANGED vars
    BY <2>15, IInvStutter
  <2> QED
    BY <2>1, <2>2, <2>3, <2>4, <2>5, <2>6, <2>7, <2>8, <2>9, <2>10, <2>11, <2>12, <2>13,
       <2>14, <2>15 DEF Next
<1> QED BY <1>1, <1>2, PTL DEF Spec

\* WAL!TypeOK for every value of the constants: members, header and slots keep
\* their types through every store, crash and restart of wal.cpp.
THEOREM WALTypeCorrect == Spec => []TypeOK
<1>1. IInv => TypeOK
  BY DEF IInv
<1> QED BY <1>1, WALInductive, PTL

\* There is only one place where a scan can stop, so ScanLength is it.
LEMMA ScanUnique ==
    ASSUME WALAssumption, TypeOK, NEW n, ScanStopsAt(n) PROVE ScanLength = n
<1>1. ASSUME NEW m, ScanStopsAt(m) PROVE m = n
  <2>1. m \in 0..MaxSlots /\ n \in 0..MaxSlots /\ m <= cap /\ n <= cap /\ cap \in Nat /\ MaxSlots \in Nat
    BY <1>1 DEF ScanStopsAt, TypeOK, WALAssumption
  <2>2. ~(m < n)
    BY <1>1, <2>1 DEF ScanStopsAt
  <2>3. ~(n < m)
    BY <1>1, <2>1 DEF ScanStopsAt
  <2> QED BY <2>1, <2>2, <2>3
<1>2. ScanStopsAt(ScanLength)
  BY DEF ScanLength, ScanStopsAt
<1> QED BY <1>1, <1>2

\* With the entries intact the scan stops behind the known entries, or behind
\* the latest append when its last store has been made.
LEMMA ScanOfIntactFile ==
    ASSUME IInv, Intact
    PROVE  \/ ScanStopsAt(N)
           \/ N < MaxSlots /\ Holds(N, arg, N) /\ ScanStopsAt(N + 1)
<1> USE WALAssumption DEF IInv
<1>1. N \in 0..MaxSlots /\ N <= cap /\ cap \in Nat /\ MaxSlots \in Nat
  BY DEF InvMemory, TypeOK, N
<1>2. \A k \in 0..(N - 1) : k \in Slots /\ Valid(slots[k], k)
  <2>1. ASSUME NEW k \in 0..(N - 1) PROVE k \in Slots /\ k < N
    BY <1>1 DEF Slots
  <2>2. ASSUME NEW k \in 0..(N - 1) PROVE Holds(k, known[k + 1], k)
    BY <2>1 DEF InvKnown
  <2>3. ASSUME NEW k \in 0..(N - 1) PROVE Valid(slots[k], k)
    <3>1. k \in Nat /\ Holds(k, known[k + 1], k)
      BY <1>1, <2>2
    <3> QED BY <3>1 DEF Holds, Valid
  <2> QED BY <2>1, <2>3
<1>3. CASE N < MaxSlots /\ Holds(N, arg, N)
  <2>1. N \in Slots /\ Valid(slots[N], N) /\ N < cap
    BY <1>1, <1>3 DEF Slots, Holds, Valid, InvFile, Blank
  <2>2. N + 1 < MaxSlots => ~Valid(slots[N + 1], N + 1)
    BY <1>1 DEF InvFree, Intact, Clean, Slots, Valid, Blank
  <2>3. \A k \in 0..N : Valid(slots[k], k)
    BY <1>1, <1>2, <2>1
  <2> QED BY <1>1, <1>3, <2>1, <2>2, <2>3 DEF ScanStopsAt
<1>4. CASE ~(N < MaxSlots /\ Holds(N, arg, N))
  <2>1. N < MaxSlots => ~Valid(slots[N], N)
    BY <1>4 DEF InvLatest, Intact, Clean, Sealed, Valid
  <2> QED BY <1>1, <1>2, <2>1 DEF ScanStopsAt
<1> QED BY <1>3, <1>4

\* What a replay delivers of an intact file: the known entries, and at most the
\* latest append behind them.
LEMMA ReplayOfIntactFile == ASSUME IInv PROVE KnownEntriesReplay /\ NoPhantomEntry
<1>1. ASSUME IInv PROVE KnownEntriesReplay
  <2> SUFFICES ASSUME Intact
               PROVE  /\ N <= ScanLength /\ \A k \in 1..N : Replay[k] = known[k]
    BY DEF KnownEntriesReplay, N
  <2>1. PICK n : ScanStopsAt(n) /\ n \in {N, N + 1}
    BY <1>1, ScanOfIntactFile
  <2>2. ScanLength = n /\ N \in Nat /\ N <= n
    BY <1>1, <2>1, ScanUnique, WALAssumption DEF IInv, TypeOK, N
  <2>3. ASSUME NEW k \in 1..N PROVE Replay[k] = known[k]
    <3>1. k \in 1..n /\ k - 1 \in Slots /\ k - 1 < N /\ (k - 1) + 1 = k
      BY <1>1, <2>1, <2>2, WALAssumption DEF Slots, IInv, InvMemory
    <3>2. Holds(k - 1, known[k], k - 1) /\ known[k] \in Entry
      BY <1>1, <3>1, <2>2 DEF IInv, InvKnown, TypeOK, N
    <3>3. Replay[k] = [vid |-> slots[k-1].vid, vec |-> slots[k-1].data]
      BY <3>1, <2>2 DEF Replay, Delivered
    <3> QED BY <3>2, <3>3 DEF Holds, Entry
  <2> QED BY <2>2, <2>3
<1>2. ASSUME IInv PROVE NoPhantomEntry
  <2> SUFFICES ASSUME Intact, ScanLength > Len(known)
               PROVE  Replay = Append(known, arg)
    BY DEF NoPhantomEntry
  <2>0. N \in Nat
    BY <1>2 DEF IInv, TypeOK, N
  <2>1. PICK n : /\ ScanStopsAt(n) /\ n \in {N, N + 1}
                 /\ n = N + 1 => N < MaxSlots /\ Holds(N, arg, N)
    BY <1>2, <2>0, ScanOfIntactFile
  <2>2. ScanLength = n /\ N \in Nat
    BY <1>2, <2>1, ScanUnique, WALAssumption DEF IInv, TypeOK, N
  <2>3. n = N + 1
    BY <2>1, <2>2 DEF N
  <2>4. ASSUME NEW k \in 1..(N + 1) PROVE Delivered(N + 1)[k] = Append(known, arg)[k]
    <3>1. Delivered(N + 1)[k] = [vid |-> slots[k-1].vid, vec |-> slots[k-1].data]
      BY <2>2 DEF Delivered
    <3>2. CASE k = N + 1
      <4>1. Holds(k - 1, arg, k - 1) /\ arg \in Entry
        BY <1>2, <2>1, <2>2, <2>3, <3>2 DEF IInv, TypeOK
      <4>2. Append(known, arg)[k] = arg
        BY <1>2, <3>2 DEF IInv, TypeOK, N
      <4> QED BY <3>1, <4>1, <4>2 DEF Holds, Entry
    <3>3. CASE k # N + 1
      <4>1. k \in 1..N /\ k - 1 \in Slots /\ k - 1 < N /\ (k - 1) + 1 = k
        BY <1>2, <2>1, <2>2, <2>3, <3>3, WALAssumption DEF Slots
      <4>2. Holds(k - 1, known[k], k - 1) /\ known[k] \in Entry
        BY <1>2, <4>1 DEF IInv, InvKnown, TypeOK, N
      <4>3. Append(known, arg)[k] = known[k]
        BY <1>2, <4>1 DEF IInv, TypeOK, N
      <4> QED BY <3>1, <4>2, <4>3 DEF Holds, Entry
    <3> QED BY <3>2, <3>3
  <2>5. Append(known, arg) \in Seq(Entry) /\ Len(Append(known, arg)) = N + 1
    BY <1>2 DEF IInv, TypeOK, N
  <2>6. Append(known, arg) = [k \in 1..(N + 1) |-> Append(known, arg)[k]]
    <3>1. Append(known, arg) \in [1..(N + 1) -> Entry]
      BY <2>5, LenProperties
    <3> QED BY <3>1
  <2>7. Delivered(N + 1) = [k \in 1..(N + 1) |-> Delivered(N + 1)[k]]
    BY DEF Delivered
  <2> QED BY <2>2, <2>3, <2>4, <2>6, <2>7 DEF Replay
<1> QED BY <1>1, <1>2

\* WAL!KnownEntriesReplay: whatever the sizes, no store and no crash of append,
\* checkpoint, the constructor or a truncate loses an entry a caller knows of.
THEOREM WALDurable == Spec => []KnownEntriesReplay
<1>1. IInv => KnownEntriesReplay
  BY ReplayOfIntactFile
<1> QED BY <1>1, WALInductive, PTL

\* WAL!NoPhantomEntry: what a replay delivers beyond the known entries is the entry
\* of the latest append, whole, whichever of its stores a crash came after.
THEOREM WALNoPhantom == Spec => []NoPhantomEntry
<1>1. IInv => NoPhantomEntry
  BY ReplayOfIntactFile
<1> QED BY <1>1, WALInductive, PTL

\* What the members of class WAL say of the file is so: the counter, the end of the
\* file, the header and the checkpoint, at every store of every operation.
THEOREM WALMemoryMatchesFile == Spec => []FileMatchesMemory
<1>1. ASSUME IInv PROVE CounterMatchesFile
  <2> SUFFICES ASSUME pc = "idle", Intact PROVE ScanStopsAt(next_lsn)
    BY DEF CounterMatchesFile
  <2>1. next_lsn = N /\ (N < MaxSlots => ~Holds(N, arg, N))
    BY <1>1 DEF IInv, InvMemory, InvAppend, Intact, Clean, Sealed, Holds, CkptSteps
  <2> QED BY <1>1, <2>1, ScanOfIntactFile
<1>2. ASSUME IInv PROVE StoresInsideFile /\ HeaderMatchesMemory /\ CheckpointInsideLog
  <2>1. StoresInsideFile
    BY <1>2 DEF IInv, InvMemory, StoresInsideFile
  <2>2. HeaderMatchesMemory
    BY <1>2 DEF IInv, InvHeader, HeaderMatchesMemory, TruncateSteps
  <2>3. CheckpointInsideLog
    BY <1>2 DEF IInv, InvCheckpoint, InvMemory, CheckpointInsideLog, CkptSteps
  <2> QED BY <2>1, <2>2, <2>3
<1>3. IInv => FileMatchesMemory
  BY <1>1, <1>2 DEF FileMatchesMemory, IInv
<1> QED BY <1>3, WALInductive, PTL

-----------------------------------------------------------------------------
(* WAL implements DurableLog                                                *)

\* The entries of DurableLog, seen through the file.
LogEntries == IF InTransit THEN known ELSE Replay

\* The slot behind the known entries holds the latest append, not yet acknowledged.
Pending == N < MaxSlots /\ Holds(N, arg, N)

LEMMA LeastNat == ASSUME NEW T \in SUBSET Nat, T # {} PROVE \E n \in T : \A m \in T : n <= m
<1>1. PICK n \in T : \A m \in T : ~(<<m, n>> \in OpToRel(<, Nat))
  BY NatLessThanWellFounded, WFMin, Zenon
<1>2. \A m \in T : ~(m < n)
  BY <1>1 DEF OpToRel
<1> QED BY <1>2

\* A scan stops somewhere, whatever the file holds; so a replay is a sequence of entries.
LEMMA ReplayType == ASSUME TypeOK PROVE Replay \in Seq(Entry)
<1> USE WALAssumption
<1> DEFINE T == {n \in 0..MaxSlots : n <= cap /\ (n < MaxSlots /\ n < cap => ~Valid(slots[n], n))}
<1>1. cap \in Nat /\ MaxSlots \in Nat
  BY DEF TypeOK
<1>2. T \in SUBSET Nat /\ T # {}
  <2>1. Smaller(cap, MaxSlots) \in T
    BY <1>1 DEF Smaller
  <2> QED BY <1>1, <2>1
<1>3. PICK n \in T : \A m \in T : n <= m
  <2> HIDE DEF T
  <2> QED BY <1>2, LeastNat
<1>4. ScanStopsAt(n)
  <2>1. ASSUME NEW k \in 0..(n - 1) PROVE Valid(slots[k], k)
    <3>1. k \notin T /\ k \in 0..MaxSlots /\ k <= cap
      BY <1>1, <1>3
    <3> QED BY <3>1
  <2> QED BY <1>3, <2>1 DEF ScanStopsAt
<1>5. ScanLength = n
  BY <1>4, ScanUnique
<1> QED BY <1>3, <1>4, <1>5, DeliveredType DEF Replay

\* While nothing is damaged, what the caller sees is what it knows, and at most
\* the append it is waiting for.
LEMMA SeenEntries ==
    ASSUME IInv, Clean
    PROVE  LogEntries = IF Pending THEN Append(known, arg) ELSE known
<1> USE WALAssumption
<1>0. N \in Nat /\ known \in Seq(Entry) /\ arg \in Entry
  BY DEF IInv, TypeOK, N
<1>1. CASE InTransit
  <2>1. N < MaxSlots => ~Sealed(slots[N])
    BY <1>1 DEF IInv, InvAppend, InTransit, TruncateSteps
  <2>2. ~Pending
    BY <2>1 DEF Pending, Sealed, Holds
  <2> QED BY <1>1, <2>2 DEF LogEntries
<1>2. CASE ~InTransit
  <2>0. Intact
    BY <1>2 DEF Intact, Clean
  <2>1. KnownEntriesReplay /\ NoPhantomEntry
    BY ReplayOfIntactFile
  <2>2. CASE ~Pending
    <3>1. ScanLength = N
      BY <2>0, <2>2, ScanOfIntactFile, ScanUnique DEF IInv, Pending
    <3>2. Replay \in Seq(Entry) /\ Len(Replay) = N
      <4>1. ScanStopsAt(N) /\ N \in 0..MaxSlots
        BY <2>0, <2>2, ScanOfIntactFile DEF Pending, ScanStopsAt
      <4> QED BY <3>1, <4>1, DeliveredType DEF Replay, IInv
    <3>3. \A k \in 1..N : Replay[k] = known[k]
      BY <2>0, <2>1 DEF KnownEntriesReplay, N
    <3>4. Replay = known
      BY <1>0, <3>2, <3>3, SeqEqual DEF N
    <3> QED BY <1>2, <2>2, <3>4 DEF LogEntries
  <2>3. CASE Pending
    <3>1. N \in Slots /\ N < cap /\ Valid(slots[N], N)
      BY <1>0, <2>3 DEF Pending, Slots, Holds, Valid, IInv, InvFile, Blank, TypeOK
    <3>2. ~ScanStopsAt(N)
      BY <2>3, <3>1 DEF ScanStopsAt, Pending
    <3>3. ScanLength = N + 1
      BY <2>0, <3>2, ScanOfIntactFile, ScanUnique DEF IInv
    <3>4. Replay = Append(known, arg)
      BY <1>0, <2>0, <2>1, <3>3 DEF NoPhantomEntry, N
    <3> QED BY <1>2, <2>3, <3>4 DEF LogEntries
  <2> QED BY <2>2, <2>3
<1> QED BY <1>1, <1>2

\* The two lemmas as one formula, and of the state after a step.
SeenOk ==
    /\ IInv /\ Clean => LogEntries = IF Pending THEN Append(known, arg) ELSE known
    /\ IInv => LogEntries \in Seq(Entry) /\ N \in Nat

LEMMA Seen == SeenOk
BY SeenEntries, ReplayType DEF SeenOk, IInv, TypeOK, LogEntries, N

LEMMA SeenNext ==
    /\ IInv' /\ Clean' => LogEntries' = IF Pending' THEN Append(known', arg') ELSE known'
    /\ IInv' => LogEntries' \in Seq(Entry) /\ N' \in Nat
<1>1. SeenOk'
  BY Seen, PTL
<1> QED BY <1>1 DEF SeenOk

\* A step that leaves the known entries and the slot behind them is none of DurableLog.
LEMMA QuietStep ==
    ASSUME IInv, IInv', Clean, Clean', known' = known, Pending' <=> Pending, Pending => arg' = arg
    PROVE  UNCHANGED Log!vars
<1>1. LogEntries' = LogEntries
  BY SeenEntries, SeenNext
<1>2. ("entries" \in damage') = ("entries" \in damage)
  BY DEF Clean
<1> QED BY <1>1, <1>2 DEF Log!vars, LogEntries

\* The store that completes the slot behind the known entries is DurableLog's Write.
LEMMA CompletingStore ==
    ASSUME IInv, IInv', Clean, Clean', known' = known, ~Pending, Pending'
    PROVE  Log!Next
<1>1. LogEntries = known /\ LogEntries' = Append(known, arg')
  BY SeenEntries, SeenNext
<1>2. arg' \in Entry
  BY DEF IInv, TypeOK
<1>3. Log!Write(arg')
  BY <1>1 DEF Log!Write, LogEntries, Clean
<1> QED BY <1>2, <1>3 DEF Log!Next

\* What the caller is waiting for becomes known: DurableLog's Acknowledge.
LEMMA ReturningStep ==
    ASSUME IInv, IInv', Clean, Clean', Pending, ~Pending', known' = Append(known, arg)
    PROVE  Log!Next
<1>1. LogEntries = Append(known, arg) /\ LogEntries' = LogEntries
  BY SeenEntries, SeenNext
<1>2. known \in Seq(Entry) /\ arg \in Entry
  BY DEF IInv, TypeOK
<1>3. Len(LogEntries) = N + 1 /\ Len(known') = N + 1 /\ N \in Nat
  BY <1>1, <1>2 DEF N
<1>4. Log!Acknowledge
  BY <1>1, <1>3 DEF Log!Acknowledge, LogEntries, Clean, N
<1> QED BY <1>4 DEF Log!Next

\* What happens among entries that a crash has left in disorder.
LEMMA DisorderedStep ==
    ASSUME IInv, IInv', ~Clean, ~Clean'
    PROVE  Log!Next
<1>1. LogEntries' \in Seq(Entry) /\ N' \in Nat
  BY SeenNext
<1>2. Log!Unreliable
  BY <1>1 DEF Log!Unreliable, LogEntries, Clean, N
<1> QED BY <1>2 DEF Log!Next

\* Only a crash in transit brings disorder, and only the cut that keeps nothing ends it.
LEMMA DamageMoves ==
    ASSUME [Next]_vars
    PROVE  \/ Clean' <=> Clean
           \/ Crash /\ InTransit
           \/ CutFile /\ Kept = 0
<1> USE DEF Clean
<1>1. CASE CreateFile \/ SizeFile \/ OpenExisting \/ OpenRefused \/ CountAppend \/ Checkpoint \/ CkptStoreCrc
  BY <1>1 DEF CreateFile, SizeFile, OpenExisting, OpenRefused, CountAppend, Checkpoint, CkptStoreCrc, ghostVars
<1>2. CASE WriteHeader
  BY <1>2 DEF WriteHeader, ZeroHeader, StoreMagic, StoreCkpt, StoreDim, StoreCrc
<1>3. ASSUME NEW e \in Entry, AppendEntry(e) PROVE Clean' <=> Clean
  BY <1>3 DEF AppendEntry
<1>4. CASE StoreEntry
  BY <1>4 DEF StoreEntry, StoreLsn, StoreVid, StoreSDim, StoreSCrc, TearData, StoreData, SlotStore, ghostVars
<1>5. CASE CkptStoreLsn
  BY <1>5 DEF CkptStoreLsn
<1>6. ASSUME NEW from \in 0..MaxSlots, TruncateReturns(from) \/ Truncate(from) PROVE Clean' <=> Clean
  BY <1>6 DEF TruncateReturns, Truncate, vars, ghostVars
<1>7. CASE MoveSlot \/ RenumberSlot \/ RegrowFile
  BY <1>7 DEF MoveSlot, RenumberSlot, RegrowFile, ghostVars
<1>8. CASE CutFile
  BY <1>8 DEF CutFile
<1>9. CASE Crash
  BY <1>9 DEF Crash
<1>10. CASE UNCHANGED vars
  BY <1>10 DEF vars, ghostVars
<1> QED BY <1>1, <1>2, <1>3, <1>4, <1>5, <1>6, <1>7, <1>8, <1>9, <1>10 DEF Next, TruncateStep

\* The stores of append: one of them completes the slot, none of them spoils it.
LEMMA StoreEntryLogs ==
    ASSUME IInv, IInv', Clean, Clean', StoreEntry
    PROVE  UNCHANGED Log!vars \/ Log!Next
<1> USE WALAssumption
<1>1. /\ pc \in AppendSteps \ {"app_done"} /\ next_lsn = N /\ N \in Slots /\ N < MaxSlots
      /\ known' = known /\ arg' = arg /\ slots \in [Slots -> Slot]
  <2>1. /\ pc \in AppendSteps \ {"app_done"} /\ known' = known /\ arg' = arg
    BY DEF StoreEntry, StoreLsn, StoreVid, StoreSDim, StoreSCrc, TearData, StoreData, SlotStore,
       AppendSteps, ghostVars
  <2>2. /\ next_lsn = N /\ next_lsn < MaxSlots /\ next_lsn \in Nat /\ MaxSlots \in Nat
        /\ slots \in [Slots -> Slot]
    BY <2>1 DEF AppendSteps, IInv, InvMemory, TypeOK, CkptSteps
  <2> QED BY <2>1, <2>2 DEF Slots, N
<1>2. Pending => Pending'
  <2>1. CASE pc \in {"app_lsn", "app_vid", "app_dim", "app_crc"}
    <3>1. ~Sealed(slots[N])
      BY <1>1, <2>1 DEF IInv, InvAppend
    <3> QED BY <3>1 DEF Pending, Sealed, Holds
  <2>2. CASE StoreData
    <3>1. slots'[N] = [slots[N] EXCEPT !.data = arg.vec]
      BY <1>1, <2>2 DEF StoreData, SlotStore
    <3> QED BY <1>1, <3>1 DEF Pending, Holds, N
  <2>3. ASSUME NEW mix \in Payload, TearData(mix) PROVE ~Pending
    BY <1>1, <2>3 DEF TearData, Pending, Holds
  <2> QED BY <2>1, <2>2, <2>3 DEF StoreEntry, StoreLsn, StoreVid, StoreSDim, StoreSCrc, SlotStore
<1>3. CASE Pending' <=> Pending
  BY <1>1, <1>3, QuietStep
<1>4. CASE ~Pending /\ Pending'
  BY <1>1, <1>4, CompletingStore
<1> QED BY <1>2, <1>3, <1>4

\* The three places where append's entry becomes known: its return, the end of its
\* checkpoint, and the scan of a restart.
LEMMA CountAppendLogs ==
    ASSUME IInv, IInv', Clean, Clean', CountAppend
    PROVE  UNCHANGED Log!vars \/ Log!Next
<1> USE WALAssumption
<1>1. /\ pc = "app_done" /\ next_lsn = N /\ N \in Slots /\ N < MaxSlots /\ N \in Nat
      /\ slots' = slots /\ arg' = arg /\ slots[N] \in Slot
  BY DEF CountAppend, AppendSteps, IInv, InvMemory, TypeOK, Slots, CkptSteps, fileVars, N
<1>2. Pending
  BY <1>1 DEF Pending, IInv, InvAppend, Slot, Holds, AppendSteps
<1>3. CASE CheckpointDue
  <2>1. known' = known
    BY <1>3 DEF CountAppend
  <2> QED BY <1>1, <1>2, <2>1, QuietStep DEF Pending, Holds, N
<1>4. CASE ~CheckpointDue
  <2>1. known' = Append(known, arg) /\ pc' = "idle" /\ known \in Seq(Entry) /\ arg \in Entry
    BY <1>4, AppendIsConcat DEF CountAppend, IInv, TypeOK
  <2>2. N' < MaxSlots => ~Sealed(slots'[N'])
    BY <2>1 DEF IInv, InvAppend
  <2>3. ~Pending'
    BY <2>2 DEF Pending, Sealed, Holds
  <2> QED BY <1>2, <2>1, <2>3, ReturningStep
<1> QED BY <1>3, <1>4

LEMMA CkptStoreCrcLogs ==
    ASSUME IInv, IInv', Clean, Clean', CkptStoreCrc
    PROVE  UNCHANGED Log!vars \/ Log!Next
<1> USE WALAssumption
<1>1. /\ pc = "ckpt_crc" /\ slots' = slots /\ arg' = arg /\ pc' = "idle"
      /\ op \in {"append", "checkpoint"} /\ known \in Seq(Entry) /\ arg \in Entry
      /\ N \in Nat /\ N <= MaxSlots /\ (op = "append" => next_lsn = N + 1 /\ next_lsn <= MaxSlots)
  BY DEF CkptStoreCrc, IInv, InvMemory, CkptSteps, TypeOK, N
<1>2. N' < MaxSlots => ~Sealed(slots'[N'])
  BY <1>1 DEF IInv, InvAppend
<1>3. ~Pending'
  BY <1>2 DEF Pending, Sealed, Holds
<1>4. CASE op = "append"
  <2>1. Pending
    BY <1>1, <1>4 DEF Pending, IInv, InvAppend, CkptSteps
  <2>2. known' = Append(known, arg)
    BY <1>1, <1>4, AppendIsConcat DEF CkptStoreCrc
  <2> QED BY <1>3, <2>1, <2>2, ReturningStep
<1>5. CASE op # "append"
  <2>1. known' = known
    BY <1>5 DEF CkptStoreCrc
  <2>2. ~Pending
    BY <1>1, <1>3, <2>1 DEF Pending, Holds, N
  <2> QED BY <1>3, <2>1, <2>2, QuietStep
<1> QED BY <1>4, <1>5

LEMMA OpenExistingLogs ==
    ASSUME IInv, IInv', Clean, Clean', OpenExisting
    PROVE  UNCHANGED Log!vars \/ Log!Next
<1> USE WALAssumption
<1>1. PICK n \in 0..MaxSlots : ScanStopsAt(n) /\ known' = Delivered(n)
  BY DEF OpenExisting
<1>2. known' = Replay /\ slots' = slots /\ arg' = arg /\ pc' = "idle" /\ ~InTransit
  BY <1>1, ScanUnique DEF OpenExisting, Replay, IInv, InTransit
<1>3. ~Pending'
  <2>1. N' < MaxSlots => ~Sealed(slots'[N'])
    BY <1>2 DEF IInv, InvAppend
  <2> QED BY <2>1 DEF Pending, Sealed, Holds
<1>4. known' = IF Pending THEN Append(known, arg) ELSE known
  BY <1>2, SeenEntries DEF LogEntries
<1>5. CASE Pending
  BY <1>3, <1>4, <1>5, ReturningStep
<1>6. CASE ~Pending
  BY <1>3, <1>4, <1>6, QuietStep
<1> QED BY <1>5, <1>6

\* The cut is DurableLog's Discard of everything below the kept entries.
LEMMA CutFileLogs ==
    ASSUME IInv, IInv', Clean, Clean', CutFile
    PROVE  UNCHANGED Log!vars \/ Log!Next
<1> USE WALAssumption
<1>1. /\ pc = "trunc_cut" /\ next_lsn = N /\ N \in Nat /\ keep \in Nat /\ keep <= N
      /\ (keep = 0 => N = 0) /\ N - keep <= MaxKept /\ known \in Seq(Entry)
      /\ known' = SubSeq(known, keep + 1, N) /\ pc' = "trunc_grow"
  BY DEF CutFile, IInv, InvMemory, InvTruncate, TypeOK, CkptSteps, N
<1>2. ~Pending /\ ~Pending'
  <2>1. N < MaxSlots => ~Sealed(slots[N])
    BY <1>1 DEF IInv, InvAppend, TruncateSteps
  <2>2. N' < MaxSlots => ~Sealed(slots'[N'])
    BY <1>1 DEF IInv, InvAppend, TruncateSteps
  <2> QED BY <2>1, <2>2 DEF Pending, Sealed, Holds
<1>3. LogEntries = known /\ LogEntries' = known'
  BY <1>2, SeenEntries, SeenNext
<1>4. CASE keep = 0
  <2>1. known' = known
    BY <1>1, <1>4, SubSeqFull DEF N
  <2> QED BY <1>2, <2>1, QuietStep
<1>5. CASE keep # 0
  <2>1. keep \in 1..N /\ Len(known') = N - keep
    BY <1>1, <1>5 DEF N
  <2>2. Log!Discard(keep)
    BY <1>1, <1>3, <2>1 DEF Log!Discard, LogEntries, Clean, N
  <2> QED BY <1>3, <2>1, <2>2 DEF Log!Next, LogEntries, N
<1> QED BY <1>4, <1>5

LEMMA LogStep ==
    ASSUME IInv, IInv', [Next]_vars
    PROVE  UNCHANGED Log!vars \/ Log!Next
<1> USE WALAssumption
<1>1. CASE ~Clean /\ ~Clean'
  BY <1>1, DisorderedStep
<1>2. CASE Clean /\ ~Clean'
  <2>1. Crash /\ InTransit
    BY <1>2, DamageMoves DEF CutFile, Clean
  <2>2. /\ pc \in {"trunc_move", "trunc_lsn", "trunc_cut"} /\ Kept > 0 /\ known' = known
        /\ Kept <= MaxKept /\ N = next_lsn /\ N \in Nat /\ keep \in Nat
    BY <2>1 DEF InTransit, Crash, IInv, InvTruncate, InvMemory, Kept, TypeOK, N, CkptSteps
  <2>3. LogEntries = known /\ N > 0 /\ MaxKept > 0
    BY <2>1, <2>2 DEF LogEntries, Kept
  <2>4. LogEntries' \in Seq(Entry) /\ N' \in Nat
    BY SeenNext
  <2>5. Log!Break
    BY <1>2, <2>3, <2>4 DEF Log!Break, LogEntries, Clean, N
  <2> QED BY <2>5 DEF Log!Next
<1>3. CASE ~Clean /\ Clean'
  <2>1. CutFile /\ Kept = 0
    BY <1>3, DamageMoves DEF Crash, Clean
  <2>2. /\ next_lsn = N /\ N \in Nat /\ keep = N /\ known \in Seq(Entry)
        /\ known' = SubSeq(known, N + 1, N) /\ pc' = "trunc_grow"
    <3>1. pc = "trunc_cut" /\ pc' = "trunc_grow" /\ known' = SubSeq(known, keep + 1, N)
      BY <2>1 DEF CutFile, N
    <3>2. next_lsn = N /\ next_lsn \in Nat /\ keep \in Nat /\ known \in Seq(Entry)
      BY <3>1 DEF IInv, InvMemory, TypeOK, CkptSteps
    <3>3. keep = N
      BY <2>1, <3>2 DEF Kept
    <3> QED BY <3>1, <3>2, <3>3
  <2>3. known' = <<>>
    BY <2>2, SubSeqEmpty
  <2>4. ~Pending'
    <3>1. N' < MaxSlots => ~Sealed(slots'[N'])
      BY <1>3, <2>2 DEF IInv, InvAppend, TruncateSteps
    <3> QED BY <3>1 DEF Pending, Sealed, Holds
  <2>5. LogEntries' = <<>> /\ N' = 0
    BY <1>3, <2>3, <2>4, SeenNext DEF N
  <2>6. Log!Emptied
    BY <1>3, <2>5 DEF Log!Emptied, LogEntries, Clean, N
  <2> QED BY <2>6 DEF Log!Next
<1>4. CASE Clean /\ Clean'
  <2>1. ASSUME UNCHANGED <<slots, known, arg>> PROVE UNCHANGED Log!vars
    BY <1>4, <2>1, QuietStep DEF Pending, Holds, N
  <2>2. CASE StoreEntry
    BY <1>4, <2>2, StoreEntryLogs
  <2>3. CASE CountAppend
    BY <1>4, <2>3, CountAppendLogs
  <2>4. CASE CkptStoreCrc
    BY <1>4, <2>4, CkptStoreCrcLogs
  <2>5. CASE OpenExisting
    BY <1>4, <2>5, OpenExistingLogs
  <2>6. CASE CutFile
    BY <1>4, <2>6, CutFileLogs
  <2>7. ASSUME NEW e \in Entry, AppendEntry(e) PROVE UNCHANGED Log!vars
    <3>1. /\ pc = "idle" /\ pc' = "app_lsn" /\ known' = known
      BY <2>7 DEF AppendEntry
    <3>2. ~Pending /\ ~Pending'
      <4>1. N < MaxSlots => ~Sealed(slots[N])
        BY <1>4, <3>1 DEF IInv, InvAppend
      <4>2. N' < MaxSlots => ~Sealed(slots'[N'])
        BY <1>4, <3>1 DEF IInv, InvAppend
      <4> QED BY <4>1, <4>2 DEF Pending, Sealed, Holds
    <3> QED BY <1>4, <3>1, <3>2, QuietStep
  <2>8. CASE MoveSlot \/ RenumberSlot
    <3>1. /\ pc \in {"trunc_move", "trunc_lsn"} /\ pc' \in {"trunc_move", "trunc_lsn", "trunc_cut"}
          /\ known' = known
      BY <2>8 DEF MoveSlot, RenumberSlot, ghostVars
    <3>2. ~Pending /\ ~Pending'
      <4>1. N < MaxSlots => ~Sealed(slots[N])
        BY <1>4, <3>1 DEF IInv, InvAppend, TruncateSteps
      <4>2. N' < MaxSlots => ~Sealed(slots'[N'])
        BY <1>4, <3>1 DEF IInv, InvAppend, TruncateSteps
      <4> QED BY <4>1, <4>2 DEF Pending, Sealed, Holds
    <3> QED BY <1>4, <3>1, <3>2, QuietStep
  <2>9. CASE CreateFile \/ SizeFile \/ OpenRefused \/ Checkpoint \/ CkptStoreLsn \/ RegrowFile \/ Crash
    <3>1. UNCHANGED <<slots, known, arg>>
      BY <2>9 DEF CreateFile, SizeFile, OpenRefused, Checkpoint, CkptStoreLsn, RegrowFile, Crash,
         fileVars, ghostVars
    <3> QED BY <2>1, <3>1
  <2>10. CASE WriteHeader
    <3>1. UNCHANGED <<slots, known, arg>>
      BY <2>10 DEF WriteHeader, ZeroHeader, StoreMagic, StoreCkpt, StoreDim, StoreCrc, HeaderStore
    <3> QED BY <2>1, <3>1
  <2>11. ASSUME NEW from \in 0..MaxSlots, TruncateReturns(from) \/ Truncate(from)
         PROVE  UNCHANGED Log!vars
    <3>1. UNCHANGED <<slots, known, arg>>
      BY <2>11 DEF TruncateReturns, Truncate, vars, fileVars, ghostVars
    <3> QED BY <2>1, <3>1
  <2>12. CASE UNCHANGED vars
    <3>1. UNCHANGED <<slots, known, arg>>
      BY <2>12 DEF vars, fileVars, ghostVars
    <3> QED BY <2>1, <3>1
  <2> QED
    BY <2>2, <2>3, <2>4, <2>5, <2>6, <2>7, <2>8, <2>9, <2>10, <2>11, <2>12 DEF Next, TruncateStep
<1> QED BY <1>1, <1>2, <1>3, <1>4

\* WAL!LogSpec: what a caller sees of the file is a DurableLog, whatever the sizes and
\* however many entries a truncate keeps.  Every store, crash and restart of wal.cpp
\* is one of DurableLog's steps or changes nothing a caller could see.
THEOREM WALImplementsDurableLog == Spec => LogSpec
<1>1. Init => Log!Init
  <2> SUFFICES ASSUME Init PROVE Log!Init
    OBVIOUS
  <2>1. IInv /\ Clean /\ known = <<>> /\ damage = {} /\ ~Pending
    <3>1. IInv
      BY IInvInit
    <3>2. known = <<>> /\ damage = {} /\ N = 0 /\ pc = "down" /\ cap = 0
      BY DEF Init, N
    <3>3. MaxSlots > 0 => slots[0] = Blank
      BY WALAssumption DEF Init, Slots
    <3> QED BY <3>1, <3>2, <3>3, WALAssumption DEF Pending, Holds, Blank, Clean
  <2>2. LogEntries = <<>>
    BY <2>1, SeenEntries
  <2> QED BY <2>1, <2>2 DEF Log!Init, LogEntries
<1>2. IInv /\ IInv' /\ [Next]_vars => [Log!Next]_Log!vars
  BY LogStep
<1> QED BY <1>1, <1>2, WALInductive, PTL DEF Spec, LogSpec, Log!Spec
=============================================================================
