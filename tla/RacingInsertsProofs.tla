------------------------- MODULE RacingInsertsProofs -------------------------
(***************************************************************************)
(* Theorems about RacingInserts, for any number of handlers, every         *)
(* checkpoint interval and every size of the mapping.                      *)
(*                                                                         *)
(* The argument turns on the handlers whose append overlapped with another *)
(* one.  While there are none, the log is a sequence of whole entries as   *)
(* long as next_lsn_ says; from then on next_lsn_ stays behind the first   *)
(* slot that one of them was given, and every slot in front of that one    *)
(* was filled by an append that ran by itself.                             *)
(***************************************************************************)
EXTENDS RacingInserts, FiniteSetTheorems, SequenceTheorems, TLAPS

\* h has the slot that it will fill, or has filled.
Placed(h) == pc[h] \notin {"idle", "grow", "reload"}

LoneInsert(h) == \A r \in racedInserts : h \notin r

\* The handlers that were given a slot and were not alone in append; one of them
\* got the slot v or one before it.
Racers      == {h \in Handlers : Placed(h) /\ ~Lone(h)}
RacedFrom(v) == \E g \in Racers : at[g].slot <= v

Counted == {h \in Handlers : Appended(h)}
Ticked  == {h \in Handlers : pc[h] \in {"logged", "done"} \cup CkptSteps}
Done    == {h \in Handlers : pc[h] = "done"}

\* Who is in a call at the same time is recorded.
InvPairs ==
    /\ \A g, h \in InAppend : g # h => {g, h} \in racedAppends
    /\ \A g, h \in InInsert : g # h => {g, h} \in racedInserts

\* The counters never get past the number of appends that have stored them.
InvCounters ==
    /\ next_lsn <= Cardinality(Counted) /\ appends <= Cardinality(Ticked)
    /\ \A h \in Handlers : pc[h] = "bump" => loaded[h] <= Cardinality(Counted)
    /\ \A h \in Handlers : pc[h] = "tick" => loaded[h] <= Cardinality(Ticked)

\* A payload is at the slot of its handler; a slot with an LSN has an id.
InvOwners ==
    \A k \in Slots :
        /\ slots[k].lsn => slots[k].vid \in Handlers
        /\ \A h \in Handlers : slots[k].high = h =>
              at[h].slot = k /\ (Appended(h) \/ pc[h] \in {"load", "bump"})

\* What an append that runs by itself finds, and how far it has filled its slot.
LoneRuns(h) ==
    /\ pc[h] \in GrowSteps \cup StoreSteps \cup {"load", "bump"} => at[h].slot = next_lsn
    /\ pc[h] = "bump" => loaded[h] = next_lsn
    /\ pc[h] \in {"crc", "low", "high"} => slots[at[h].slot].lsn /\ slots[at[h].slot].vid = h
    /\ pc[h] \in {"low", "high"} => slots[at[h].slot].crc = h
    /\ pc[h] = "high" => slots[at[h].slot].low = h
    /\ Appended(h) \/ pc[h] \in {"load", "bump"} => slots[at[h].slot] = Whole(h)

\* Once it has counted, everybody else stores behind its slot.
LonePassed(h) ==
    Appended(h) =>
        /\ at[h].slot < next_lsn
        /\ \A g \in Handlers : pc[g] \in StoreSteps => at[h].slot < at[g].slot
        /\ \A g \in Handlers : pc[g] = "bump" => at[h].slot < loaded[g]

InvLone == \A h \in Handlers : Lone(h) => LoneRuns(h) /\ LonePassed(h)

\* A race keeps the counter, and what is stored into it, behind its first slot.
InvRace ==
    /\ Racers # {} => RacedFrom(next_lsn)
    /\ \A h \in Racers : pc[h] = "bump" => RacedFrom(loaded[h])

\* Every slot below v was filled by an append of its own, or comes after a race.
Covered(v) ==
    \A j \in Nat : j < v =>
        RacedFrom(j) \/ \E g \in Counted : Lone(g) /\ at[g].slot = j

InvCovered ==
    Covered(next_lsn) /\ \A h \in Handlers : pc[h] = "bump" => Covered(loaded[h])

\* Without a race the counter counts, and the mapping has room for what is stored.
InvRoom ==
    /\ Racers = {} => next_lsn = Cardinality(Counted) /\ next_lsn <= mapping.slots
    /\ \A h \in Handlers : Lone(h) /\ pc[h] = "reload" /\ Racers = {} => next_lsn < mapping.slots
    /\ \A h \in Handlers : Lone(h) /\ Placed(h) =>
          at[h].slot < mapping.slots \/ RacedFrom(at[h].slot)

\* An insert that runs by itself gets the node id that its slot has as a number.
InvNodes ==
    /\ Len(index) = Cardinality(Done)
    /\ \A h \in Handlers : LoneInsert(h) /\ Placed(h) =>
          \/ at[h].slot = IF pc[h] = "done" THEN acked[h] ELSE Len(index)
          \/ RacedFrom(at[h].slot)

\* A checkpoint that began while no other was under way is still by itself.
InvHeader ==
    ~racedCheckpoint =>
        /\ \A g, h \in InCheckpoint : g = h
        /\ \A h \in Handlers : pc[h] = "ckpt_seal" => loaded[h] = hdr.ckpt
        /\ InCheckpoint = {} => hdr.crc = hdr.ckpt

IInv == TypeOK /\ InvPairs /\ InvCounters /\ InvOwners /\ InvLone /\ InvRace
        /\ InvCovered /\ InvRoom /\ InvNodes /\ InvHeader

-----------------------------------------------------------------------------
(* Sets of handlers, and the fields of a slot                               *)

LEMMA HandlerSets ==
    ASSUME NEW S \in SUBSET Handlers
    PROVE  IsFiniteSet(S) /\ Cardinality(S) \in Nat /\ Cardinality(S) <= Cardinality(Handlers)
BY RacingAssumption, FS_Subset, FS_CardinalityType

LEMMA OneMore ==
    ASSUME NEW S \in SUBSET Handlers, NEW h \in Handlers, h \notin S
    PROVE  Cardinality(S \cup {h}) = Cardinality(S) + 1
BY HandlerSets, FS_AddElement

Fields == {"lsn", "vid", "crc", "low", "high"}
Slot   == [lsn : BOOLEAN, vid : Handlers \cup {Nobody}, crc : Handlers \cup {Nobody},
           low : Handlers \cup {Nobody}, high : Handlers \cup {Nobody}]

LEMMA StoreFields ==
    ASSUME TypeOK, NEW h \in Handlers, NEW from, NEW to, NEW field,
           Store(h, from, to, field)
    PROVE  /\ at[h].slot \in Slots
           /\ \A k \in Slots : k # at[h].slot => slots'[k] = slots[k]
           /\ \A f \in Fields : slots'[at[h].slot][f] =
                 IF f \in field THEN Whole(h)[f] ELSE slots[at[h].slot][f]
           /\ slots' \in [Slots -> Slot]
<1>1. slots \in [Slots -> Slot] /\ at[h].slot \in Slots
  BY DEF TypeOK, Slot
<1> DEFINE s == slots[at[h].slot]
           z == [f \in DOMAIN s |-> IF f \in field THEN Whole(h)[f] ELSE s[f]]
<1>2. slots' = [slots EXCEPT ![at[h].slot] = z]
  BY DEF Store
<1>3. s \in Slot /\ DOMAIN s = Fields
  BY <1>1 DEF Slot, Fields
<1> HIDE DEF s
<1>4. /\ z.lsn = (IF "lsn" \in field THEN TRUE ELSE s.lsn)
      /\ z.vid = (IF "vid" \in field THEN h ELSE s.vid)
      /\ z.crc = (IF "crc" \in field THEN h ELSE s.crc)
      /\ z.low = (IF "low" \in field THEN h ELSE s.low)
      /\ z.high = (IF "high" \in field THEN h ELSE s.high)
  BY <1>3 DEF Fields, Whole
<1>5. z \in Slot
  <2>1. z = [lsn |-> z.lsn, vid |-> z.vid, crc |-> z.crc, low |-> z.low, high |-> z.high]
    BY <1>3 DEF Fields
  <2>2. z.lsn \in BOOLEAN
    BY <1>3, <1>4 DEF Slot
  <2>3. /\ z.vid \in Handlers \cup {Nobody} /\ z.crc \in Handlers \cup {Nobody}
        /\ z.low \in Handlers \cup {Nobody} /\ z.high \in Handlers \cup {Nobody}
    BY <1>3, <1>4 DEF Slot
  <2> HIDE DEF z
  <2> QED BY <2>1, <2>2, <2>3 DEF Slot
<1>6. \A f \in Fields : z[f] = IF f \in field THEN Whole(h)[f] ELSE s[f]
  BY <1>3
<1> HIDE DEF z
<1> QED BY <1>1, <1>2, <1>5, <1>6 DEF s

\* Where a store or a step of checkpoint comes from and goes to, and what it changes.
LEMMA StoreGoes ==
    ASSUME TypeOK, NEW h \in Handlers, StoreEntry(h)
    PROVE  /\ pc[h] \in StoreSteps
           /\ pc'[h] \in {"crc", "low", "high", "load"}
           /\ \A g \in Handlers \ {h} : pc'[g] = pc[g]
           /\ UNCHANGED <<hdr, mapping, next_lsn, appends, alive, at, loaded, index, acked,
                          racedAppends, racedInserts, racedCheckpoint>>
<1>0. pc \in [Handlers -> {"idle", "logged", "done"} \cup AppendSteps] /\ loaded \in [Handlers -> Nat]
  BY DEF TypeOK
<1>1. CASE StoreIds(h)
  BY <1>0, <1>1 DEF StoreIds, Store, Goes, StoreSteps, history
<1>2. CASE StoreCrc(h)
  BY <1>0, <1>2 DEF StoreCrc, Store, Goes, StoreSteps, history
<1>3. CASE StoreLow(h)
  BY <1>0, <1>3 DEF StoreLow, Store, Goes, StoreSteps, history
<1>4. CASE StoreHigh(h)
  BY <1>0, <1>4 DEF StoreHigh, Store, Goes, StoreSteps, history
<1> QED BY <1>1, <1>2, <1>3, <1>4 DEF StoreEntry

LEMMA CheckpointGoes ==
    ASSUME TypeOK, NEW h \in Handlers, Checkpoint(h)
    PROVE  /\ pc[h] \in CkptSteps
           /\ pc'[h] \in {"ckpt_lsn", "ckpt_crc", "ckpt_seal", "logged"}
           /\ \A g \in Handlers \ {h} : pc'[g] = pc[g] /\ loaded'[g] = loaded[g]
           /\ UNCHANGED <<slots, mapping, next_lsn, alive, at, index, acked, racedAppends, racedInserts>>
<1>0. pc \in [Handlers -> {"idle", "logged", "done"} \cup AppendSteps] /\ loaded \in [Handlers -> Nat]
  BY DEF TypeOK
<1>1. CASE CkptLoad(h)
  BY <1>0, <1>1 DEF CkptLoad, Goes, CkptSteps
<1>2. CASE CkptStoreLsn(h)
  BY <1>0, <1>2 DEF CkptStoreLsn, Goes, CkptSteps, history
<1>3. CASE CkptSum(h)
  BY <1>0, <1>3 DEF CkptSum, Goes, CkptSteps, history, logVars
<1>4. CASE CkptSeal(h)
  BY <1>0, <1>4 DEF CkptSeal, Goes, CkptSteps, history
<1> QED BY <1>1, <1>2, <1>3, <1>4 DEF Checkpoint

LEMMA CountGoes ==
    ASSUME TypeOK, NEW h \in Handlers, Count(h)
    PROVE  /\ pc[h] \in CountSteps
           /\ pc'[h] \in {"bump", "since", "tick", "ckpt", "logged"}
           /\ pc'[h] = "bump" <=> pc[h] = "load"
           /\ \A g \in Handlers \ {h} : pc'[g] = pc[g] /\ loaded'[g] = loaded[g]
           /\ UNCHANGED <<slots, hdr, mapping, alive, at, index, acked,
                          racedAppends, racedInserts, racedCheckpoint>>
<1>0. pc \in [Handlers -> {"idle", "logged", "done"} \cup AppendSteps] /\ loaded \in [Handlers -> Nat]
  BY DEF TypeOK
<1>1. CASE LoadNext(h)
  BY <1>0, <1>1 DEF LoadNext, Goes, CountSteps, history, logVars
<1>2. CASE Bump(h)
  BY <1>0, <1>2 DEF Bump, Goes, CountSteps, history
<1>3. CASE LoadAppends(h)
  BY <1>0, <1>3 DEF LoadAppends, Goes, CountSteps, history, logVars
<1>4. CASE CountAppend(h)
  BY <1>0, <1>4 DEF CountAppend, Goes, CountSteps, history
<1> QED BY <1>1, <1>2, <1>3, <1>4 DEF Count

-----------------------------------------------------------------------------
(* Types                                                                    *)

LEMMA TypeStep ==
    ASSUME TypeOK, InvCounters, NEW h \in Handlers,
           \/ Enter(h) \/ Grow(h) \/ Reload(h) \/ StoreEntry(h) \/ Killed(h)
           \/ Count(h) \/ Checkpoint(h) \/ IndexInsert(h)
    PROVE  TypeOK'
<1> USE RacingAssumption
<1>0. Cardinality(Handlers) \in Nat
  BY HandlerSets
<1>b. alive' \in BOOLEAN /\ racedCheckpoint' \in BOOLEAN
  <2>1. alive \in BOOLEAN /\ racedCheckpoint \in BOOLEAN
    BY DEF TypeOK
  <2>2. alive' \in {alive, FALSE}
    BY Zenon DEF Enter, Grow, Reload, StoreEntry, StoreIds, StoreCrc, StoreLow, StoreHigh, Store,
       Killed, Count, LoadNext, Bump, LoadAppends, CountAppend, Checkpoint, CkptLoad, CkptStoreLsn,
       CkptSum, CkptSeal, IndexInsert
  <2>3. racedCheckpoint' \in {racedCheckpoint, InCheckpoint # {}}
    BY Zenon DEF Enter, Grow, Reload, StoreEntry, StoreIds, StoreCrc, StoreLow, StoreHigh, Store,
       Killed, Count, LoadNext, Bump, LoadAppends, CountAppend, Checkpoint, CkptLoad, CkptStoreLsn,
       CkptSum, CkptSeal, IndexInsert, history
  <2> QED BY <2>1, <2>2, <2>3
<1>1. CASE Enter(h)
  <2>1. InAppend \subseteq InInsert
    BY DEF InAppend, InInsert
  <2>2. racedAppends' \subseteq racedInserts' /\ racedInserts' \subseteq {{e, g} : e, g \in Handlers}
    BY <1>1, <2>1 DEF TypeOK, Enter, InInsert
  <2>3. pc' \in [Handlers -> {"idle", "logged", "done"} \cup AppendSteps]
    BY <1>1 DEF TypeOK, Enter, Goes, AppendSteps, GrowSteps, StoreSteps
  <2>4. at' \in [Handlers -> [nr : Nat, slot : Slots]]
    BY <1>0, <1>1 DEF TypeOK, Enter, Slots
  <2>5. /\ slots' = slots /\ hdr' = hdr /\ mapping' = mapping /\ next_lsn' = next_lsn
        /\ appends' = appends /\ loaded' = loaded /\ index' = index /\ acked' = acked
    BY <1>1 DEF Enter, logVars
  <2> QED BY <1>b, <2>2, <2>3, <2>4, <2>5 DEF TypeOK
<1>2. CASE Grow(h)
  <2>1. pc' \in [Handlers -> {"idle", "logged", "done"} \cup AppendSteps]
    BY <1>2 DEF TypeOK, Grow, Goes, AppendSteps, GrowSteps
  <2>2. mapping' \in [nr : Nat, slots : Nat]
    <3>1. mapping.nr \in Nat /\ mapping.slots \in Nat
      BY DEF TypeOK
    <3>2. mapping' = [nr |-> mapping.nr + 1, slots |-> mapping.slots + GrowSlots]
      BY <1>2 DEF Grow
    <3> QED BY <3>1, <3>2
  <2>3. UNCHANGED <<slots, hdr, next_lsn, appends, at, loaded, index, acked, racedAppends, racedInserts>>
    BY <1>2 DEF Grow, history
  <2> QED BY <1>b, <2>1, <2>2, <2>3 DEF TypeOK
<1>3. CASE Reload(h)
  <2>1. pc' \in [Handlers -> {"idle", "logged", "done"} \cup AppendSteps]
    BY <1>3 DEF TypeOK, Reload, Goes, AppendSteps, StoreSteps
  <2>2. at' \in [Handlers -> [nr : Nat, slot : Slots]]
    BY <1>0, <1>3 DEF TypeOK, Reload, Slots
  <2> QED BY <1>3, <2>1, <2>2 DEF TypeOK, Reload, logVars, history
<1>4. CASE StoreEntry(h)
  <2> SUFFICES ASSUME NEW from, NEW to \in StoreSteps \cup {"load"}, NEW field,
                      Store(h, from, to, field)
               PROVE  TypeOK'
    BY <1>4 DEF StoreEntry, StoreIds, StoreCrc, StoreLow, StoreHigh, StoreSteps
  <2>1. slots' \in [Slots -> Slot]
    BY StoreFields
  <2>2. pc' \in [Handlers -> {"idle", "logged", "done"} \cup AppendSteps]
    BY DEF TypeOK, Store, Goes, AppendSteps, CountSteps
  <2>3. UNCHANGED <<hdr, mapping, next_lsn, appends, at, loaded, index, acked, racedAppends, racedInserts>>
    BY DEF Store, history
  <2> QED BY <1>b, <2>1, <2>2, <2>3 DEF TypeOK, Slot
<1>5. CASE Killed(h)
  BY <1>b, <1>5 DEF TypeOK, Killed, logVars, threadVars, history
<1>6. CASE Count(h)
  <2>1. CASE LoadNext(h)
    BY <1>0, <2>1 DEF TypeOK, LoadNext, Goes, AppendSteps, CountSteps, logVars, history
  <2>2. CASE Bump(h)
    <3>1. h \notin Counted /\ Counted \in SUBSET Handlers
      BY <2>2 DEF Bump, Goes, Counted, Appended, CkptSteps
    <3>2. Cardinality(Counted) + 1 <= Cardinality(Handlers) /\ Cardinality(Counted) \in Nat
      BY <3>1, OneMore, HandlerSets
    <3>3. next_lsn' \in 0..Cardinality(Handlers)
      BY <1>0, <2>2, <3>2 DEF TypeOK, InvCounters, Bump, Goes
    <3> QED BY <2>2, <3>3 DEF TypeOK, Bump, Goes, AppendSteps, CountSteps, history
  <2>3. CASE LoadAppends(h)
    BY <1>0, <2>3 DEF TypeOK, LoadAppends, Goes, AppendSteps, CountSteps, logVars, history
  <2>4. CASE CountAppend(h)
    <3>1. h \notin Ticked /\ Ticked \in SUBSET Handlers
      BY <2>4 DEF CountAppend, Goes, Ticked, CkptSteps
    <3>2. Cardinality(Ticked) + 1 <= Cardinality(Handlers) /\ Cardinality(Ticked) \in Nat
      BY <3>1, OneMore, HandlerSets
    <3>3. appends' \in 0..Cardinality(Handlers)
      BY <1>0, <2>4, <3>2 DEF TypeOK, InvCounters, CountAppend, Goes
    <3> QED BY <2>4, <3>3 DEF TypeOK, CountAppend, Goes, AppendSteps, CkptSteps, history
  <2> QED BY <1>6, <2>1, <2>2, <2>3, <2>4 DEF Count
<1>7. CASE Checkpoint(h)
  <2>1. CASE CkptLoad(h)
    BY <1>0, <2>1 DEF TypeOK, CkptLoad, Goes, AppendSteps, CkptSteps
  <2>2. CASE CkptStoreLsn(h)
    <3>1. hdr' \in [ckpt : Nat, crc : Nat]
      <4>1. hdr \in [ckpt : Nat, crc : Nat] /\ loaded[h] \in Nat
        BY DEF TypeOK
      <4>2. hdr' = [hdr EXCEPT !.ckpt = loaded[h]]
        BY <2>2 DEF CkptStoreLsn
      <4> QED BY <4>1, <4>2
    <3>2. pc' \in [Handlers -> {"idle", "logged", "done"} \cup AppendSteps]
      BY <2>2 DEF TypeOK, CkptStoreLsn, Goes, AppendSteps, CkptSteps
    <3>3. UNCHANGED <<slots, mapping, next_lsn, appends, at, loaded, index, acked, racedAppends, racedInserts>>
      BY <2>2 DEF CkptStoreLsn, history
    <3> QED BY <1>b, <3>1, <3>2, <3>3 DEF TypeOK
  <2>3. CASE CkptSum(h)
    BY <2>3 DEF TypeOK, CkptSum, Goes, AppendSteps, CkptSteps, logVars, history
  <2>4. CASE CkptSeal(h)
    <3>1. hdr' \in [ckpt : Nat, crc : Nat]
      <4>1. hdr \in [ckpt : Nat, crc : Nat] /\ loaded[h] \in Nat
        BY DEF TypeOK
      <4>2. hdr' = [hdr EXCEPT !.crc = loaded[h]]
        BY <2>4 DEF CkptSeal
      <4> QED BY <4>1, <4>2
    <3>2. pc' \in [Handlers -> {"idle", "logged", "done"} \cup AppendSteps]
      BY <2>4 DEF TypeOK, CkptSeal, Goes, AppendSteps, CkptSteps
    <3>3. UNCHANGED <<slots, mapping, next_lsn, appends, at, loaded, index, acked, racedAppends, racedInserts>>
      BY <2>4 DEF CkptSeal, history
    <3> QED BY <1>b, <3>1, <3>2, <3>3 DEF TypeOK
  <2> QED BY <1>7, <2>1, <2>2, <2>3, <2>4 DEF Checkpoint
<1>8. CASE IndexInsert(h)
  <2>1. Len(index) \in Nat /\ index' \in Seq(Handlers)
    BY <1>8, LenProperties, AppendProperties DEF TypeOK, IndexInsert
  <2> QED BY <1>8, <2>1 DEF TypeOK, IndexInsert, Goes, logVars, history
<1> QED BY <1>1, <1>2, <1>3, <1>4, <1>5, <1>6, <1>7, <1>8

-----------------------------------------------------------------------------
(* What every step leaves alone                                             *)

Step(h) ==
    \/ Enter(h) \/ Grow(h) \/ Reload(h) \/ StoreEntry(h) \/ Killed(h)
    \/ Count(h) \/ Checkpoint(h) \/ IndexInsert(h)

\* Races are not forgotten, a handler keeps its slot, the mapping does not shrink.
Frame(h) ==
    /\ racedAppends \subseteq racedAppends' /\ racedInserts \subseteq racedInserts'
    /\ \A g \in Handlers \ {h} : pc'[g] = pc[g] /\ at'[g] = at[g] /\ loaded'[g] = loaded[g]
                                 /\ acked'[g] = acked[g]
    /\ Placed(h) => pc'[h] \notin {"idle", "grow", "reload"} /\ at'[h] = at[h]
    /\ Appended(h) => pc'[h] \in {"since", "tick", "logged", "done"} \cup CkptSteps
    /\ mapping.slots <= mapping'.slots

LEMMA StepFrame ==
    ASSUME TypeOK, NEW h \in Handlers, Step(h)
    PROVE  Frame(h)
<1> USE RacingAssumption DEF Goes, Placed, Appended, CkptSteps
<1>0. /\ mapping.slots \in Nat /\ loaded \in [Handlers -> Nat]
      /\ at \in [Handlers -> [nr : Nat, slot : Slots]]
      /\ pc \in [Handlers -> {"idle", "logged", "done"} \cup AppendSteps]
      /\ acked \in [Handlers -> Nat]
  BY DEF TypeOK
<1> USE <1>0
<1>1. CASE Enter(h)
  BY <1>1 DEF Frame, Enter, logVars
<1>2. CASE Grow(h)
  BY <1>2 DEF Frame, Grow, history
<1>3. CASE Reload(h)
  BY <1>3 DEF Frame, Reload, logVars, history
<1>4. CASE StoreEntry(h)
  BY <1>4, StoreGoes DEF Frame, StoreSteps
<1>5. CASE Killed(h)
  BY <1>5 DEF Frame, Killed, logVars, threadVars, history
<1>6. CASE Count(h)
  BY <1>6, CountGoes DEF Frame, CountSteps
<1>7. CASE Checkpoint(h)
  BY <1>7, CheckpointGoes DEF Frame
<1>8. CASE IndexInsert(h)
  BY <1>8 DEF Frame, IndexInsert, logVars, history
<1> QED BY <1>1, <1>2, <1>3, <1>4, <1>5, <1>6, <1>7, <1>8 DEF Step

\* A race stays where it was, and so what it covers does.
LEMMA RacesKept ==
    ASSUME TypeOK, NEW h \in Handlers, Frame(h)
    PROVE  /\ \A g \in Handlers : Lone(g)' => Lone(g)
           /\ \A g \in Handlers : LoneInsert(g)' => LoneInsert(g)
           /\ Racers \subseteq Racers'
           /\ \A v \in Nat : RacedFrom(v) => RacedFrom(v)'
           /\ \A v \in Nat : Covered(v) => Covered(v)'
<1>1. /\ \A g \in Handlers : Lone(g)' => Lone(g)
      /\ \A g \in Handlers : LoneInsert(g)' => LoneInsert(g)
  BY DEF Frame, Lone, LoneInsert
<1>2. ASSUME NEW g \in Handlers, Placed(g) PROVE Placed(g)' /\ at'[g] = at[g]
  BY <1>2 DEF Frame, Placed
<1>3. Racers \subseteq Racers' /\ \A g \in Racers : at'[g] = at[g]
  BY <1>1, <1>2 DEF Racers
<1>4. \A v \in Nat : RacedFrom(v) => RacedFrom(v)'
  BY <1>3 DEF RacedFrom
<1>5. ASSUME NEW v \in Nat, Covered(v) PROVE Covered(v)'
  <2>1. SUFFICES ASSUME NEW j \in Nat, j < v
                 PROVE  RacedFrom(j)' \/ \E g \in Counted' : Lone(g)' /\ at'[g].slot = j
    BY DEF Covered
  <2>2. CASE RacedFrom(j)
    BY <1>4, <2>2
  <2>3. ASSUME NEW g \in Counted, Lone(g), at[g].slot = j
        PROVE  RacedFrom(j)' \/ \E e \in Counted' : Lone(e)' /\ at'[e].slot = j
    <3>1. g \in Handlers /\ Placed(g) /\ g \in Counted'
      BY <2>3 DEF Counted, Appended, Placed, Frame, CkptSteps
    <3>2. at'[g].slot = j /\ Placed(g)'
      BY <1>2, <2>3, <3>1
    <3>3. CASE Lone(g)'
      BY <3>1, <3>2, <3>3
    <3>4. CASE ~Lone(g)'
      BY <3>1, <3>2, <3>4, <2>1 DEF Racers, RacedFrom
    <3> QED BY <3>3, <3>4
  <2> QED BY <1>5, <2>1, <2>2, <2>3 DEF Covered
<1> QED BY <1>1, <1>3, <1>4, <1>5

\* Nobody new comes into append but by Enter.
LEMMA NobodyEnters ==
    ASSUME TypeOK, NEW h \in Handlers, Step(h), ~Enter(h)
    PROVE  /\ racedAppends' = racedAppends /\ racedInserts' = racedInserts
           /\ InAppend' \subseteq InAppend /\ InInsert' \subseteq InInsert
<1>0. pc \in [Handlers -> {"idle", "logged", "done"} \cup AppendSteps]
  BY DEF TypeOK
<1> USE <1>0 DEF Goes, InAppend, InInsert, AppendSteps, GrowSteps, StoreSteps, CountSteps,
            CkptSteps, history
<1>2. CASE Grow(h)
  BY <1>2 DEF Grow
<1>3. CASE Reload(h)
  BY <1>3 DEF Reload
<1>4. CASE StoreEntry(h)
  <2>1. /\ pc[h] \in StoreSteps /\ pc'[h] \in {"crc", "low", "high", "load"}
        /\ racedAppends' = racedAppends /\ racedInserts' = racedInserts
        /\ \A g \in Handlers \ {h} : pc'[g] = pc[g]
    BY <1>4, StoreGoes
  <2> QED BY <2>1
<1>5. CASE Killed(h)
  BY <1>5 DEF Killed, threadVars
<1>6. CASE Count(h)
  <2>1. CASE LoadNext(h)
    BY <2>1 DEF LoadNext
  <2>2. CASE Bump(h)
    BY <2>2 DEF Bump
  <2>3. CASE LoadAppends(h)
    BY <2>3 DEF LoadAppends
  <2>4. CASE CountAppend(h)
    BY <2>4 DEF CountAppend
  <2> QED BY <1>6, <2>1, <2>2, <2>3, <2>4 DEF Count
<1>7. CASE Checkpoint(h)
  <2>1. /\ pc[h] \in CkptSteps /\ pc'[h] \in {"ckpt_lsn", "ckpt_crc", "ckpt_seal", "logged"}
        /\ racedAppends' = racedAppends /\ racedInserts' = racedInserts
        /\ \A g \in Handlers \ {h} : pc'[g] = pc[g]
    BY <1>7, CheckpointGoes
  <2> QED BY <2>1
<1>8. CASE IndexInsert(h)
  BY <1>8 DEF IndexInsert
<1> QED BY <1>2, <1>3, <1>4, <1>5, <1>6, <1>7, <1>8 DEF Step

LEMMA PairsStep ==
    ASSUME TypeOK, InvPairs, NEW h \in Handlers, Step(h)
    PROVE  InvPairs'
<1>1. CASE Enter(h)
  <2>1. InAppend' \subseteq InAppend \cup {h} /\ InInsert' \subseteq InInsert \cup {h}
    BY <1>1 DEF TypeOK, Enter, Goes, InAppend, InInsert
  <2>2. /\ racedAppends' = racedAppends \cup {{g, h} : g \in InAppend}
        /\ racedInserts' = racedInserts \cup {{g, h} : g \in InInsert}
    BY <1>1 DEF Enter
  <2>3. ASSUME NEW e \in InAppend', NEW g \in InAppend', e # g PROVE {e, g} \in racedAppends'
    <3>1. {e, g} = {g, e}
      OBVIOUS
    <3> QED BY <2>1, <2>2, <2>3, <3>1 DEF InvPairs
  <2>4. ASSUME NEW e \in InInsert', NEW g \in InInsert', e # g PROVE {e, g} \in racedInserts'
    <3>1. {e, g} = {g, e}
      OBVIOUS
    <3> QED BY <2>1, <2>2, <2>4, <3>1 DEF InvPairs
  <2> QED BY <2>3, <2>4 DEF InvPairs
<1>2. CASE ~Enter(h)
  BY <1>2, NobodyEnters DEF InvPairs
<1> QED BY <1>1, <1>2

-----------------------------------------------------------------------------
(* The counters and the header                                              *)

LEMMA CountersStep ==
    ASSUME TypeOK, InvCounters, NEW h \in Handlers, Step(h)
    PROVE  InvCounters'
<1>1. /\ Cardinality(Counted) \in Nat /\ Cardinality(Ticked) \in Nat
      /\ Counted \in SUBSET Handlers /\ Ticked \in SUBSET Handlers
  BY HandlerSets DEF Counted, Ticked
<1>2. /\ next_lsn \in Nat /\ appends \in Nat
      /\ \A g \in Handlers : loaded[g] \in Nat
  BY DEF TypeOK
<1>3. CASE Bump(h)
  <2>1. h \notin Counted /\ Counted' = Counted \cup {h} /\ Ticked' = Ticked
    BY <1>3 DEF TypeOK, Bump, Goes, Counted, Appended, Ticked, CkptSteps
  <2>2. Cardinality(Counted') = Cardinality(Counted) + 1
    BY <1>1, <2>1, OneMore
  <2>3. loaded' = loaded /\ appends' = appends /\ next_lsn' = loaded[h] + 1 /\ pc[h] = "bump"
        /\ \A g \in Handlers : pc'[g] \in {"bump", "tick"} => pc'[g] = pc[g]
    BY <1>3 DEF TypeOK, Bump, Goes
  <2>4. next_lsn' <= Cardinality(Counted') /\ appends' <= Cardinality(Ticked')
    BY <1>1, <1>2, <2>1, <2>2, <2>3 DEF InvCounters
  <2>5. \A g \in Handlers : pc'[g] = "bump" => loaded'[g] <= Cardinality(Counted')
    BY <1>1, <1>2, <2>2, <2>3 DEF InvCounters
  <2>6. \A g \in Handlers : pc'[g] = "tick" => loaded'[g] <= Cardinality(Ticked')
    BY <2>1, <2>3 DEF InvCounters
  <2> QED BY <2>4, <2>5, <2>6 DEF InvCounters
<1>4. CASE CountAppend(h)
  <2>1. h \notin Ticked /\ Ticked' = Ticked \cup {h} /\ Counted' = Counted
    BY <1>4 DEF TypeOK, CountAppend, Goes, Counted, Appended, Ticked, CkptSteps
  <2>2. Cardinality(Ticked') = Cardinality(Ticked) + 1
    BY <1>1, <2>1, OneMore
  <2>3. loaded' = loaded /\ next_lsn' = next_lsn /\ appends' = loaded[h] + 1 /\ pc[h] = "tick"
        /\ \A g \in Handlers : pc'[g] \in {"bump", "tick"} => pc'[g] = pc[g]
    BY <1>4 DEF TypeOK, CountAppend, Goes
  <2>4. next_lsn' <= Cardinality(Counted') /\ appends' <= Cardinality(Ticked')
    BY <1>1, <1>2, <2>1, <2>2, <2>3 DEF InvCounters
  <2>5. \A g \in Handlers : pc'[g] = "bump" => loaded'[g] <= Cardinality(Counted')
    BY <2>1, <2>3 DEF InvCounters
  <2>6. \A g \in Handlers : pc'[g] = "tick" => loaded'[g] <= Cardinality(Ticked')
    BY <1>1, <1>2, <2>2, <2>3 DEF InvCounters
  <2> QED BY <2>4, <2>5, <2>6 DEF InvCounters
<1>5. CASE ~Bump(h) /\ ~CountAppend(h)
  <2>1. /\ Counted' = Counted /\ Ticked' = Ticked /\ next_lsn' = next_lsn
        /\ appends' \in {appends, 0}
        /\ \A g \in Handlers : pc'[g] = "bump" =>
              loaded'[g] = next_lsn \/ (pc[g] = "bump" /\ loaded'[g] = loaded[g])
        /\ \A g \in Handlers : pc'[g] = "tick" =>
              loaded'[g] = appends \/ (pc[g] = "tick" /\ loaded'[g] = loaded[g])
    <3>0. /\ pc \in [Handlers -> {"idle", "logged", "done"} \cup AppendSteps]
          /\ loaded \in [Handlers -> Nat]
      BY DEF TypeOK
    <3> USE <3>0 DEF Goes, Counted, Appended, Ticked, CkptSteps, StoreSteps, history, logVars
    <3>1. CASE Enter(h)
      BY <3>1 DEF Enter
    <3>2. CASE Grow(h)
      BY <3>2 DEF Grow
    <3>3. CASE Reload(h)
      BY <3>3 DEF Reload
    <3>4. CASE StoreEntry(h)
      <4>1. /\ pc[h] \in StoreSteps /\ pc'[h] \in {"crc", "low", "high", "load"}
            /\ \A g \in Handlers \ {h} : pc'[g] = pc[g]
            /\ next_lsn' = next_lsn /\ appends' = appends /\ loaded' = loaded
            /\ hdr' = hdr /\ racedCheckpoint' = racedCheckpoint
        BY <3>4, StoreGoes
      <4> QED BY <4>1
    <3>5. CASE Killed(h)
      BY <3>5 DEF Killed, threadVars
    <3>6. CASE LoadNext(h)
      BY <3>6 DEF LoadNext
    <3>7. CASE LoadAppends(h)
      BY <3>7 DEF LoadAppends
    <3>8. CASE Checkpoint(h)
      <4>1. CASE CkptLoad(h)
        BY <4>1 DEF CkptLoad
      <4>2. CASE CkptStoreLsn(h)
        BY <4>2 DEF CkptStoreLsn
      <4>3. CASE CkptSum(h)
        BY <4>3 DEF CkptSum
      <4>4. CASE CkptSeal(h)
        BY <4>4 DEF CkptSeal
      <4> QED BY <3>8, <4>1, <4>2, <4>3, <4>4 DEF Checkpoint
    <3>9. CASE IndexInsert(h)
      BY <3>9 DEF IndexInsert
    <3> QED BY <1>5, <3>1, <3>2, <3>3, <3>4, <3>5, <3>6, <3>7, <3>8, <3>9 DEF Step, Count
  <2>2. next_lsn' <= Cardinality(Counted') /\ appends' <= Cardinality(Ticked')
    BY <1>1, <1>2, <2>1 DEF InvCounters
  <2>3. \A g \in Handlers : pc'[g] = "bump" => loaded'[g] <= Cardinality(Counted')
    BY <2>1 DEF InvCounters
  <2>4. \A g \in Handlers : pc'[g] = "tick" => loaded'[g] <= Cardinality(Ticked')
    BY <2>1 DEF InvCounters
  <2> QED BY <2>2, <2>3, <2>4 DEF InvCounters
<1> QED BY <1>3, <1>4, <1>5

LEMMA HeaderStep ==
    ASSUME TypeOK, InvHeader, NEW h \in Handlers, Step(h)
    PROVE  InvHeader'
<1> USE DEF TypeOK, Goes, InCheckpoint, CkptSteps
<1>1. CASE CkptLoad(h)
  <2>1. InCheckpoint' = InCheckpoint \cup {h} /\ hdr' = hdr /\ h \notin InCheckpoint
        /\ (~racedCheckpoint' => InCheckpoint = {}) /\ pc'[h] = "ckpt_lsn"
    <3>1. racedCheckpoint' = (InCheckpoint # {})
      BY <1>1, Zenon DEF CkptLoad
    <3>2. /\ InCheckpoint' = InCheckpoint \cup {h} /\ hdr' = hdr /\ h \notin InCheckpoint
          /\ pc'[h] = "ckpt_lsn"
      BY <1>1 DEF CkptLoad
    <3>3. ~racedCheckpoint' => InCheckpoint = {}
      BY <3>1, Zenon
    <3> QED BY <3>2, <3>3
  <2>2. ~racedCheckpoint' => InCheckpoint' = {h} /\ \A g \in Handlers : pc'[g] # "ckpt_seal"
    BY <2>1
  <2> QED BY <2>1, <2>2 DEF InvHeader
<1>2. CASE CkptStoreLsn(h)
  <2>1. InCheckpoint' = InCheckpoint /\ h \in InCheckpoint /\ racedCheckpoint' = racedCheckpoint
        /\ pc'[h] = "ckpt_crc" /\ \A g \in Handlers \ {h} : pc'[g] = pc[g]
    BY <1>2 DEF CkptStoreLsn, history
  <2> QED BY <2>1 DEF InvHeader
<1>3. CASE CkptSum(h)
  <2>1. InCheckpoint' = InCheckpoint /\ h \in InCheckpoint /\ racedCheckpoint' = racedCheckpoint
        /\ loaded'[h] = hdr.ckpt /\ hdr' = hdr /\ \A g \in Handlers \ {h} : pc'[g] = pc[g]
    BY <1>3 DEF CkptSum, history, logVars
  <2> QED BY <2>1 DEF InvHeader
<1>4. CASE CkptSeal(h)
  <2>1. InCheckpoint' = InCheckpoint \ {h} /\ h \in InCheckpoint /\ racedCheckpoint' = racedCheckpoint
        /\ loaded' = loaded /\ hdr'.ckpt = hdr.ckpt /\ hdr'.crc = loaded[h]
        /\ pc[h] = "ckpt_seal" /\ pc'[h] = "logged" /\ \A g \in Handlers \ {h} : pc'[g] = pc[g]
    BY <1>4 DEF CkptSeal, history
  <2> QED BY <2>1 DEF InvHeader
<1>5. CASE ~Checkpoint(h)
  <2>1. InCheckpoint' = InCheckpoint /\ hdr' = hdr /\ racedCheckpoint' = racedCheckpoint
        /\ \A g \in Handlers : pc'[g] = "ckpt_seal" => pc[g] = "ckpt_seal" /\ loaded'[g] = loaded[g]
    <3> USE DEF StoreSteps, history, logVars
    <3>1. CASE Enter(h)
      BY <3>1 DEF Enter
    <3>2. CASE Grow(h)
      BY <3>2 DEF Grow
    <3>3. CASE Reload(h)
      BY <3>3 DEF Reload
    <3>4. CASE StoreEntry(h)
      <4>1. /\ pc[h] \in StoreSteps /\ pc'[h] \in {"crc", "low", "high", "load"}
            /\ \A g \in Handlers \ {h} : pc'[g] = pc[g]
            /\ next_lsn' = next_lsn /\ appends' = appends /\ loaded' = loaded
            /\ hdr' = hdr /\ racedCheckpoint' = racedCheckpoint
        BY <3>4, StoreGoes
      <4> QED BY <4>1
    <3>5. CASE Killed(h)
      BY <3>5 DEF Killed, threadVars
    <3>6. CASE Count(h)
      <4>1. CASE LoadNext(h)
        BY <4>1 DEF LoadNext
      <4>2. CASE Bump(h)
        BY <4>2 DEF Bump
      <4>3. CASE LoadAppends(h)
        BY <4>3 DEF LoadAppends
      <4>4. CASE CountAppend(h)
        BY <4>4 DEF CountAppend
      <4> QED BY <3>6, <4>1, <4>2, <4>3, <4>4 DEF Count
    <3>7. CASE IndexInsert(h)
      BY <3>7 DEF IndexInsert
    <3> QED BY <1>5, <3>1, <3>2, <3>3, <3>4, <3>5, <3>6, <3>7 DEF Step
  <2> QED BY <2>1 DEF InvHeader
<1> QED BY <1>1, <1>2, <1>3, <1>4, <1>5 DEF Checkpoint

-----------------------------------------------------------------------------
(* append up to its stores                                                  *)

\* The parts of the invariant that speak of slots and node ids.
InvSlots == InvOwners /\ InvLone /\ InvRace /\ InvCovered /\ InvRoom /\ InvNodes

LEMMA IInvParts == IInv <=> TypeOK /\ InvPairs /\ InvCounters /\ InvHeader /\ InvSlots
BY DEF IInv, InvSlots

\* Two handlers in append, or in insert, are not alone.
LEMMA LoneByItself ==
    ASSUME InvPairs, NEW g \in Handlers, NEW h \in Handlers, g # h
    PROVE  /\ g \in InAppend /\ h \in InAppend => ~Lone(g)
           /\ g \in InInsert /\ h \in InInsert => ~LoneInsert(g)
BY DEF InvPairs, Lone, LoneInsert

\* An insert that finds no other finds the counter at the number of vectors.
LEMMA NodeIsSlot ==
    ASSUME IInv, NEW h \in Handlers, InInsert \subseteq {h}, ~Appended(h)
    PROVE  next_lsn = Len(index) \/ RacedFrom(next_lsn)
<1>1. CASE Racers # {}
  BY <1>1 DEF IInv, InvRace
<1>2. CASE Racers = {}
  <2>1. Counted = Done
    BY DEF Counted, Done, Appended, InInsert, AppendSteps, CountSteps
  <2> QED BY <1>2, <2>1 DEF IInv, InvRoom, InvNodes
<1> QED BY <1>1, <1>2

LEMMA EnterStep ==
    ASSUME IInv, NEW h \in Handlers, Enter(h)
    PROVE  InvSlots'
<1> USE RacingAssumption
<1>1. /\ pc[h] = "idle" /\ pc'[h] = (IF next_lsn + 1 > mapping.slots THEN "grow" ELSE "ids")
      /\ \A g \in Handlers \ {h} : pc'[g] = pc[g] /\ at'[g] = at[g]
      /\ at'[h].slot = next_lsn
      /\ racedAppends' = racedAppends \cup {{g, h} : g \in InAppend}
      /\ racedInserts' = racedInserts \cup {{g, h} : g \in InInsert}
      /\ UNCHANGED <<slots, hdr, mapping, next_lsn, appends, alive, loaded, index, acked>>
  BY DEF IInv, TypeOK, Enter, Goes, logVars
<1>2. Frame(h) /\ TypeOK
  BY StepFrame DEF IInv, Step
<1>3. Counted' = Counted /\ Done' = Done
  BY <1>1 DEF Counted, Appended, Done, CkptSteps
<1>4. InvOwners'
  BY <1>1 DEF IInv, InvOwners, Appended, CkptSteps
<1>5. ASSUME NEW g \in Handlers, Lone(g)' PROVE LoneRuns(g)' /\ LonePassed(g)'
  <2>1. CASE g = h
    BY <1>1, <2>1 DEF LoneRuns, LonePassed, Appended, CkptSteps, GrowSteps, StoreSteps
  <2>2. CASE g # h
    <3>1. LoneRuns(g) /\ LonePassed(g)
      BY <1>2, <1>5, RacesKept DEF IInv, InvLone
    <3>2. LoneRuns(g)'
      BY <1>1, <2>2, <3>1 DEF LoneRuns, Appended, Whole
    <3>3. LonePassed(g)'
      BY <1>1, <2>2, <3>1 DEF LonePassed, Appended, StoreSteps
    <3> QED BY <3>2, <3>3
  <2> QED BY <2>1, <2>2
<1>6. InvLone'
  BY <1>5 DEF InvLone
<1>8. next_lsn \in Nat /\ \A g \in Handlers : loaded[g] \in Nat /\ at[g].slot \in Nat
  BY <1>2 DEF TypeOK, Slots
\* Who was alone up to now, and is not any more, was given the slot that the counter
\* shows, or one before it.
<1>7. ASSUME NEW g \in Racers', g \notin Racers
      PROVE  at'[g].slot <= next_lsn /\ (pc'[g] = "bump" => at'[g].slot <= loaded'[g])
  <2>1. g \in Handlers /\ Placed(g)'
    BY <1>7 DEF Racers
  <2>2. next_lsn \in Nat /\ at'[g].slot \in Nat
    BY <1>1, <1>8, <2>1
  <2>3. CASE g = h
    BY <1>1, <2>2, <2>3
  <2>4. CASE g # h
    <3>1. Placed(g) /\ Lone(g) /\ at'[g] = at[g] /\ pc'[g] = pc[g] /\ loaded'[g] = loaded[g]
      BY <1>1, <1>7, <2>1, <2>4 DEF Racers, Placed
    <3>2. LoneRuns(g) /\ LonePassed(g)
      BY <3>1, <2>1 DEF IInv, InvLone
    <3>3. Appended(g) \/ pc[g] \in GrowSteps \cup StoreSteps \cup {"load", "bump"}
      BY <1>2, <3>1, <2>1 DEF TypeOK, Placed, Appended, AppendSteps, CountSteps
    <3> QED BY <2>2, <3>1, <3>2, <3>3 DEF LoneRuns, LonePassed
  <2> QED BY <2>3, <2>4
<1>9. InvRace'
  <2>1. ASSUME Racers' # {} PROVE RacedFrom(next_lsn)'
    <3>1. CASE Racers # {}
      BY <1>1, <1>2, <1>8, <3>1, RacesKept DEF IInv, InvRace
    <3>2. CASE Racers = {}
      BY <1>1, <1>7, <2>1, <3>2 DEF RacedFrom
    <3> QED BY <3>1, <3>2
  <2>2. ASSUME NEW g \in Racers', pc'[g] = "bump" PROVE RacedFrom(loaded[g])'
    <3>1. g \in Handlers /\ pc[g] = "bump" /\ loaded'[g] = loaded[g]
      BY <1>1, <2>2 DEF Racers
    <3>2. CASE g \in Racers
      BY <1>2, <1>8, <3>1, <3>2, RacesKept DEF IInv, InvRace, RacedFrom
    <3>3. CASE g \notin Racers
      BY <1>7, <2>2, <3>1, <3>3 DEF RacedFrom
    <3> QED BY <3>2, <3>3
  <2> QED BY <2>1, <2>2 DEF InvRace
<1>10. InvCovered'
  <2>1. Covered(next_lsn)'
    BY <1>1, <1>2, <1>8, RacesKept DEF IInv, InvCovered
  <2>2. ASSUME NEW g \in Handlers, pc'[g] = "bump" PROVE Covered(loaded[g])'
    BY <1>1, <1>2, <1>8, <2>2, RacesKept DEF IInv, InvCovered, Covered
  <2> QED BY <2>1, <2>2 DEF InvCovered
<1>11. InvRoom'
  <2>1. Racers' = {} => Racers = {}
    BY <1>2, RacesKept
  <2>2. Racers' = {} => next_lsn' = Cardinality(Counted') /\ next_lsn' <= mapping'.slots
    BY <1>1, <1>3, <2>1 DEF IInv, InvRoom
  <2>3. \A g \in Handlers : Lone(g)' /\ pc'[g] = "reload" /\ Racers' = {} => next_lsn' < mapping'.slots
    BY <1>1, <1>2, <2>1, RacesKept DEF IInv, InvRoom
  <2>4. ASSUME NEW g \in Handlers, Lone(g)', Placed(g)'
        PROVE  at'[g].slot < mapping'.slots \/ RacedFrom(at[g].slot)'
    <3>1. CASE g = h
      <4>1. next_lsn + 1 <= mapping.slots /\ mapping.slots \in Nat
        BY <1>1, <1>2, <1>8, <2>4, <3>1 DEF Placed, TypeOK
      <4> QED BY <1>1, <1>8, <3>1, <4>1
    <3>2. CASE g # h
      <4>1. Lone(g) /\ Placed(g) /\ at'[g] = at[g]
        BY <1>1, <1>2, <2>4, <3>2, RacesKept DEF Placed
      <4>2. RacedFrom(at[g].slot) => \E e \in Racers' : at'[e].slot <= at[g].slot
        BY <1>2, <1>8, RacesKept DEF RacedFrom
      <4> QED BY <1>1, <4>1, <4>2 DEF IInv, InvRoom, RacedFrom
    <3> QED BY <3>1, <3>2
  <2> QED BY <2>2, <2>3, <2>4 DEF InvRoom
<1>12. InvNodes'
  <2>1. ASSUME NEW g \in Handlers, LoneInsert(g)', Placed(g)'
        PROVE  \/ at'[g].slot = IF pc'[g] = "done" THEN acked'[g] ELSE Len(index')
               \/ \E e \in Racers' : at'[e].slot <= at'[g].slot
    <3>1. CASE g = h
      <4>1. InInsert \subseteq {h}
        <5>1. \A e \in InInsert : {e, h} \in racedInserts'
          BY <1>1
        <5> QED BY <2>1, <3>1, <5>1 DEF LoneInsert
      <4>2. ~Appended(h)
        BY <1>1 DEF Appended, CkptSteps
      <4>3. next_lsn = Len(index) \/ RacedFrom(next_lsn)
        BY <4>1, <4>2, NodeIsSlot
      <4>4. RacedFrom(next_lsn) => \E e \in Racers' : at'[e].slot <= next_lsn
        BY <1>2, <1>8, RacesKept DEF RacedFrom
      <4> QED BY <1>1, <3>1, <4>3, <4>4
    <3>2. CASE g # h
      <4>1. LoneInsert(g) /\ Placed(g) /\ at'[g] = at[g] /\ pc'[g] = pc[g]
        BY <1>1, <1>2, <2>1, <3>2, RacesKept DEF Placed
      <4>2. RacedFrom(at[g].slot) => \E e \in Racers' : at'[e].slot <= at[g].slot
        BY <1>2, <1>8, RacesKept DEF RacedFrom
      <4> QED BY <1>1, <4>1, <4>2 DEF IInv, InvNodes
    <3> QED BY <3>1, <3>2
  <2> QED BY <1>1, <1>3, <2>1 DEF IInv, InvNodes, RacedFrom
<1> QED BY <1>4, <1>6, <1>9, <1>10, <1>11, <1>12 DEF InvSlots

\* The steps that come after a handler has a slot, or before: nobody is newly racing.
LEMMA RacersSame ==
    ASSUME TypeOK, NEW h \in Handlers, Step(h), Frame(h), ~Enter(h), ~Reload(h)
    PROVE  /\ Racers' = Racers
           /\ \A g \in Handlers : (Lone(g)' <=> Lone(g)) /\ (Placed(g)' <=> Placed(g))
           /\ \A g \in Handlers : LoneInsert(g)' <=> LoneInsert(g)
           /\ \A g \in Handlers : Placed(g) => at'[g] = at[g]
<1>1. racedAppends' = racedAppends /\ racedInserts' = racedInserts
  BY NobodyEnters
<1>2. \A g \in Handlers : (Lone(g)' <=> Lone(g)) /\ (LoneInsert(g)' <=> LoneInsert(g))
  BY <1>1 DEF Lone, LoneInsert
<1>3. Placed(h)' => Placed(h)
  <2> USE DEF TypeOK, Goes, Placed
  <2>1. CASE Grow(h)
    BY <2>1 DEF Grow
  <2>2. CASE StoreEntry(h)
    BY <2>2 DEF StoreEntry, StoreIds, StoreCrc, StoreLow, StoreHigh, Store
  <2>3. CASE Killed(h)
    BY <2>3 DEF Killed, threadVars
  <2>4. CASE Count(h)
    BY <2>4 DEF Count, LoadNext, Bump, LoadAppends, CountAppend
  <2>5. CASE Checkpoint(h)
    BY <2>5 DEF Checkpoint, CkptLoad, CkptStoreLsn, CkptSum, CkptSeal
  <2>6. CASE IndexInsert(h)
    BY <2>6 DEF IndexInsert
  <2> QED BY <2>1, <2>2, <2>3, <2>4, <2>5, <2>6 DEF Step
<1>4. \A g \in Handlers : (Placed(g)' <=> Placed(g)) /\ (Placed(g) => at'[g] = at[g])
  BY <1>3 DEF Frame, Placed
<1> QED BY <1>2, <1>4 DEF Racers

LEMMA GrowStep ==
    ASSUME IInv, NEW h \in Handlers, Grow(h)
    PROVE  InvSlots'
<1> USE RacingAssumption
<1>1. /\ pc[h] = "grow" /\ pc'[h] = "reload" /\ \A g \in Handlers \ {h} : pc'[g] = pc[g]
      /\ mapping'.slots = mapping.slots + GrowSlots
      /\ UNCHANGED <<slots, hdr, next_lsn, appends, alive, at, loaded, index, acked>>
  BY DEF IInv, TypeOK, Grow, Goes
<1>2. Step(h) /\ TypeOK /\ ~Enter(h) /\ ~Reload(h)
  BY <1>1 DEF IInv, Step, Enter, Reload, Goes
<1>3. /\ Racers' = Racers
      /\ \A g \in Handlers : (Lone(g)' <=> Lone(g)) /\ (Placed(g)' <=> Placed(g))
                             /\ (LoneInsert(g)' <=> LoneInsert(g))
  BY <1>2, StepFrame, RacersSame
<1>4. Counted' = Counted /\ Done' = Done
  BY <1>1 DEF Counted, Appended, Done, CkptSteps
<1>5. InvOwners'
  BY <1>1 DEF IInv, InvOwners, Appended, CkptSteps
<1>6. InvLone'
  <2>1. ASSUME NEW g \in Handlers, Lone(g) PROVE LoneRuns(g)' /\ LonePassed(g)'
    <3>1. LoneRuns(g) /\ LonePassed(g)
      BY <2>1 DEF IInv, InvLone
    <3>2. LoneRuns(g)'
      BY <1>1, <3>1 DEF LoneRuns, Appended, Whole, GrowSteps, StoreSteps, CkptSteps
    <3>3. LonePassed(g)'
      BY <1>1, <3>1 DEF LonePassed, Appended, StoreSteps, CkptSteps
    <3> QED BY <3>2, <3>3
  <2> QED BY <1>3, <2>1 DEF InvLone
<1>7. InvRace' /\ InvCovered'
  <2>1. Racers \subseteq Handlers /\ Counted \subseteq Handlers
    BY DEF Racers, Counted
  <2>2. InvRace'
    BY <1>1, <1>3, <2>1 DEF IInv, InvRace, RacedFrom
  <2>3. InvCovered'
    BY <1>1, <1>3, <1>4, <2>1 DEF IInv, InvCovered, Covered, RacedFrom
  <2> QED BY <2>2, <2>3
<1>8. InvRoom'
  <2>1. next_lsn \in Nat /\ mapping.slots \in Nat /\ \A g \in Handlers : at[g].slot \in Nat
    BY <1>2 DEF TypeOK, Slots
  <2>2. Racers' = {} => next_lsn' = Cardinality(Counted') /\ next_lsn' < mapping'.slots
    BY <1>1, <1>3, <1>4, <2>1 DEF IInv, InvRoom
  <2>3. \A g \in Handlers : Lone(g)' /\ Placed(g)' =>
           at'[g].slot < mapping'.slots \/ RacedFrom(at[g].slot)'
    BY <1>1, <1>3, <2>1 DEF IInv, InvRoom, RacedFrom
  <2> QED BY <1>1, <2>1, <2>2, <2>3 DEF InvRoom
<1>9. InvNodes'
  BY <1>1, <1>3, <1>4 DEF IInv, InvNodes, RacedFrom
<1> QED BY <1>5, <1>6, <1>7, <1>8, <1>9 DEF InvSlots

LEMMA ReloadStep ==
    ASSUME IInv, NEW h \in Handlers, Reload(h)
    PROVE  InvSlots'
<1> USE RacingAssumption
<1>1. /\ pc[h] = "reload" /\ pc'[h] = "ids" /\ at'[h].slot = next_lsn
      /\ \A g \in Handlers \ {h} : pc'[g] = pc[g] /\ at'[g] = at[g]
      /\ UNCHANGED <<slots, hdr, mapping, next_lsn, appends, alive, loaded, index, acked,
                     racedAppends, racedInserts>>
  BY DEF IInv, TypeOK, Reload, Goes, logVars, history
<1>2. Frame(h) /\ TypeOK
  BY StepFrame DEF IInv, Step
<1>3. Counted' = Counted /\ Done' = Done
  BY <1>1 DEF Counted, Appended, Done, CkptSteps
<1>4. /\ Racers \subseteq Racers' /\ Racers' \subseteq Racers \cup {h}
      /\ \A g \in Handlers : (Lone(g)' <=> Lone(g)) /\ (LoneInsert(g)' <=> LoneInsert(g))
      /\ \A g \in Handlers \ {h} : Placed(g)' <=> Placed(g)
  BY <1>1, <1>2, RacesKept DEF Racers, Lone, LoneInsert, Placed
<1>5. next_lsn \in Nat /\ mapping.slots \in Nat
      /\ \A g \in Handlers : loaded[g] \in Nat /\ at[g].slot \in Nat
  BY <1>2 DEF TypeOK, Slots
<1>6. InvOwners'
  BY <1>1 DEF IInv, InvOwners, Appended, CkptSteps
<1>7. InvLone'
  <2>1. ASSUME NEW g \in Handlers, Lone(g) PROVE LoneRuns(g)' /\ LonePassed(g)'
    <3>1. LoneRuns(g) /\ LonePassed(g)
      BY <2>1 DEF IInv, InvLone
    <3>2. LoneRuns(g)'
      BY <1>1, <3>1 DEF LoneRuns, Appended, Whole, GrowSteps, StoreSteps, CkptSteps
    <3>3. LonePassed(g)'
      BY <1>1, <3>1 DEF LonePassed, Appended, StoreSteps, CkptSteps
    <3> QED BY <3>2, <3>3
  <2> QED BY <1>4, <2>1 DEF InvLone
<1>8. InvRace'
  <2>1. ASSUME Racers' # {} PROVE RacedFrom(next_lsn)'
    <3>1. CASE Racers # {}
      BY <1>1, <1>2, <1>5, <3>1, RacesKept DEF IInv, InvRace
    <3>2. CASE Racers = {}
      BY <1>1, <1>4, <1>5, <2>1, <3>2 DEF RacedFrom
    <3> QED BY <3>1, <3>2
  <2>2. ASSUME NEW g \in Racers', pc'[g] = "bump" PROVE RacedFrom(loaded[g])'
    <3>1. g \in Racers /\ g \in Handlers /\ pc[g] = "bump" /\ loaded'[g] = loaded[g]
      BY <1>1, <1>4, <2>2 DEF Racers
    <3> QED BY <1>2, <1>5, <3>1, RacesKept DEF IInv, InvRace, RacedFrom
  <2> QED BY <2>1, <2>2 DEF InvRace
<1>9. InvCovered'
  <2>1. Covered(next_lsn)'
    BY <1>1, <1>2, <1>5, RacesKept DEF IInv, InvCovered
  <2>2. ASSUME NEW g \in Handlers, pc'[g] = "bump" PROVE Covered(loaded[g])'
    BY <1>1, <1>2, <1>5, <2>2, RacesKept DEF IInv, InvCovered, Covered
  <2> QED BY <2>1, <2>2 DEF InvCovered
<1>10. RacedFrom(next_lsn) => RacedFrom(next_lsn)'
  BY <1>1, <1>2, <1>5, RacesKept
<1>11. \A g \in Handlers \ {h} : RacedFrom(at[g].slot) => \E e \in Racers' : at'[e].slot <= at[g].slot
  BY <1>2, <1>5, RacesKept DEF RacedFrom
<1>12. InvRoom'
  <2>1. Racers' = {} => next_lsn' = Cardinality(Counted') /\ next_lsn' <= mapping'.slots
    BY <1>1, <1>3, <1>4 DEF IInv, InvRoom
  <2>2. \A g \in Handlers : Lone(g)' /\ pc'[g] = "reload" /\ Racers' = {} => next_lsn' < mapping'.slots
    BY <1>1, <1>4 DEF IInv, InvRoom
  <2>3. ASSUME NEW g \in Handlers, Lone(g), Placed(g)'
        PROVE  at'[g].slot < mapping'.slots \/ \E e \in Racers' : at'[e].slot <= at'[g].slot
    <3>1. CASE g = h
      <4>1. CASE Racers = {}
        BY <1>1, <2>3, <3>1, <4>1 DEF IInv, InvRoom
      <4>2. CASE Racers # {}
        BY <1>1, <1>10, <3>1, <4>2 DEF IInv, InvRace, RacedFrom
      <4> QED BY <4>1, <4>2
    <3>2. CASE g # h
      BY <1>1, <1>4, <1>11, <2>3, <3>2 DEF IInv, InvRoom
    <3> QED BY <3>1, <3>2
  <2> QED BY <1>4, <2>1, <2>2, <2>3 DEF InvRoom, RacedFrom
<1>13. InvNodes'
  <2>1. ASSUME NEW g \in Handlers, LoneInsert(g), Placed(g)'
        PROVE  \/ at'[g].slot = IF pc'[g] = "done" THEN acked'[g] ELSE Len(index')
               \/ \E e \in Racers' : at'[e].slot <= at'[g].slot
    <3>1. CASE g = h
      <4>1. InInsert \subseteq {h}
        <5>1. h \in InInsert
          BY <1>1 DEF InInsert, AppendSteps, GrowSteps
        <5>2. \A e \in InInsert : e \in Handlers
          BY DEF InInsert
        <5> QED BY <2>1, <3>1, <5>1, <5>2, LoneByItself DEF IInv
      <4>2. ~Appended(h)
        BY <1>1 DEF Appended, CkptSteps
      <4>3. next_lsn = Len(index) \/ RacedFrom(next_lsn)
        BY <4>1, <4>2, NodeIsSlot
      <4> QED BY <1>1, <1>10, <3>1, <4>3 DEF RacedFrom
    <3>2. CASE g # h
      BY <1>1, <1>4, <1>11, <2>1, <3>2 DEF IInv, InvNodes
    <3> QED BY <3>1, <3>2
  <2> QED BY <1>1, <1>3, <1>4, <2>1 DEF IInv, InvNodes, RacedFrom
<1> QED BY <1>6, <1>7, <1>8, <1>9, <1>12, <1>13 DEF InvSlots

-----------------------------------------------------------------------------
(* append from its stores on                                                *)

\* A step that leaves the counter alone, and takes it into no variable but as it is.
LEMMA CounterKept ==
    ASSUME IInv, NEW h \in Handlers, Step(h), ~Enter(h), ~Reload(h),
           next_lsn' = next_lsn, mapping' = mapping, Counted' = Counted,
           \A g \in Handlers : pc'[g] = "reload" => pc[g] = "reload",
           \A g \in Handlers : pc'[g] = "bump" =>
              loaded'[g] = next_lsn \/ (pc[g] = "bump" /\ loaded'[g] = loaded[g])
    PROVE  InvRace' /\ InvCovered' /\ InvRoom'
<1>1. Frame(h) /\ TypeOK
  BY StepFrame DEF IInv
<1>2. /\ Racers' = Racers
      /\ \A g \in Handlers : (Lone(g)' <=> Lone(g)) /\ (Placed(g)' <=> Placed(g))
      /\ \A g \in Handlers : Placed(g) => at'[g] = at[g]
  BY <1>1, RacersSame
<1>3. next_lsn \in Nat /\ Racers \subseteq Handlers
      /\ \A g \in Handlers : loaded[g] \in Nat /\ at[g].slot \in Nat
  BY <1>1 DEF TypeOK, Slots, Racers
<1>4. \A v \in Nat : (RacedFrom(v) => RacedFrom(v)') /\ (Covered(v) => Covered(v)')
  BY <1>1, RacesKept
<1>5. InvRace'
  <2>1. Racers' # {} => RacedFrom(next_lsn)'
    BY <1>2, <1>3, <1>4 DEF IInv, InvRace
  <2>2. ASSUME NEW g \in Racers', pc'[g] = "bump" PROVE RacedFrom(loaded[g])'
    <3>1. CASE loaded'[g] = next_lsn
      BY <1>2, <2>1, <2>2, <3>1 DEF RacedFrom
    <3>2. CASE pc[g] = "bump" /\ loaded'[g] = loaded[g]
      BY <1>2, <1>3, <1>4, <2>2, <3>2 DEF IInv, InvRace, RacedFrom
    <3> QED BY <1>2, <1>3, <2>2, <3>1, <3>2
  <2> QED BY <2>1, <2>2 DEF InvRace
<1>6. InvCovered'
  <2>1. Covered(next_lsn)'
    BY <1>3, <1>4 DEF IInv, InvCovered
  <2>2. ASSUME NEW g \in Handlers, pc'[g] = "bump" PROVE Covered(loaded[g])'
    <3>1. CASE loaded'[g] = next_lsn
      BY <2>1, <3>1 DEF Covered
    <3>2. CASE pc[g] = "bump" /\ loaded'[g] = loaded[g]
      BY <1>3, <1>4, <3>2 DEF IInv, InvCovered, Covered
    <3> QED BY <2>2, <3>1, <3>2
  <2> QED BY <2>1, <2>2 DEF InvCovered
<1>7. InvRoom'
  <2>1. Racers' = {} => next_lsn' = Cardinality(Counted') /\ next_lsn' <= mapping'.slots
    BY <1>2 DEF IInv, InvRoom
  <2>2. \A g \in Handlers : Lone(g)' /\ pc'[g] = "reload" /\ Racers' = {} => next_lsn' < mapping'.slots
    BY <1>2 DEF IInv, InvRoom
  <2>3. ASSUME NEW g \in Handlers, Lone(g)', Placed(g)'
        PROVE  at'[g].slot < mapping'.slots \/ RacedFrom(at[g].slot)'
    <3>1. at'[g] = at[g] /\ (at[g].slot < mapping.slots \/ RacedFrom(at[g].slot))
      BY <1>2, <2>3 DEF IInv, InvRoom
    <3>2. RacedFrom(at[g].slot) => \E e \in Racers' : at'[e].slot <= at[g].slot
      BY <1>3, <1>4 DEF RacedFrom
    <3> QED BY <3>1, <3>2 DEF RacedFrom
  <2> QED BY <2>1, <2>2, <2>3 DEF InvRoom
<1> QED BY <1>5, <1>6, <1>7

\* A step that ends no insert gives no node id.
LEMMA NodesKept ==
    ASSUME IInv, NEW h \in Handlers, Step(h), ~Enter(h), ~Reload(h),
           index' = index, acked' = acked, Done' = Done
    PROVE  InvNodes'
<1>1. /\ Racers' = Racers /\ Racers \subseteq Handlers
      /\ \A g \in Handlers : (LoneInsert(g)' <=> LoneInsert(g)) /\ (Placed(g)' <=> Placed(g))
      /\ \A g \in Handlers : Placed(g) => at'[g] = at[g]
  BY StepFrame, RacersSame DEF IInv, Racers
<1>2. \A g \in Handlers : pc'[g] = "done" <=> pc[g] = "done"
  BY DEF Done
<1>3. \A g \in Racers : at'[g] = at[g]
  BY <1>1 DEF Racers
<1> QED BY <1>1, <1>2, <1>3 DEF IInv, InvNodes, RacedFrom

\* The stores into a slot.
LEMMA StoreStep ==
    ASSUME IInv, NEW h \in Handlers, StoreEntry(h)
    PROVE  InvSlots'
<1>1. /\ pc[h] \in StoreSteps /\ \A g \in Handlers \ {h} : pc'[g] = pc[g]
      /\ UNCHANGED <<hdr, mapping, next_lsn, appends, alive, at, loaded, index, acked,
                     racedAppends, racedInserts>>
      /\ pc'[h] \in {"crc", "low", "high", "load"}
  BY DEF IInv, TypeOK, StoreEntry, StoreIds, StoreCrc, StoreLow, StoreHigh, Store, Goes, StoreSteps,
     history
<1>2. TypeOK /\ Step(h) /\ ~Enter(h) /\ ~Reload(h)
  BY <1>1 DEF IInv, Step, Enter, Reload, Goes, StoreSteps
<1>3. Counted' = Counted /\ Done' = Done
  BY <1>1 DEF Counted, Appended, Done, CkptSteps, StoreSteps
<1>4. InvRace' /\ InvCovered' /\ InvRoom'
  BY <1>1, <1>2, <1>3, CounterKept
<1>5. InvNodes'
  BY <1>1, <1>2, <1>3, NodesKept
<1> DEFINE k == at[h].slot
<1>6. /\ k \in Slots
      /\ \A j \in Slots : j # k => slots'[j] = slots[j]
      /\ pc[h] = "ids" => /\ slots'[k].lsn /\ slots'[k].vid = h /\ slots'[k].crc = slots[k].crc
                          /\ slots'[k].low = slots[k].low /\ slots'[k].high = slots[k].high
                          /\ pc'[h] = "crc"
      /\ pc[h] = "crc" => /\ slots'[k].lsn = slots[k].lsn /\ slots'[k].vid = slots[k].vid
                          /\ slots'[k].crc = h
                          /\ slots'[k].low = slots[k].low /\ slots'[k].high = slots[k].high
                          /\ pc'[h] = "low"
      /\ pc[h] = "low" => /\ slots'[k].lsn = slots[k].lsn /\ slots'[k].vid = slots[k].vid
                          /\ slots'[k].crc = slots[k].crc /\ slots'[k].low = h
                          /\ slots'[k].high = slots[k].high
                          /\ pc'[h] = "high"
      /\ pc[h] = "high" => /\ slots'[k].lsn = slots[k].lsn /\ slots'[k].vid = slots[k].vid
                           /\ slots'[k].crc = slots[k].crc /\ slots'[k].low = slots[k].low
                           /\ slots'[k].high = h
                           /\ pc'[h] = "load"
      /\ slots' \in [Slots -> Slot] /\ slots \in [Slots -> Slot]
  <2>0. slots \in [Slots -> Slot] /\ pc \in [Handlers -> {"idle", "logged", "done"} \cup AppendSteps]
    BY <1>2 DEF TypeOK, Slot
  <2>1. CASE StoreIds(h)
    <3>1. pc[h] = "ids" /\ pc'[h] = "crc"
      BY <2>0, <2>1 DEF StoreIds, Store, Goes
    <3>2. Store(h, "ids", "crc", {"lsn", "vid"})
      BY <2>1 DEF StoreIds
    <3>3. /\ k \in Slots /\ slots' \in [Slots -> Slot]
          /\ \A j \in Slots : j # k => slots'[j] = slots[j]
          /\ \A f \in Fields : slots'[k][f] = IF f \in {"lsn", "vid"} THEN Whole(h)[f] ELSE slots[k][f]
      BY <1>2, <3>2, StoreFields
    <3> HIDE DEF k
    <3>4. /\ slots'[k]["lsn"] = IF "lsn" \in {"lsn", "vid"} THEN TRUE ELSE slots[k]["lsn"]
          /\ slots'[k]["vid"] = IF "vid" \in {"lsn", "vid"} THEN h ELSE slots[k]["vid"]
          /\ slots'[k]["crc"] = IF "crc" \in {"lsn", "vid"} THEN h ELSE slots[k]["crc"]
          /\ slots'[k]["low"] = IF "low" \in {"lsn", "vid"} THEN h ELSE slots[k]["low"]
          /\ slots'[k]["high"] = IF "high" \in {"lsn", "vid"} THEN h ELSE slots[k]["high"]
      BY <3>3 DEF Fields, Whole
    <3> QED BY <2>0, <3>1, <3>3, <3>4
  <2>2. CASE StoreCrc(h)
    <3>1. pc[h] = "crc" /\ pc'[h] = "low"
      BY <2>0, <2>2 DEF StoreCrc, Store, Goes
    <3>2. Store(h, "crc", "low", {"crc"})
      BY <2>2 DEF StoreCrc
    <3>3. /\ k \in Slots /\ slots' \in [Slots -> Slot]
          /\ \A j \in Slots : j # k => slots'[j] = slots[j]
          /\ \A f \in Fields : slots'[k][f] = IF f \in {"crc"} THEN Whole(h)[f] ELSE slots[k][f]
      BY <1>2, <3>2, StoreFields
    <3> HIDE DEF k
    <3>4. /\ slots'[k]["lsn"] = IF "lsn" \in {"crc"} THEN TRUE ELSE slots[k]["lsn"]
          /\ slots'[k]["vid"] = IF "vid" \in {"crc"} THEN h ELSE slots[k]["vid"]
          /\ slots'[k]["crc"] = IF "crc" \in {"crc"} THEN h ELSE slots[k]["crc"]
          /\ slots'[k]["low"] = IF "low" \in {"crc"} THEN h ELSE slots[k]["low"]
          /\ slots'[k]["high"] = IF "high" \in {"crc"} THEN h ELSE slots[k]["high"]
      BY <3>3 DEF Fields, Whole
    <3> QED BY <2>0, <3>1, <3>3, <3>4
  <2>3. CASE StoreLow(h)
    <3>1. pc[h] = "low" /\ pc'[h] = "high"
      BY <2>0, <2>3 DEF StoreLow, Store, Goes
    <3>2. Store(h, "low", "high", {"low"})
      BY <2>3 DEF StoreLow
    <3>3. /\ k \in Slots /\ slots' \in [Slots -> Slot]
          /\ \A j \in Slots : j # k => slots'[j] = slots[j]
          /\ \A f \in Fields : slots'[k][f] = IF f \in {"low"} THEN Whole(h)[f] ELSE slots[k][f]
      BY <1>2, <3>2, StoreFields
    <3> HIDE DEF k
    <3>4. /\ slots'[k]["lsn"] = IF "lsn" \in {"low"} THEN TRUE ELSE slots[k]["lsn"]
          /\ slots'[k]["vid"] = IF "vid" \in {"low"} THEN h ELSE slots[k]["vid"]
          /\ slots'[k]["crc"] = IF "crc" \in {"low"} THEN h ELSE slots[k]["crc"]
          /\ slots'[k]["low"] = IF "low" \in {"low"} THEN h ELSE slots[k]["low"]
          /\ slots'[k]["high"] = IF "high" \in {"low"} THEN h ELSE slots[k]["high"]
      BY <3>3 DEF Fields, Whole
    <3> QED BY <2>0, <3>1, <3>3, <3>4
  <2>4. CASE StoreHigh(h)
    <3>1. pc[h] = "high" /\ pc'[h] = "load"
      BY <2>0, <2>4 DEF StoreHigh, Store, Goes
    <3>2. Store(h, "high", "load", {"high"})
      BY <2>4 DEF StoreHigh
    <3>3. /\ k \in Slots /\ slots' \in [Slots -> Slot]
          /\ \A j \in Slots : j # k => slots'[j] = slots[j]
          /\ \A f \in Fields : slots'[k][f] = IF f \in {"high"} THEN Whole(h)[f] ELSE slots[k][f]
      BY <1>2, <3>2, StoreFields
    <3> HIDE DEF k
    <3>4. /\ slots'[k]["lsn"] = IF "lsn" \in {"high"} THEN TRUE ELSE slots[k]["lsn"]
          /\ slots'[k]["vid"] = IF "vid" \in {"high"} THEN h ELSE slots[k]["vid"]
          /\ slots'[k]["crc"] = IF "crc" \in {"high"} THEN h ELSE slots[k]["crc"]
          /\ slots'[k]["low"] = IF "low" \in {"high"} THEN h ELSE slots[k]["low"]
          /\ slots'[k]["high"] = IF "high" \in {"high"} THEN h ELSE slots[k]["high"]
      BY <3>3 DEF Fields, Whole
    <3> QED BY <2>0, <3>1, <3>3, <3>4
  <2> QED BY <2>1, <2>2, <2>3, <2>4 DEF StoreEntry
<1> HIDE DEF k
<1>7. InvOwners'
  <2>1. ASSUME NEW j \in Slots, slots'[j].lsn PROVE slots'[j].vid \in Handlers
    BY <1>1, <1>6, <2>1 DEF IInv, InvOwners, StoreSteps
  <2>2. ASSUME NEW j \in Slots, NEW g \in Handlers, slots'[j].high = g
        PROVE  at[g].slot = j /\ (Appended(g)' \/ pc'[g] \in {"load", "bump"})
    <3>1. CASE g = h /\ pc[h] = "high" /\ j = k
      BY <1>6, <3>1 DEF k
    <3>2. CASE ~(g = h /\ pc[h] = "high" /\ j = k)
      <4>1. slots[j].high = g
        BY <1>1, <1>6, <2>2, <3>2 DEF StoreSteps
      <4>2. at[g].slot = j /\ (Appended(g) \/ pc[g] \in {"load", "bump"})
        BY <4>1 DEF IInv, InvOwners
      <4>3. g # h
        BY <1>1, <4>2 DEF Appended, StoreSteps, CkptSteps
      <4> QED BY <1>1, <4>2, <4>3 DEF Appended
    <3> QED BY <3>1, <3>2
  <2> QED BY <1>1, <2>1, <2>2 DEF InvOwners
<1>8. InvLone'
  <2>1. ASSUME NEW g \in Handlers, Lone(g) PROVE LoneRuns(g)' /\ LonePassed(g)'
    <3>1. LoneRuns(g) /\ LonePassed(g)
      BY <2>1 DEF IInv, InvLone
    <3>2. LonePassed(g)'
      BY <1>1, <3>1 DEF LonePassed, Appended, StoreSteps, CkptSteps
    <3>3. CASE g = h
      <4>1. k = at[h].slot /\ k = next_lsn
        BY <1>1, <3>1, <3>3 DEF LoneRuns, k
      <4>2. CASE pc[h] = "high"
        <5>1. slots'[k].lsn /\ slots'[k].vid = h /\ slots'[k].crc = h /\ slots'[k].low = h
              /\ slots'[k].high = h
          BY <1>6, <3>1, <3>3, <4>1, <4>2 DEF LoneRuns
        <5>2. slots'[k] \in Slot
          BY <1>6
        <5>3. slots'[k] = Whole(h)
          BY <5>1, <5>2 DEF Slot, Whole
        <5>4. pc'[h] = "load" /\ at'[h].slot = next_lsn' /\ slots'[at'[h].slot] = Whole(h)
          BY <1>1, <1>6, <4>1, <4>2, <5>3
        <5> QED BY <3>2, <3>3, <5>4 DEF LoneRuns, Appended, CkptSteps, GrowSteps, StoreSteps
      <4>3. CASE pc[h] # "high"
        <5>1. /\ pc'[h] \in {"crc", "low", "high"} /\ at'[h].slot = next_lsn' /\ at'[h].slot = k
              /\ slots'[k].lsn /\ slots'[k].vid = h
              /\ pc'[h] \in {"low", "high"} => slots'[k].crc = h
              /\ pc'[h] = "high" => slots'[k].low = h
          BY <1>1, <1>6, <3>1, <3>3, <4>1, <4>3 DEF LoneRuns, StoreSteps
        <5> QED BY <3>2, <3>3, <5>1 DEF LoneRuns, Appended, CkptSteps, GrowSteps, StoreSteps
      <4> QED BY <4>2, <4>3
    <3>4. CASE g # h
      <4>1. pc[g] \notin AppendSteps
        BY <1>1, <2>1, <3>4, LoneByItself DEF IInv, InAppend, AppendSteps
      <4>2. Appended(g) => at[g].slot < k /\ at[g].slot \in Slots
        BY <1>1, <1>2, <3>1 DEF LonePassed, TypeOK, k
      <4>3. Appended(g) => slots'[at[g].slot] = slots[at[g].slot]
        <5>1. k \in Nat
          BY <1>6 DEF Slots
        <5> QED BY <1>6, <4>2, <5>1 DEF Slots
      <4>4. pc'[g] = pc[g] /\ at'[g] = at[g]
            /\ pc[g] \notin GrowSteps \cup StoreSteps \cup {"load", "bump"}
        BY <1>1, <3>4, <4>1 DEF AppendSteps, CountSteps
      <4>5. Appended(g)' => slots'[at'[g].slot] = Whole(g)
        BY <3>1, <4>3, <4>4 DEF LoneRuns, Appended
      <4> QED BY <3>2, <4>4, <4>5 DEF LoneRuns, GrowSteps, StoreSteps, Appended
    <3> QED BY <3>2, <3>3, <3>4
  <2>2. \A g \in Handlers : Lone(g)' <=> Lone(g)
    BY <1>1 DEF Lone
  <2> QED BY <2>1, <2>2 DEF InvLone
<1> QED BY <1>4, <1>5, <1>7, <1>8 DEF InvSlots

LEMMA LoadNextStep ==
    ASSUME IInv, NEW h \in Handlers, LoadNext(h)
    PROVE  InvSlots'
<1>1. /\ pc[h] = "load" /\ pc'[h] = "bump" /\ \A g \in Handlers \ {h} : pc'[g] = pc[g]
      /\ loaded'[h] = next_lsn /\ \A g \in Handlers \ {h} : loaded'[g] = loaded[g]
      /\ UNCHANGED <<slots, hdr, mapping, next_lsn, appends, alive, at, index, acked,
                     racedAppends, racedInserts>>
  BY DEF IInv, TypeOK, LoadNext, Goes, logVars, history
<1>2. Step(h) /\ ~Enter(h) /\ ~Reload(h)
  BY <1>1 DEF Step, Count, Enter, Reload, Goes
<1>3. Counted' = Counted /\ Done' = Done
  BY <1>1 DEF Counted, Appended, Done, CkptSteps
<1>4. InvRace' /\ InvCovered' /\ InvRoom'
  BY <1>1, <1>2, <1>3, CounterKept
<1>5. InvNodes'
  BY <1>1, <1>2, <1>3, NodesKept
<1>6. InvOwners'
  BY <1>1 DEF IInv, InvOwners, Appended, CkptSteps
<1>7. InvLone'
  <2>1. ASSUME NEW g \in Handlers, Lone(g) PROVE LoneRuns(g)' /\ LonePassed(g)'
    <3>1. LoneRuns(g) /\ LonePassed(g)
      BY <2>1 DEF IInv, InvLone
    <3>2. LoneRuns(g)'
      BY <1>1, <3>1 DEF LoneRuns, Appended, Whole, GrowSteps, StoreSteps, CkptSteps
    <3>3. LonePassed(g)'
      BY <1>1, <3>1 DEF LonePassed, Appended, StoreSteps, CkptSteps
    <3> QED BY <3>2, <3>3
  <2>2. \A g \in Handlers : Lone(g)' <=> Lone(g)
    BY <1>1 DEF Lone
  <2> QED BY <2>1, <2>2 DEF InvLone
<1> QED BY <1>4, <1>5, <1>6, <1>7 DEF InvSlots

\* The counter is stored, one more than it was when it was loaded.
LEMMA BumpStep ==
    ASSUME IInv, NEW h \in Handlers, Bump(h)
    PROVE  InvSlots'
<1>1. /\ pc[h] = "bump" /\ pc'[h] = "since" /\ \A g \in Handlers \ {h} : pc'[g] = pc[g]
      /\ next_lsn' = loaded[h] + 1
      /\ UNCHANGED <<slots, hdr, mapping, appends, alive, at, loaded, index, acked,
                     racedAppends, racedInserts>>
  BY DEF IInv, TypeOK, Bump, Goes, history
<1>2. Step(h) /\ ~Enter(h) /\ ~Reload(h) /\ TypeOK
  BY <1>1 DEF IInv, Step, Count, Enter, Reload, Goes
<1>3. /\ Counted' = Counted \cup {h} /\ h \notin Counted /\ Done' = Done
      /\ Cardinality(Counted') = Cardinality(Counted) + 1
  <2>1. Counted' = Counted \cup {h} /\ h \notin Counted /\ Done' = Done
    BY <1>1 DEF Counted, Appended, Done, CkptSteps
  <2> QED BY <2>1, OneMore DEF Counted
<1>4. Frame(h)
  BY <1>2, StepFrame
<1>5. /\ Racers' = Racers /\ Racers \subseteq Handlers
      /\ \A g \in Handlers : (Lone(g)' <=> Lone(g)) /\ (Placed(g)' <=> Placed(g))
  BY <1>2, <1>4, RacersSame DEF Racers
<1>6. /\ next_lsn \in Nat /\ mapping.slots \in Nat /\ Cardinality(Counted) \in Nat
      /\ \A g \in Handlers : loaded[g] \in Nat /\ at[g].slot \in Nat
  BY <1>2, HandlerSets DEF TypeOK, Slots, Counted
<1>7. /\ Lone(h) => loaded[h] = next_lsn /\ at[h].slot = next_lsn
      /\ ~Lone(h) => h \in Racers
      /\ \A g \in Handlers \ {h} : Lone(g) \/ Lone(h) => pc[g] \notin AppendSteps
  <2>1. Lone(h) => loaded[h] = next_lsn /\ at[h].slot = next_lsn
    BY <1>1 DEF IInv, InvLone, LoneRuns
  <2>2. ~Lone(h) => h \in Racers
    BY <1>1 DEF Racers, Placed
  <2>3. h \in InAppend
    BY <1>1 DEF InAppend, AppendSteps, CountSteps
  <2> QED BY <2>1, <2>2, <2>3, LoneByItself DEF IInv, InAppend
<1>8. InvOwners'
  BY <1>1 DEF IInv, InvOwners, Appended, CkptSteps
<1>9. InvLone'
  <2>1. ASSUME NEW g \in Handlers, Lone(g) PROVE LoneRuns(g)' /\ LonePassed(g)'
    <3>1. LoneRuns(g) /\ LonePassed(g)
      BY <2>1 DEF IInv, InvLone
    <3>2. CASE g = h
      <4>1. LoneRuns(g)'
        BY <1>1, <3>1, <3>2 DEF LoneRuns, Whole, GrowSteps, StoreSteps
      <4>2. LonePassed(g)'
        BY <1>1, <1>6, <1>7, <2>1, <3>2 DEF LonePassed, StoreSteps, AppendSteps, CountSteps
      <4> QED BY <4>1, <4>2
    <3>3. CASE g # h
      <4>1. pc[g] \notin AppendSteps /\ pc'[g] = pc[g]
        BY <1>1, <1>7, <2>1, <3>3
      <4>2. LoneRuns(g)'
        <5>1. pc[g] \notin GrowSteps \cup StoreSteps \cup {"load", "bump"}
          BY <4>1 DEF AppendSteps, CountSteps
        <5>2. Appended(g)' => slots'[at'[g].slot] = Whole(g)
          BY <1>1, <3>1, <4>1 DEF LoneRuns, Appended
        <5> QED BY <4>1, <5>1, <5>2 DEF LoneRuns, StoreSteps
      <4>3. LonePassed(g)'
        BY <1>1, <1>6, <3>1, <3>3 DEF LonePassed, Appended, StoreSteps
      <4> QED BY <4>2, <4>3
    <3> QED BY <3>2, <3>3
  <2> QED BY <1>5, <2>1 DEF InvLone
<1>10. InvRace'
  <2>1. ASSUME Racers # {} PROVE RacedFrom(next_lsn)'
    <3>1. CASE Lone(h)
      BY <1>1, <1>5, <1>6, <1>7, <2>1, <3>1 DEF IInv, InvRace, RacedFrom
    <3>2. CASE ~Lone(h)
      BY <1>1, <1>5, <1>6, <1>7, <3>2 DEF IInv, InvRace, RacedFrom
    <3> QED BY <3>1, <3>2
  <2>2. ASSUME NEW g \in Racers, pc'[g] = "bump" PROVE RacedFrom(loaded[g])'
    BY <1>1, <1>5, <2>2 DEF IInv, InvRace, RacedFrom
  <2> QED BY <1>5, <2>1, <2>2 DEF InvRace
<1>11. InvCovered'
  <2>1. \A v \in Nat : Covered(v) => Covered(v)'
    BY <1>2, <1>4, RacesKept
  <2>2. Covered(next_lsn)'
    <3>1. SUFFICES ASSUME NEW j \in Nat, j < next_lsn'
                   PROVE  RacedFrom(j)' \/ \E g \in Counted' : Lone(g)' /\ at'[g].slot = j
      BY DEF Covered
    <3>2. CASE j < loaded[h]
      <4>1. Covered(loaded[h])'
        BY <1>1, <1>6, <2>1 DEF IInv, InvCovered, Covered
      <4> QED BY <1>1, <3>1, <3>2, <4>1 DEF Covered
    <3>3. CASE ~(j < loaded[h])
      <4>1. j = loaded[h]
        BY <1>1, <1>6, <3>1, <3>3
      <4>2. CASE Lone(h)
        BY <1>1, <1>3, <1>5, <1>7, <4>1, <4>2
      <4>3. CASE ~Lone(h)
        BY <1>1, <1>5, <1>7, <4>1, <4>3 DEF IInv, InvRace, RacedFrom
      <4> QED BY <4>2, <4>3
    <3> QED BY <3>2, <3>3
  <2>3. ASSUME NEW g \in Handlers, pc'[g] = "bump" PROVE Covered(loaded[g])'
    BY <1>1, <1>6, <2>1, <2>3 DEF IInv, InvCovered, Covered
  <2> QED BY <2>2, <2>3 DEF InvCovered
<1>12. InvRoom'
  <2>1. ASSUME Racers = {}
        PROVE  next_lsn' = Cardinality(Counted') /\ next_lsn' <= mapping'.slots
    <3>1. Lone(h) /\ Placed(h) /\ ~RacedFrom(at[h].slot)
      BY <1>1, <1>7, <2>1 DEF Placed, RacedFrom
    <3>2. at[h].slot < mapping.slots /\ next_lsn = Cardinality(Counted)
      BY <2>1, <3>1 DEF IInv, InvRoom
    <3> QED BY <1>1, <1>3, <1>6, <1>7, <3>1, <3>2
  <2>2. \A g \in Handlers : Lone(g) => pc'[g] # "reload"
    BY <1>1, <1>7 DEF AppendSteps, GrowSteps
  <2>3. ASSUME NEW g \in Handlers, Lone(g), Placed(g)
        PROVE  at'[g].slot < mapping'.slots \/ RacedFrom(at[g].slot)'
    BY <1>1, <1>5, <2>3 DEF IInv, InvRoom, RacedFrom
  <2> QED BY <1>5, <2>1, <2>2, <2>3 DEF InvRoom
<1>13. InvNodes'
  BY <1>1, <1>2, <1>3, NodesKept
<1> QED BY <1>8, <1>9, <1>10, <1>11, <1>12, <1>13 DEF InvSlots

-----------------------------------------------------------------------------
(* The rest of append, and the insert into the index                        *)

\* Steps of a handler that has counted: slots and counter stay as they are.
LEMMA CountedStep ==
    ASSUME IInv, NEW h \in Handlers, Step(h), Appended(h),
           /\ pc'[h] \in {"tick", "logged", "done"} \cup CkptSteps
           /\ \A g \in Handlers \ {h} : pc'[g] = pc[g] /\ loaded'[g] = loaded[g]
           /\ UNCHANGED <<slots, mapping, next_lsn, at, racedAppends, racedInserts>>
    PROVE  InvOwners' /\ InvLone' /\ InvRace' /\ InvCovered' /\ InvRoom'
<1>1. ~Enter(h) /\ ~Reload(h)
  BY DEF Enter, Reload, Goes, Appended, CkptSteps
<1>2. Counted' = Counted
  BY DEF Counted, Appended, CkptSteps
<1>3. InvRace' /\ InvCovered' /\ InvRoom'
  <2>1. /\ \A g \in Handlers : pc'[g] = "reload" => pc[g] = "reload"
        /\ \A g \in Handlers : pc'[g] = "bump" => pc[g] = "bump" /\ loaded'[g] = loaded[g]
    BY DEF CkptSteps
  <2> QED BY <1>1, <1>2, <2>1, CounterKept
<1>4. InvOwners'
  BY DEF IInv, InvOwners, Appended, CkptSteps
<1>5. InvLone'
  <2>1. ASSUME NEW g \in Handlers, Lone(g) PROVE LoneRuns(g)' /\ LonePassed(g)'
    <3>1. LoneRuns(g) /\ LonePassed(g)
      BY <2>1 DEF IInv, InvLone
    <3>2. LoneRuns(g)'
      BY <3>1 DEF LoneRuns, Appended, Whole, GrowSteps, StoreSteps, CkptSteps
    <3>3. LonePassed(g)'
      BY <3>1 DEF LonePassed, Appended, StoreSteps, CkptSteps
    <3> QED BY <3>2, <3>3
  <2>2. \A g \in Handlers : Lone(g)' <=> Lone(g)
    BY DEF Lone
  <2> QED BY <2>1, <2>2 DEF InvLone
<1> QED BY <1>3, <1>4, <1>5

LEMMA TailStep ==
    ASSUME IInv, NEW h \in Handlers, LoadAppends(h) \/ CountAppend(h) \/ Checkpoint(h)
    PROVE  InvSlots'
<1>1. /\ pc[h] \in {"since", "tick"} \cup CkptSteps /\ pc'[h] \in {"tick", "logged"} \cup CkptSteps
      /\ \A g \in Handlers \ {h} : pc'[g] = pc[g] /\ loaded'[g] = loaded[g]
      /\ UNCHANGED <<slots, mapping, next_lsn, at, index, acked, racedAppends, racedInserts>>
  <2> USE DEF IInv, TypeOK, Goes, CkptSteps, logVars, history
  <2>1. CASE LoadAppends(h)
    BY <2>1 DEF LoadAppends
  <2>2. CASE CountAppend(h)
    BY <2>2 DEF CountAppend
  <2>3. CASE Checkpoint(h)
    <3>1. CASE CkptLoad(h)
      BY <3>1 DEF CkptLoad
    <3>2. CASE CkptStoreLsn(h)
      BY <3>2 DEF CkptStoreLsn
    <3>3. CASE CkptSum(h)
      BY <3>3 DEF CkptSum
    <3>4. CASE CkptSeal(h)
      BY <3>4 DEF CkptSeal
    <3> QED BY <2>3, <3>1, <3>2, <3>3, <3>4 DEF Checkpoint
  <2> QED BY <2>1, <2>2, <2>3
<1>2. Step(h) /\ Appended(h) /\ ~Enter(h) /\ ~Reload(h) /\ Done' = Done
  BY <1>1 DEF Step, Count, Appended, Enter, Reload, Goes, CkptSteps, Done
<1>3. InvNodes'
  BY <1>1, <1>2, NodesKept
<1> QED BY <1>1, <1>2, <1>3, CountedStep DEF InvSlots

LEMMA IndexInsertStep ==
    ASSUME IInv, NEW h \in Handlers, IndexInsert(h)
    PROVE  InvSlots'
<1>1. /\ pc[h] = "logged" /\ pc'[h] = "done" /\ \A g \in Handlers \ {h} : pc'[g] = pc[g]
      /\ index' = Append(index, h) /\ acked'[h] = Len(index)
      /\ \A g \in Handlers \ {h} : acked'[g] = acked[g]
      /\ UNCHANGED <<slots, mapping, next_lsn, at, loaded, racedAppends, racedInserts>>
  BY DEF IInv, TypeOK, IndexInsert, Goes, logVars, history
<1>2. Step(h) /\ Appended(h) /\ ~Enter(h) /\ ~Reload(h)
  BY <1>1 DEF Step, Appended, Enter, Reload, Goes
<1>3. InvOwners' /\ InvLone' /\ InvRace' /\ InvCovered' /\ InvRoom'
  BY <1>1, <1>2, CountedStep
<1>4. Len(index') = Cardinality(Done')
  <2>1. Done' = Done \cup {h} /\ h \notin Done /\ Done \subseteq Handlers
    BY <1>1 DEF Done
  <2>2. Len(index') = Len(index) + 1
    BY <1>1, AppendProperties DEF IInv, TypeOK
  <2> QED BY <2>1, <2>2, OneMore DEF IInv, InvNodes
<1>5. /\ Racers' = Racers /\ Racers \subseteq Handlers
      /\ \A g \in Handlers : (LoneInsert(g)' <=> LoneInsert(g)) /\ (Placed(g)' <=> Placed(g))
  BY <1>2, StepFrame, RacersSame DEF IInv, Racers
<1>6. ASSUME NEW g \in Handlers, LoneInsert(g), Placed(g)
      PROVE  \/ at'[g].slot = IF pc'[g] = "done" THEN acked'[g] ELSE Len(index')
             \/ RacedFrom(at[g].slot)'
  <2>1. RacedFrom(at[g].slot) => RacedFrom(at[g].slot)'
    BY <1>1, <1>5 DEF RacedFrom
  <2>2. CASE g = h
    BY <1>1, <1>6, <2>1, <2>2 DEF IInv, InvNodes
  <2>3. CASE g # h
    <3>1. h \in InInsert
      BY <1>1 DEF InInsert
    <3>2. g \notin InInsert
      BY <1>6, <2>3, <3>1, LoneByItself DEF IInv
    <3>3. pc[g] = "done"
      BY <1>6, <3>2 DEF IInv, TypeOK, InInsert, Placed
    <3> QED BY <1>1, <1>6, <2>1, <2>3, <3>3 DEF IInv, InvNodes
  <2> QED BY <2>2, <2>3
<1>7. InvNodes'
  BY <1>4, <1>5, <1>6 DEF InvNodes
<1> QED BY <1>3, <1>7 DEF InvSlots

LEMMA KilledStep ==
    ASSUME IInv, NEW h \in Handlers, Killed(h)
    PROVE  InvSlots'
<1>1. UNCHANGED <<slots, mapping, next_lsn, pc, at, loaded, index, acked, racedAppends, racedInserts>>
  BY DEF Killed, logVars, threadVars, history
<1> QED BY <1>1 DEF IInv, InvSlots, InvOwners, InvLone, LoneRuns, LonePassed, InvRace, InvCovered,
       Covered, InvRoom, InvNodes, Racers, RacedFrom, Placed, Lone, LoneInsert, Counted, Done, Appended

-----------------------------------------------------------------------------
(* The theorems                                                             *)

LEMMA IInvInit == Init => IInv
<1> SUFFICES ASSUME Init PROVE IInv
  OBVIOUS
<1> USE RacingAssumption DEF Init
<1>1. Cardinality(Handlers) \in Nat
  BY HandlerSets
<1>2. TypeOK
  <2>1. Blank \in Slot /\ slots \in [Slots -> Slot]
    BY DEF Blank, Slot
  <2>2. hdr \in [ckpt : Nat, crc : Nat] /\ mapping \in [nr : Nat, slots : Nat]
    OBVIOUS
  <2>3. at \in [Handlers -> [nr : Nat, slot : Slots]]
    BY <1>1 DEF Slots
  <2>4. index \in Seq(Handlers)
    OBVIOUS
  <2>5. next_lsn \in 0..Cardinality(Handlers) /\ appends \in 0..Cardinality(Handlers)
    BY <1>1
  <2>6. /\ pc \in [Handlers -> {"idle", "logged", "done"} \cup AppendSteps]
        /\ loaded \in [Handlers -> Nat] /\ acked \in [Handlers -> Nat]
    OBVIOUS
  <2>7. alive \in BOOLEAN /\ racedCheckpoint \in BOOLEAN
    OBVIOUS
  <2> QED BY <2>1, <2>2, <2>3, <2>4, <2>5, <2>6, <2>7 DEF TypeOK, Slot
<1>3. /\ Counted = {} /\ Ticked = {} /\ Done = {} /\ Racers = {} /\ InAppend = {} /\ InInsert = {}
      /\ InCheckpoint = {}
  BY DEF Counted, Ticked, Done, Racers, InAppend, InInsert, InCheckpoint, Appended, Placed,
     AppendSteps, GrowSteps, StoreSteps, CountSteps, CkptSteps
<1>4. Cardinality({}) = 0
  BY FS_EmptySet
<1>5. InvPairs /\ InvCounters /\ InvHeader
  BY <1>3, <1>4 DEF InvPairs, InvCounters, InvHeader
<1>6. InvOwners /\ InvLone
  BY DEF InvOwners, InvLone, LoneRuns, LonePassed, Blank, Appended, GrowSteps, StoreSteps, CkptSteps
<1>7. InvRace /\ InvCovered /\ InvRoom /\ InvNodes
  BY <1>3, <1>4 DEF InvRace, InvCovered, Covered, InvRoom, InvNodes, Placed
<1> QED BY <1>2, <1>5, <1>6, <1>7 DEF IInv

\* The inductive invariant: what the slots, the counter and the index hold, whichever
\* handlers were in append together and however often a stale counter was stored.
THEOREM RacingInductive == Spec => []IInv
<1>1. Init => IInv
  BY IInvInit
<1>2. ASSUME IInv, NEW h \in Handlers, Step(h) PROVE IInv'
  <2>1. TypeOK' /\ InvPairs' /\ InvCounters' /\ InvHeader'
    <3>1. TypeOK'
      BY <1>2, TypeStep DEF IInv, Step
    <3>2. InvPairs' /\ InvCounters' /\ InvHeader'
      BY <1>2, PairsStep, CountersStep, HeaderStep DEF IInv
    <3> QED BY <3>1, <3>2
  <2>2. InvSlots'
    BY <1>2, EnterStep, GrowStep, ReloadStep, StoreStep, KilledStep, LoadNextStep, BumpStep, TailStep,
       IndexInsertStep DEF Step, Count
  <2> QED BY <2>1, <2>2 DEF IInv, InvSlots
<1>3. ASSUME IInv, UNCHANGED vars PROVE IInv'
  <2> USE DEF IInv, vars, logVars, threadVars, history
  <2>1. TypeOK'
    BY <1>3 DEF TypeOK
  <2>2. InvPairs' /\ InvCounters' /\ InvOwners'
    BY <1>3 DEF InvPairs, InvCounters, InvOwners, InAppend, InInsert, Counted, Ticked, Appended
  <2>3. InvLone'
    BY <1>3 DEF InvLone, LoneRuns, LonePassed, Lone, Appended
  <2>4. InvRace' /\ InvCovered' /\ InvRoom' /\ InvNodes'
    BY <1>3 DEF InvRace, InvCovered, Covered, InvRoom, InvNodes, Racers, RacedFrom, Placed, Lone,
       LoneInsert, Counted, Done, Appended
  <2>5. InvHeader'
    BY <1>3 DEF InvHeader, InCheckpoint
  <2> QED BY <2>1, <2>2, <2>3, <2>4, <2>5
<1>4. IInv /\ [Next]_vars => IInv'
  BY <1>2, <1>3 DEF Next, Step
<1> QED BY <1>1, <1>4, PTL DEF Spec

\* RacingInserts!TypeOK for every value of the constants; in particular neither counter
\* gets past the number of handlers.
THEOREM RacingTypeCorrect == Spec => []TypeOK
<1>1. IInv => TypeOK
  BY DEF IInv
<1> QED BY <1>1, RacingInductive, PTL

\* RacingInserts!LoneEntryKept: an entry whose append overlapped with no other is never
\* written over.
THEOREM RacingLoneEntryKept == Spec => []LoneEntryKept
<1>1. IInv => LoneEntryKept
  BY DEF IInv, InvLone, LoneRuns, LoneEntryKept
<1> QED BY <1>1, RacingInductive, PTL

\* RacingInserts!LossNeedsEarlierRace: a replay delivers every acknowledged entry that
\* no race comes before.
THEOREM RacingLossNeedsEarlierRace == Spec => []LossNeedsEarlierRace
<1>1. ASSUME IInv PROVE LossNeedsEarlierRace
  <2> SUFFICES ASSUME NEW h \in Handlers, Acked(h),
                      ~ \E r \in racedAppends : \E g \in r : at[g].slot <= at[h].slot
               PROVE  DeliveredAs(h, at[h].slot)
    BY DEF LossNeedsEarlierRace
  <2>1. at[h].slot \in Nat /\ at[h].slot \in Slots /\ next_lsn \in Nat /\ Appended(h) /\ Placed(h)
    BY <1>1 DEF IInv, TypeOK, Slots, Acked, Appended, Placed
  <2>2. Lone(h)
    BY <2>1 DEF Lone
  <2>3. \A v \in Nat : v <= at[h].slot => ~RacedFrom(v)
    <3>1. SUFFICES ASSUME NEW v \in Nat, v <= at[h].slot, NEW g \in Racers, at[g].slot <= v PROVE FALSE
      BY DEF RacedFrom
    <3>2. PICK r \in racedAppends : g \in r
      BY DEF Racers, Lone
    <3>3. at[g].slot \in Nat
      BY <1>1 DEF IInv, TypeOK, Slots, Racers
    <3> QED BY <2>1, <3>1, <3>2, <3>3
  <2>4. at[h].slot < next_lsn /\ slots[at[h].slot] = Whole(h)
    BY <1>1, <2>1, <2>2 DEF IInv, InvLone, LoneRuns, LonePassed
  <2>5. at[h].slot < mapping.slots
    BY <1>1, <2>1, <2>2, <2>3 DEF IInv, InvRoom
  <2>6. ASSUME NEW j \in 0..at[h].slot PROVE Valid(j)
    <3>1. j \in Nat /\ j < next_lsn /\ j <= at[h].slot
      BY <2>1, <2>4
    <3>2. PICK g \in Counted : Lone(g) /\ at[g].slot = j
      BY <1>1, <2>3, <3>1 DEF IInv, InvCovered, Covered
    <3>3. g \in Handlers /\ slots[j] = Whole(g)
      BY <1>1, <3>2 DEF IInv, InvLone, LoneRuns, Counted
    <3> QED BY <3>3, RacingAssumption DEF Valid, Whole
  <2> QED BY <2>1, <2>4, <2>5, <2>6 DEF DeliveredAs, Reached
<1> QED BY <1>1, RacingInductive, PTL

\* RacingInserts!DeliveredWhole: a replay hands out whole payloads, and under the id of
\* another vector only one whose append overlapped with some other.
THEOREM RacingDeliveredWhole == Spec => []DeliveredWhole
<1>1. ASSUME IInv PROVE DeliveredWhole
  <2> SUFFICES ASSUME NEW k \in Slots, Reached(k)
               PROVE  \E g, h \in Handlers : /\ slots[k].low = h /\ slots[k].high = h
                                             /\ slots[k].vid = g /\ (g = h \/ ~Lone(h))
    BY DEF DeliveredWhole
  <2>1. k \in Nat /\ Cardinality(Handlers) \in Nat
    BY HandlerSets DEF Slots
  <2>2. Valid(k)
    BY <2>1 DEF Reached
  <2>3. PICK h \in Handlers : slots[k].low = h /\ slots[k].high = h
    BY <1>1, <2>2 DEF IInv, TypeOK, Valid
  <2>4. PICK g \in Handlers : slots[k].vid = g
    BY <1>1, <2>2 DEF IInv, InvOwners, Valid
  <2>5. Lone(h) => g = h
    <3>1. at[h].slot = k /\ (Appended(h) \/ pc[h] \in {"load", "bump"})
      BY <1>1, <2>3 DEF IInv, InvOwners
    <3>2. Lone(h) => slots[k] = Whole(h)
      BY <1>1, <3>1 DEF IInv, InvLone, LoneRuns
    <3> QED BY <2>4, <3>2 DEF Whole
  <2> QED BY <2>3, <2>4, <2>5
<1> QED BY <1>1, RacingInductive, PTL

\* RacingInserts!ReplayNumbersNodes: a replay gives a vector the node id that its client
\* was told, unless two inserts overlapped at its entry or before it.
THEOREM RacingReplayNumbersNodes == Spec => []ReplayNumbersNodes
<1>1. ASSUME IInv, LossNeedsEarlierRace PROVE ReplayNumbersNodes
  <2> SUFFICES ASSUME NEW h \in Handlers, Acked(h),
                      ~ \E r \in racedInserts : \E g \in r : at[g].slot <= at[h].slot
               PROVE  DeliveredAs(h, acked[h])
    BY DEF ReplayNumbersNodes
  <2>1. racedAppends \subseteq racedInserts /\ at[h].slot \in Nat
    BY <1>1 DEF IInv, TypeOK, Slots
  <2>2. LoneInsert(h) /\ Placed(h) /\ pc[h] = "done"
    BY <2>1 DEF LoneInsert, Placed, Acked
  <2>3. ~RacedFrom(at[h].slot)
    BY <2>1 DEF RacedFrom, Racers, Lone
  <2>4. acked[h] = at[h].slot
    BY <1>1, <2>2, <2>3 DEF IInv, InvNodes
  <2> QED BY <1>1, <2>1, <2>4 DEF LossNeedsEarlierRace
<1> QED BY <1>1, RacingInductive, RacingLossNeedsEarlierRace, PTL

\* RacingInserts!HeaderSealed: a checkpoint that runs by itself leaves a header that
\* the constructor accepts, whatever racing ones have left before it.
THEOREM RacingHeaderSealed == Spec => []HeaderSealed
<1>1. IInv => HeaderSealed
  BY DEF IInv, InvHeader, HeaderSealed
<1> QED BY <1>1, RacingInductive, PTL
=============================================================================
