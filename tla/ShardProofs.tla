---------------------------- MODULE ShardProofs ----------------------------
(***************************************************************************)
(* Theorems about Shard, for any number of inserts, snapshots, failing     *)
(* writes, inserts that throw and crashes, and every checkpoint interval.                      *)
(*                                                                         *)
(* The properties speak of the files as a start would find them.  IInv     *)
(* says besides what the index holds while the process is up, how far a    *)
(* save has brought the files, and what is left in the log for it.  Most   *)
(* of its parts hold until a certain fault has happened, and each fault    *)
(* breaks no more than it has to.                                          *)
(***************************************************************************)
EXTENDS Shard, SequenceTheorems, TLAPS

\* Every vector whose insert ran beside no snapshot_all is in S.
Keeps(S) == \A r \in acked : r.alone => r.vec \in S

\* Nothing has happened that can take a vector from the index of a running process,
\* and from the files.
IndexSound == faults \cap {"save", "noload", "noreplay", "mismatch"} = {}
FilesSound == faults \cap {"save", "noload", "noreplay", "mismatch", "torn"} = {}

TruncateSteps == {"truncate", "header", "seal"}

\* Where insert and snapshot_all are, and what they know of each other.
InvCalls ==
    /\ up # "up" => wpc = "idle" /\ spc = "idle" /\ "torn" \notin faults
    /\ wpc # "idle" => inserts > 0
    /\ wpc # "idle" /\ ~met => spc = "idle" /\ inserts \in Elements(log)
    /\ wpc # "idle" /\ spc # "idle" => "overlap" \in faults

\* A save has copied a prefix of the index; without an overlap there is no more of it.
InvSave ==
    /\ "mismatch" \in faults => "overlap" \in faults
    /\ spc \in SaveSteps => n <= Len(index) /\ ("overlap" \notin faults => n = Len(index))
    /\ spc \in {"seg", "write"} =>
          /\ seg.there /\ Len(seg.vecs) <= n
          /\ \A k \in 1..Len(seg.vecs) : seg.vecs[k] = index[k]
    /\ spc = "write" => seg.sealed /\ (Len(seg.vecs) = n \/ "mismatch" \in faults)

\* The index keeps what was acknowledged, and so does what a save has to copy of it.
InvIndex ==
    up = "up" /\ IndexSound =>
        /\ Keeps(Elements(index))
        /\ spc \in SaveSteps => Keeps({index[k] : k \in 1..n})

\* The files keep it too, and after a save the segment alone does.
InvDisk ==
    FilesSound =>
        /\ spc \notin SaveSteps => Keeps(Elements(Recovered))
        /\ spc \in TruncateSteps => Loadable /\ Keeps(Elements(seg.vecs))

\* The index has a node for what the log holds, but for an insert under way; what a
\* truncate is about to drop is in the segment.
InvLog ==
    /\ up = "up" /\ faults \cap {"noload", "noreplay"} = {} =>
          \A v \in Elements(log) : \/ v \in Elements(index) \/ Blank(v) \in Elements(index)
                                   \/ v = inserts /\ wpc # "idle"
    /\ spc \in TruncateSteps /\ faults \cap {"overlap", "torn"} = {} =>
          /\ Loadable /\ seg.vecs = index /\ graph.reach = Len(index)
          /\ spc # "truncate" => log = <<>>

\* The vectors by node id, as clients see them or as a start will bring them back.
Nodes == IF up = "up" THEN index ELSE Recovered

\* As long as nothing has gone wrong the files give back the index.
InvFiles ==
    faults = {} =>
        /\ up = "up" /\ spc = "idle" =>
              GivesBack(Recovered, IF wpc = "idle" THEN index ELSE Append(index, inserts))
        /\ spc \notin SaveSteps /\ Loadable => graph.reach <= Len(seg.vecs)

\* Vectors are in the order of their inserts, each under the node id that its client
\* got; a save that fails does not disturb that.
InvNodes ==
    faults \subseteq {"torn"} =>
        /\ \A r \in acked : r.node < Len(Nodes) /\ Nodes[r.node + 1] = r.vec
        /\ \A j, k \in DOMAIN Nodes : j < k => Sent(Nodes[j]) < Sent(Nodes[k])
        /\ \A k \in DOMAIN Nodes : /\ Sent(Nodes[k]) <= inserts
                                   /\ wpc # "idle" => Sent(Nodes[k]) < inserts

IInv == TypeOK /\ InvCalls /\ InvSave /\ InvIndex /\ InvDisk /\ InvLog
        /\ InvFiles /\ InvNodes

-----------------------------------------------------------------------------
(* Sequences                                                                *)

LEMMA ElementsAppend ==
    ASSUME NEW S, NEW s \in Seq(S), NEW e \in S
    PROVE  Elements(Append(s, e)) = Elements(s) \cup {e}
<1>1. Len(s) \in Nat /\ Len(Append(s, e)) = Len(s) + 1 /\ Append(s, e)[Len(s) + 1] = e
      /\ \A k \in 1..Len(s) : Append(s, e)[k] = s[k]
  BY AppendProperties, LenProperties
<1>2. DOMAIN s = 1..Len(s) /\ DOMAIN Append(s, e) = 1..(Len(s) + 1)
  BY AppendProperties, LenProperties
<1> QED BY <1>1, <1>2 DEF Elements

LEMMA ElementsConcat ==
    ASSUME NEW S, NEW s \in Seq(S), NEW t \in Seq(S)
    PROVE  Elements(s \o t) = Elements(s) \cup Elements(t)
<1> DEFINE c == s \o t
<1>1. Len(s) \in Nat /\ Len(t) \in Nat /\ Len(c) = Len(s) + Len(t)
      /\ \A k \in 1..(Len(s) + Len(t)) : c[k] = IF k <= Len(s) THEN s[k] ELSE t[k - Len(s)]
  BY ConcatProperties, LenProperties
<1>2. DOMAIN s = 1..Len(s) /\ DOMAIN t = 1..Len(t) /\ DOMAIN c = 1..(Len(s) + Len(t))
  BY ConcatProperties, LenProperties
<1> HIDE DEF c
<1>3. Elements(c) \subseteq Elements(s) \cup Elements(t)
  BY <1>1, <1>2 DEF Elements
<1>4. Elements(s) \subseteq Elements(c)
  BY <1>1, <1>2 DEF Elements
<1>5. ASSUME NEW k \in 1..Len(t) PROVE t[k] \in Elements(c)
  <2>1. Len(s) + k \in 1..(Len(s) + Len(t)) /\ c[Len(s) + k] = t[k]
    BY <1>1
  <2> QED BY <1>2, <2>1 DEF Elements
<1>6. Elements(t) \subseteq Elements(c)
  BY <1>2, <1>5 DEF Elements
<1> QED BY <1>3, <1>4, <1>6 DEF c

LEMMA AppendToConcat ==
    ASSUME NEW S, NEW s \in Seq(S), NEW t \in Seq(S), NEW e \in S
    PROVE  s \o Append(t, e) = Append(s \o t, e)
<1>1. <<e>> \in Seq(S) /\ s \o t \in Seq(S)
  BY ConcatProperties
<1>2. Append(t, e) = t \o <<e>> /\ Append(s \o t, e) = (s \o t) \o <<e>>
  BY <1>1, AppendIsConcat
<1> QED BY <1>1, <1>2, ConcatAssociative

\* A sequence that has the length of another one and agrees with it is that one.
LEMMA PrefixOfAll ==
    ASSUME NEW S, NEW s \in Seq(S), NEW t \in Seq(S), Len(s) = Len(t),
           \A k \in 1..Len(s) : s[k] = t[k]
    PROVE  s = t
BY SeqEqual

\* A node holds the vector it was made for, or something else.
LEMMA HeldFacts ==
    /\ \A v \in Vectors : v \in Nat /\ v \in Held /\ Blank(v) \in Held /\ Sent(v) = v /\ Sent(Blank(v)) = v
    /\ \A x \in Held : Sent(x) \in Vectors /\ (x \in Vectors \/ x = Blank(Sent(x)))
    /\ \A s \in Seq(Vectors) : s \in Seq(Held)
<1>1. \A v \in Vectors : v \in Nat /\ v > 0 /\ v \in Held /\ Blank(v) \in Held
  BY ShardAssumption DEF Vectors, Held
<1>2. \A v \in Vectors : Sent(v) = v /\ Sent(Blank(v)) = v
  BY <1>1 DEF Sent, Blank
<1>3. ASSUME NEW x \in Held PROVE Sent(x) \in Vectors /\ (x \in Vectors \/ x = Blank(Sent(x)))
  <2>1. CASE x \in Vectors
    BY <1>2, <2>1
  <2>2. CASE x \notin Vectors
    <3>1. PICK v \in Vectors : x = Blank(v)
      BY <1>3, <2>2 DEF Held
    <3> QED BY <1>2, <3>1
  <2> QED BY <2>1, <2>2
<1>4. ASSUME NEW s \in Seq(Vectors) PROVE s \in Seq(Held)
  <2>1. Vectors \subseteq Held
    BY <1>1
  <2> QED BY <2>1
<1> QED BY <1>1, <1>2, <1>3, <1>4

LEMMA GivesBackSelf == \A s : GivesBack(s, s)
BY DEF GivesBack

\* Both grow by an insert.
LEMMA GivesBackAppend ==
    ASSUME NEW found \in Seq(Held), NEW held \in Seq(Held), NEW v \in Held, GivesBack(found, held)
    PROVE  GivesBack(Append(found, v), Append(held, v))
<1>1. /\ Len(held) \in Nat /\ Len(found) = Len(held) /\ DOMAIN held = 1..Len(held)
      /\ \A k \in 1..Len(held) : found[k] \in {held[k], Sent(held[k])}
  BY LenProperties DEF GivesBack
<1>2. /\ Len(Append(held, v)) = Len(held) + 1 /\ Len(Append(found, v)) = Len(held) + 1
      /\ DOMAIN Append(held, v) = 1..(Len(held) + 1)
      /\ Append(held, v)[Len(held) + 1] = v /\ Append(found, v)[Len(held) + 1] = v
      /\ \A k \in 1..Len(held) : Append(held, v)[k] = held[k] /\ Append(found, v)[k] = found[k]
  BY <1>1, AppendProperties, LenProperties
<1> QED BY <1>1, <1>2 DEF GivesBack

\* The file has the vector; the node was made for it, whatever it holds.
LEMMA GivesBackWhatWasSent ==
    ASSUME NEW found \in Seq(Held), NEW held \in Seq(Held), NEW v \in Vectors, NEW x \in {v, Blank(v)},
           GivesBack(found, Append(held, v))
    PROVE  GivesBack(found, Append(held, x))
<1>1. v \in Held /\ x \in Held /\ Sent(v) = v /\ Sent(x) = v
  BY HeldFacts
<1>2. /\ Len(held) \in Nat
      /\ Len(Append(held, v)) = Len(held) + 1 /\ Len(Append(held, x)) = Len(held) + 1
      /\ DOMAIN Append(held, v) = 1..(Len(held) + 1) /\ DOMAIN Append(held, x) = 1..(Len(held) + 1)
      /\ Append(held, v)[Len(held) + 1] = v /\ Append(held, x)[Len(held) + 1] = x
      /\ \A k \in 1..Len(held) : Append(held, v)[k] = held[k] /\ Append(held, x)[k] = held[k]
  BY <1>1, AppendProperties, LenProperties
<1>3. ASSUME NEW k \in 1..(Len(held) + 1)
      PROVE  found[k] \in {Append(held, x)[k], Sent(Append(held, x)[k])}
  <2>1. found[k] \in {Append(held, v)[k], Sent(Append(held, v)[k])}
    BY <1>2 DEF GivesBack
  <2> QED BY <1>1, <1>2, <2>1
<1> QED BY <1>2, <1>3 DEF GivesBack

\* What a start brings back is the snapshot's vectors, if it has any, and the log's.
Saved == IF Loadable THEN seg.vecs ELSE <<>>

RecoveredOk ==
    TypeOK => /\ Saved \in Seq(Held) /\ Recovered \in Seq(Held) /\ Recovered = Saved \o log
              /\ Elements(Recovered) = (IF Loadable THEN Elements(seg.vecs) ELSE {}) \cup Elements(log)

LEMMA RecoveredNow == RecoveredOk
<1> SUFFICES ASSUME TypeOK
             PROVE  /\ Saved \in Seq(Held) /\ Recovered \in Seq(Held) /\ Recovered = Saved \o log
                    /\ Elements(Recovered) = (IF Loadable THEN Elements(seg.vecs) ELSE {}) \cup Elements(log)
  BY DEF RecoveredOk
<1>1. log \in Seq(Held) /\ seg.vecs \in Seq(Held) /\ <<>> \in Seq(Held)
  BY HeldFacts DEF TypeOK
<1>2. Saved \in Seq(Held) /\ Elements(Saved) = IF Loadable THEN Elements(seg.vecs) ELSE {}
  <2>1. Elements(<<>>) = {}
    BY DEF Elements
  <2> QED BY <1>1, <2>1 DEF Saved
<1>3. Recovered = Saved \o log
  BY DEF Recovered, Saved
<1>4. Recovered \in Seq(Held) /\ Elements(Recovered) = Elements(Saved) \cup Elements(log)
  BY <1>1, <1>2, <1>3, ElementsConcat, ConcatProperties
<1> QED BY <1>2, <1>3, <1>4

LEMMA RecoveredNext == RecoveredOk'
BY RecoveredNow, PTL

-----------------------------------------------------------------------------
(* insert                                                                   *)

LEMMA InsertLogStep == ASSUME IInv, InsertLog PROVE IInv'
<1> USE ShardAssumption DEF IInv, InsertLog
<1> DEFINE v == inserts + 1
<1>1. v \in Vectors /\ log \in Seq(Vectors) /\ index \in Seq(Held) /\ Len(log) \in Nat
  BY DEF TypeOK, Vectors
<1>2. log' \in Seq(Vectors) /\ Elements(log') = Elements(log) \cup {v}
  BY <1>1, ElementsAppend, AppendProperties
<1>3. TypeOK'
  <2>1. ckpt' \in Nat /\ appends' \in Nat /\ wpc' \in {"idle", "ckpt", "seal", "logged"}
    BY <1>1 DEF TypeOK
  <2>2. inserts' \in 0..MaxInserts /\ met' \in BOOLEAN /\ faults' \subseteq Faults
    BY DEF TypeOK, Faults
  <2> QED BY <1>2, <2>1, <2>2 DEF TypeOK, files, counts
<1>4. UNCHANGED <<seg, graph, up, index, spc, n, acked>> /\ wpc = "idle" /\ up = "up" /\ wpc' # "idle"
      /\ inserts' = v /\ faults \subseteq faults' /\ faults' \subseteq faults \cup {"overlap"}
      /\ (spc # "idle" => "overlap" \in faults')
  OBVIOUS
<1>5. InvCalls' /\ InvSave'
  <2>1. v > 0
    BY DEF TypeOK
  <2>2. InvCalls'
    BY <1>2, <1>4, <2>1 DEF InvCalls
  <2>3. InvSave'
    BY <1>4 DEF InvSave, SaveSteps
  <2> QED BY <2>2, <2>3
<1>6. InvIndex'
  BY <1>4 DEF InvIndex, IndexSound, Keeps
<1>7. Loadable' = Loadable
  BY <1>4 DEF Loadable, GraphParses, SegmentOpens
<1>8. InvDisk'
  <2>1. Elements(Recovered) \subseteq Elements(Recovered)'
    <3>1. Elements(log)' = Elements(log') /\ Elements(seg.vecs)' = Elements(seg.vecs)
      BY <1>4 DEF Elements
    <3> QED BY <1>2, <1>3, <1>7, <3>1, RecoveredNow, RecoveredNext DEF RecoveredOk
  <2> QED BY <1>4, <1>7, <2>1 DEF InvDisk, FilesSound, Keeps
<1>9. InvLog'
  <2>1. Elements(log)' = Elements(log) \cup {v} /\ Elements(index)' = Elements(index)
    BY <1>2, <1>4 DEF Elements
  <2> HIDE DEF InsertLog
  <2> QED BY <1>4, <1>7, <2>1 DEF InvLog, TruncateSteps
<1>10. InvFiles'
  <2>1. CASE faults' = {}
    <3>1. faults = {} /\ spc = "idle"
      BY <1>4, <2>1
    <3>2. Recovered' = Append(Recovered, v)
      <4>1. Saved' = Saved /\ Saved \in Seq(Held)
        BY <1>4, <1>7, RecoveredNow DEF Saved, RecoveredOk
      <4>2. Recovered' = Saved \o Append(log, v) /\ Recovered = Saved \o log
        BY <1>3, <4>1, RecoveredNow, RecoveredNext DEF RecoveredOk
      <4>3. log \in Seq(Held) /\ v \in Held
        BY <1>1, HeldFacts
      <4> QED BY <4>1, <4>2, <4>3, AppendToConcat
    <3>3. up = "up" => GivesBack(Append(Recovered, v), Append(index, v))
      <4>1. Recovered \in Seq(Held) /\ v \in Held
        BY <1>1, HeldFacts, RecoveredNow DEF RecoveredOk
      <4>2. up = "up" => GivesBack(Recovered, index)
        BY <1>4, <3>1 DEF InvFiles
      <4> QED BY <1>1, <4>1, <4>2, GivesBackAppend
    <3> QED BY <1>4, <1>7, <2>1, <3>1, <3>2, <3>3 DEF InvFiles
  <2>2. CASE faults' # {}
    BY <2>2 DEF InvFiles
  <2> QED BY <2>1, <2>2
<1>11. InvNodes'
  <2>1. Nodes' = index /\ Nodes = index
    BY <1>4 DEF Nodes
  <2>2. \A k \in DOMAIN index : Sent(index[k]) \in Nat /\ inserts \in Nat
    BY <1>1, HeldFacts, ElementOfSeq, LenProperties DEF TypeOK
  <2> QED BY <1>4, <2>1, <2>2 DEF InvNodes
<1> QED BY <1>3, <1>5, <1>6, <1>8, <1>9, <1>10, <1>11

\* The checkpoint of append only writes the header.
LEMMA InsertHeaderStep == ASSUME IInv, InsertCheckpoint \/ InsertSeal PROVE IInv'
<1>1. /\ UNCHANGED <<log, seg, graph, up, index, spc, n, inserts, met, acked, faults>>
      /\ wpc # "idle" /\ wpc' # "idle"
  BY DEF InsertCheckpoint, InsertSeal
<1>2. TypeOK'
  <2>1. hdr' \in [ckpt : Nat, sealed : BOOLEAN]
    <3>1. CASE InsertCheckpoint
      BY <3>1 DEF IInv, TypeOK, InsertCheckpoint
    <3>2. CASE InsertSeal
      BY <3>2 DEF IInv, TypeOK, InsertSeal
    <3> QED BY <3>1, <3>2
  <2>2. UNCHANGED <<ckpt, appends, snapshots, crashes, failures>> /\ wpc' \in {"seal", "logged"}
    BY DEF InsertCheckpoint, InsertSeal, counts
  <2> QED BY <1>1, <2>1, <2>2 DEF IInv, TypeOK
<1>3. Loadable' = Loadable /\ Recovered' = Recovered /\ Nodes' = Nodes
  BY <1>1 DEF Loadable, GraphParses, SegmentOpens, Recovered, Nodes
<1>4. InvCalls' /\ InvSave' /\ InvIndex' /\ InvLog'
  BY <1>1, <1>3 DEF IInv, InvCalls, InvSave, InvIndex, InvLog, Elements, IndexSound, Keeps
<1>5. InvDisk' /\ InvFiles' /\ InvNodes'
  BY <1>1, <1>3 DEF IInv, InvDisk, InvFiles, InvNodes, FilesSound, Keeps, Elements
<1> QED BY <1>2, <1>4, <1>5 DEF IInv

\* The end of insert: the last node is its vector's, which it holds if insert returns;
\* the vector is in the log if insert ran alone.
LEMMA InsertIndexStep == ASSUME IInv, InsertIndex \/ InsertIndexThrows PROVE IInv'
<1> USE ShardAssumption
<1> DEFINE new == [vec |-> inserts, node |-> Len(index), alone |-> ~met]
<1>0. PICK held \in {inserts, Blank(inserts)}, fresh \in {{}, {new}} :
         /\ index' = Append(index, held) /\ acked' = acked \cup fresh
         /\ fresh # {} => held = inserts
         /\ failures' \in 0..MaxFailures
  <2>1. CASE InsertIndex
    BY <2>1 DEF InsertIndex, counts, IInv, TypeOK
  <2>2. CASE InsertIndexThrows
    BY <2>2 DEF InsertIndexThrows, IInv, TypeOK
  <2> QED BY <2>1, <2>2
<1>1. /\ UNCHANGED <<log, hdr, seg, graph, ckpt, appends, spc, n, inserts, met, snapshots, crashes, faults>>
      /\ wpc = "logged" /\ wpc' = "idle" /\ up = "up" /\ up' = "up"
  BY DEF InsertIndex, InsertIndexThrows, IInv, InvCalls, files, counts
<1>2. /\ inserts \in Vectors /\ inserts \in Nat /\ index \in Seq(Held) /\ Len(index) \in Nat
      /\ held \in Held /\ Sent(held) = inserts
  <2>1. inserts \in Vectors /\ inserts \in Nat /\ index \in Seq(Held)
    BY <1>1 DEF IInv, TypeOK, InvCalls, Vectors
  <2> QED BY <2>1, HeldFacts
<1>3. /\ index' \in Seq(Held) /\ Elements(index') = Elements(index) \cup {held}
      /\ Len(index') = Len(index) + 1 /\ index'[Len(index) + 1] = held
      /\ \A k \in 1..Len(index) : index'[k] = index[k]
      /\ DOMAIN index = 1..Len(index) /\ DOMAIN index' = 1..(Len(index) + 1)
  BY <1>0, <1>2, ElementsAppend, AppendProperties, LenProperties
<1>4. TypeOK'
  <2>1. met \in BOOLEAN
    BY DEF IInv, TypeOK
  <2>2. new \in [vec : Vectors, node : Nat, alone : BOOLEAN]
    BY <1>2, <2>1
  <2>3. acked' \subseteq [vec : Vectors, node : Nat, alone : BOOLEAN]
    BY <1>0, <2>2 DEF IInv, TypeOK
  <2> QED BY <1>0, <1>1, <1>3, <2>3 DEF IInv, TypeOK
<1>5. Loadable' = Loadable /\ Recovered' = Recovered
  BY <1>1 DEF Loadable, GraphParses, SegmentOpens, Recovered
<1>6. InvCalls'
  BY <1>1 DEF IInv, InvCalls
<1>7. \A r \in fresh : r.vec = held /\ r.vec = inserts /\ r.node = Len(index) /\ r.alone = ~met
  <2>1. new.vec = inserts /\ new.node = Len(index) /\ new.alone = ~met
    OBVIOUS
  <2> HIDE DEF new
  <2> QED BY <1>0, <2>1
<1>8. /\ spc # "idle" => "overlap" \in faults /\ \A r \in fresh : ~r.alone
      /\ \A r \in fresh : r.alone => r.vec \in Elements(log)
  <2>1. spc # "idle" => "overlap" \in faults /\ met
    BY <1>1 DEF IInv, InvCalls
  <2>2. ~met => inserts \in Elements(log)
    BY <1>1 DEF IInv, InvCalls
  <2>3. met \in BOOLEAN
    BY DEF IInv, TypeOK
  <2> HIDE DEF new
  <2> QED BY <1>7, <2>1, <2>2, <2>3
<1>9. InvSave'
  <2>1. spc \in SaveSteps => n \in Nat /\ n <= Len(index) + 1
    BY <1>2 DEF IInv, InvSave, TypeOK
  <2>2. spc \in {"seg", "write"} => seg.there /\ Len(seg.vecs) <= n
                                    /\ \A k \in 1..Len(seg.vecs) : seg.vecs[k] = index'[k]
    <3>1. ASSUME spc \in {"seg", "write"}, NEW k \in 1..Len(seg.vecs) PROVE k \in 1..Len(index)
      <4>1. Len(seg.vecs) \in Nat /\ n \in Nat /\ Len(seg.vecs) <= n /\ n <= Len(index)
        BY <3>1 DEF IInv, InvSave, TypeOK, SaveSteps
      <4> QED BY <1>2, <3>1, <4>1
    <3> QED BY <1>3, <3>1 DEF IInv, InvSave
  <2> QED BY <1>1, <1>3, <1>8, <2>1, <2>2 DEF IInv, InvSave, SaveSteps
<1>10. InvIndex'
  <2>1. Elements(index)' = Elements(index) \cup {held}
    BY <1>3 DEF Elements
  <2>2. spc \in SaveSteps => {index[k] : k \in 1..n} \subseteq {index'[k] : k \in 1..n}
    <3>1. ASSUME spc \in SaveSteps, NEW k \in 1..n PROVE index'[k] = index[k]
      <4>1. n \in Nat /\ n <= Len(index)
        BY <3>1 DEF IInv, InvSave, TypeOK
      <4> QED BY <1>2, <1>3, <3>1, <4>1
    <3> QED BY <3>1
  <2>3. ASSUME up = "up", IndexSound
        PROVE  /\ \A r \in acked \cup fresh : r.alone => r.vec \in Elements(index) \cup {held}
               /\ spc \in SaveSteps =>
                     \A r \in acked \cup fresh : r.alone => r.vec \in {index[k] : k \in 1..n}
    BY <1>1, <1>7, <1>8, <2>3 DEF IInv, InvIndex, Keeps, SaveSteps
  <2> QED BY <1>0, <1>1, <2>1, <2>2, <2>3 DEF InvIndex, Keeps, IndexSound
<1>11. InvDisk'
  <2>1. Elements(Recovered)' = Elements(Recovered) /\ Elements(seg.vecs)' = Elements(seg.vecs)
    BY <1>1, <1>5 DEF Elements
  <2>2. Elements(log) \subseteq Elements(Recovered)
    BY RecoveredNow DEF RecoveredOk, IInv
  <2>3. ASSUME FilesSound
        PROVE  /\ spc \notin SaveSteps =>
                     \A r \in acked \cup fresh : r.alone => r.vec \in Elements(Recovered)
               /\ spc \in TruncateSteps => Loadable /\
                     \A r \in acked \cup fresh : r.alone => r.vec \in Elements(seg.vecs)
    <3>1. /\ spc \notin SaveSteps => \A r \in acked : r.alone => r.vec \in Elements(Recovered)
          /\ spc \in TruncateSteps => Loadable /\ spc # "idle"
                                      /\ \A r \in acked : r.alone => r.vec \in Elements(seg.vecs)
      BY <2>3 DEF IInv, InvDisk, Keeps, TruncateSteps
    <3> QED BY <1>7, <1>8, <2>2, <3>1
  <2> QED BY <1>0, <1>1, <1>5, <2>1, <2>3 DEF InvDisk, Keeps, FilesSound
<1>12. InvLog'
  <2>1. Elements(index)' = Elements(index) \cup {held} /\ Elements(log)' = Elements(log)
    BY <1>1, <1>3 DEF Elements
  <2>2. faults \cap {"noload", "noreplay"} = {} =>
          \A v \in Elements(log) : \/ v \in Elements(index) \cup {held}
                                   \/ Blank(v) \in Elements(index) \cup {held}
    BY <1>1 DEF IInv, InvLog
  <2>3. spc \in TruncateSteps => "overlap" \in faults
    BY <1>8 DEF TruncateSteps
  <2> QED BY <1>1, <2>1, <2>2, <2>3 DEF InvLog
<1>13. InvFiles'
  <2>1. ASSUME faults = {}, spc = "idle" PROVE GivesBack(Recovered, index')
    <3>1. GivesBack(Recovered, Append(index, inserts)) /\ Recovered \in Seq(Held)
      BY <1>1, <2>1, RecoveredNow DEF IInv, InvFiles, RecoveredOk
    <3> QED BY <1>0, <1>2, <3>1, GivesBackWhatWasSent
  <2> QED BY <1>1, <1>5, <1>8, <2>1 DEF IInv, InvFiles
<1>14. InvNodes'
  <2>1. Nodes' = index' /\ Nodes = index
    BY <1>1 DEF Nodes
  <2>2. ASSUME faults \subseteq {"torn"}
        PROVE  /\ \A r \in acked \cup fresh : r.node < Len(index) + 1 /\ index'[r.node + 1] = r.vec
               /\ \A j, k \in 1..(Len(index) + 1) : j < k => Sent(index'[j]) < Sent(index'[k])
               /\ \A k \in 1..(Len(index) + 1) : Sent(index'[k]) <= inserts
    <3>1. \A r \in acked : r.node \in Nat /\ r.node < Len(index) /\ index[r.node + 1] = r.vec
      BY <2>1, <2>2 DEF IInv, InvNodes, TypeOK
    <3>2. \A r \in acked : r.node + 1 \in 1..Len(index)
      BY <1>2, <3>1
    <3>3. \A r \in fresh : r.node < Len(index) + 1 /\ index'[r.node + 1] = r.vec
      BY <1>2, <1>3, <1>7
    <3>4. \A r \in acked \cup fresh : r.node < Len(index) + 1 /\ index'[r.node + 1] = r.vec
      BY <1>2, <1>3, <3>1, <3>2, <3>3
    <3>5. \A k \in 1..Len(index) : Sent(index[k]) < inserts /\ Sent(index[k]) \in Nat
      BY <1>1, <1>2, <1>3, <2>1, <2>2, ElementOfSeq, HeldFacts DEF IInv, InvNodes
    <3>6. \A j, k \in 1..Len(index) : j < k => Sent(index[j]) < Sent(index[k])
      BY <1>3, <2>1, <2>2 DEF IInv, InvNodes
    <3>7. \A j, k \in 1..(Len(index) + 1) : j < k => Sent(index'[j]) < Sent(index'[k])
      BY <1>2, <1>3, <3>5, <3>6
    <3> QED BY <1>2, <1>3, <3>4, <3>5, <3>7
  <2> QED BY <1>0, <1>1, <1>3, <2>1, <2>2 DEF InvNodes
<1> QED BY <1>4, <1>6, <1>9, <1>10, <1>11, <1>12, <1>13, <1>14 DEF IInv

-----------------------------------------------------------------------------
(* snapshot_all                                                             *)

\* What no step of snapshot_all touches.
SnapshotFrame == UNCHANGED <<up, index, wpc, inserts, crashes, acked>>

LEMMA SnapshotKeeps ==
    ASSUME IInv, Snapshot
    PROVE  SnapshotFrame /\ up = "up" /\ Nodes' = Nodes
<1>1. SnapshotFrame
  BY DEF Snapshot, RemoveSegment, CreateSegment, SealSegment, AppendSegment, OpenGraph, WriteGraph,
     SaveThrows, CloseFails, TruncateReturns, TruncateLog, TruncateHeader, TruncateSeal, counts, SnapshotFrame
<1>2. up = "up"
  BY DEF Snapshot, RemoveSegment, CreateSegment, SealSegment, AppendSegment, OpenGraph, WriteGraph,
     SaveThrows, CloseFails, TruncateReturns, TruncateLog, TruncateHeader, TruncateSeal, SaveSteps,
     IInv, InvCalls
<1> QED BY <1>1, <1>2 DEF Nodes, SnapshotFrame

LEMMA RemoveSegmentStep == ASSUME IInv, RemoveSegment PROVE IInv'
<1> USE ShardAssumption
<1>1. SnapshotFrame /\ up = "up" /\ Nodes' = Nodes
  BY SnapshotKeeps DEF Snapshot
<1>2. /\ log' = log /\ graph' = graph /\ spc = "idle" /\ spc' = "create" /\ n' = Len(index)
      /\ met' = (met \/ wpc # "idle")
      /\ faults \subseteq faults' /\ faults' \subseteq faults \cup {"overlap"}
      /\ (wpc # "idle" => "overlap" \in faults')
  BY DEF RemoveSegment, Meets
<1>3. TypeOK'
  <2>1. seg' \in [there : BOOLEAN, sealed : BOOLEAN, vecs : Seq(Held)] /\ n' \in Nat
    BY <1>2 DEF RemoveSegment, NoSegment, IInv, TypeOK
  <2>2. snapshots' \in 0..MaxSnapshots /\ met' \in BOOLEAN /\ faults' \subseteq Faults
    BY <1>2 DEF RemoveSegment, IInv, TypeOK, Faults
  <2> QED BY <1>1, <1>2, <2>1, <2>2 DEF IInv, TypeOK, RemoveSegment, SnapshotFrame, SnapshotSteps, SaveSteps
<1>4. InvCalls' /\ InvSave'
  <2>1. wpc # "idle" => met'
    BY <1>2, Zenon
  <2>2. InvCalls'
    <3>1. UNCHANGED <<up, wpc, inserts>>
      BY <1>1 DEF SnapshotFrame
    <3> QED BY <1>1, <1>2, <2>1, <3>1 DEF IInv, InvCalls
  <2>3. InvSave'
    BY <1>1, <1>2 DEF IInv, InvSave, SnapshotFrame, SaveSteps, TypeOK
  <2> QED BY <2>2, <2>3
<1>5. InvIndex'
  <2>1. {index[k] : k \in 1..Len(index)} = Elements(index) /\ Elements(index)' = Elements(index)
    BY <1>1 DEF IInv, TypeOK, Elements, SnapshotFrame
  <2> QED BY <1>1, <1>2, <2>1 DEF IInv, InvIndex, IndexSound, Keeps, SnapshotFrame
<1>6. InvDisk' /\ InvFiles'
  BY <1>2 DEF InvDisk, InvFiles, SaveSteps, TruncateSteps
<1>7. InvLog' /\ InvNodes'
  BY <1>1, <1>2 DEF IInv, InvLog, InvNodes, SnapshotFrame, Elements, TruncateSteps
<1> QED BY <1>3, <1>4, <1>5, <1>6, <1>7 DEF IInv

\* The steps that write the segment.
LEMMA SegmentStep ==
    ASSUME IInv, CreateSegment \/ SealSegment \/ AppendSegment
    PROVE  IInv'
<1> USE ShardAssumption
<1>1. SnapshotFrame /\ up = "up" /\ Nodes' = Nodes
  BY SnapshotKeeps DEF Snapshot
<1>2. /\ UNCHANGED <<log, hdr, graph, ckpt, appends, n, met, snapshots, failures, faults>>
      /\ spc \in {"create", "seg"} /\ spc' = "seg"
  BY DEF CreateSegment, SealSegment, AppendSegment, counts
<1>3. index \in Seq(Held) /\ Len(index) \in Nat /\ n \in Nat /\ n <= Len(index)
      /\ seg.vecs \in Seq(Held) /\ Len(seg.vecs) \in Nat
      /\ seg \in [there : BOOLEAN, sealed : BOOLEAN, vecs : Seq(Held)]
  BY <1>2 DEF IInv, TypeOK, InvSave, SaveSteps
<1>4. /\ seg' \in [there : BOOLEAN, sealed : BOOLEAN, vecs : Seq(Held)]
      /\ seg'.there /\ Len(seg'.vecs) <= n
      /\ \A k \in 1..Len(seg'.vecs) : seg'.vecs[k] = index[k]
  <2>1. CASE CreateSegment
    BY <1>3, <2>1 DEF CreateSegment
  <2>2. CASE SealSegment
    <3>1. spc = "seg" /\ seg' = [seg EXCEPT !.sealed = TRUE]
      BY <2>2 DEF SealSegment
    <3> QED BY <1>3, <3>1 DEF IInv, InvSave
  <2>3. CASE AppendSegment
    <3>1. /\ spc = "seg" /\ seg.sealed /\ Len(seg.vecs) < n /\ seg.there
          /\ \A k \in 1..Len(seg.vecs) : seg.vecs[k] = index[k]
      BY <2>3 DEF AppendSegment, IInv, InvSave
    <3> DEFINE e == index[Len(seg.vecs) + 1]
    <3>2. e \in Held
      BY <1>3, <3>1, ElementOfSeq
    <3>3. /\ Append(seg.vecs, e) \in Seq(Held) /\ Len(Append(seg.vecs, e)) = Len(seg.vecs) + 1
          /\ \A k \in 1..Len(seg.vecs) : Append(seg.vecs, e)[k] = seg.vecs[k]
          /\ Append(seg.vecs, e)[Len(seg.vecs) + 1] = e
      BY <1>3, <3>2, AppendProperties
    <3>4. seg' = [seg EXCEPT !.sealed = FALSE, !.vecs = Append(seg.vecs, e)]
      BY <2>3 DEF AppendSegment
    <3>5. seg'.vecs = Append(seg.vecs, e) /\ seg'.there = seg.there
          /\ seg' \in [there : BOOLEAN, sealed : BOOLEAN, vecs : Seq(Held)]
      <4> HIDE DEF e
      <4> QED BY <1>3, <3>3, <3>4
    <3>6. ASSUME NEW k \in 1..(Len(seg.vecs) + 1) PROVE Append(seg.vecs, e)[k] = index[k]
      BY <1>3, <3>1, <3>3
    <3> QED BY <1>3, <3>1, <3>3, <3>5, <3>6
  <2> QED BY <2>1, <2>2, <2>3
<1>5. TypeOK'
  BY <1>1, <1>2, <1>4 DEF IInv, TypeOK, SnapshotFrame, SnapshotSteps, SaveSteps
<1>6. InvCalls' /\ InvSave'
  BY <1>1, <1>2, <1>3, <1>4 DEF IInv, InvCalls, InvSave, SnapshotFrame, SaveSteps
<1>7. InvIndex' /\ InvDisk' /\ InvFiles'
  BY <1>1, <1>2 DEF IInv, InvIndex, InvDisk, InvFiles, IndexSound, Keeps, SnapshotFrame, SaveSteps,
     TruncateSteps, Elements
<1>8. InvLog' /\ InvNodes'
  BY <1>1, <1>2 DEF IInv, InvLog, InvNodes, SnapshotFrame, Elements, TruncateSteps
<1> QED BY <1>5, <1>6, <1>7, <1>8 DEF IInv

LEMMA OpenGraphStep == ASSUME IInv, OpenGraph PROVE IInv'
<1> USE ShardAssumption
<1>1. SnapshotFrame /\ up = "up" /\ Nodes' = Nodes
  BY SnapshotKeeps DEF Snapshot
<1>2. /\ UNCHANGED <<log, hdr, seg, ckpt, appends, met, snapshots, failures>>
      /\ spc = "seg" /\ spc' = "write" /\ seg.sealed /\ Len(seg.vecs) = n /\ n' = Len(index)
      /\ faults' = faults \cup (IF Len(index) # n THEN {"mismatch"} ELSE {})
  BY DEF OpenGraph, counts
<1>3. n \in Nat /\ Len(index) \in Nat /\ n <= Len(index)
      /\ ("overlap" \notin faults => n = Len(index))
  BY <1>2 DEF IInv, TypeOK, InvSave, SaveSteps
<1>4. TypeOK'
  <2>1. graph' \in [there : BOOLEAN, whole : BOOLEAN, count : Nat, reach : Nat]
    BY DEF OpenGraph, NoGraph
  <2> QED BY <1>1, <1>2, <1>3, <2>1 DEF IInv, TypeOK, SnapshotFrame, SnapshotSteps, SaveSteps, Faults
<1>5. InvCalls' /\ InvSave'
  BY <1>1, <1>2, <1>3 DEF IInv, InvCalls, InvSave, SnapshotFrame, SaveSteps
<1>6. InvIndex'
  <2>1. {index[k] : k \in 1..Len(index)} = Elements(index) /\ Elements(index)' = Elements(index)
    BY <1>1 DEF IInv, TypeOK, Elements, SnapshotFrame
  <2> QED BY <1>1, <1>2, <2>1 DEF IInv, InvIndex, IndexSound, Keeps, SnapshotFrame
<1>7. InvDisk' /\ InvFiles'
  BY <1>2 DEF InvDisk, InvFiles, SaveSteps, TruncateSteps
<1>8. InvLog' /\ InvNodes'
  BY <1>1, <1>2 DEF IInv, InvLog, InvNodes, SnapshotFrame, Elements, TruncateSteps
<1> QED BY <1>4, <1>5, <1>6, <1>7, <1>8 DEF IInv

\* The save is complete: the segment holds what the index held when the save began.
LEMMA WriteGraphStep == ASSUME IInv, WriteGraph PROVE IInv'
<1> USE ShardAssumption
<1>1. SnapshotFrame /\ up = "up" /\ Nodes' = Nodes
  BY SnapshotKeeps DEF Snapshot
<1>2. /\ UNCHANGED <<log, hdr, seg, ckpt, appends, n, met, snapshots, failures>>
      /\ spc = "write" /\ spc' = "truncate" /\ faults' = faults \ {"torn"}
      /\ graph' = [there |-> TRUE, whole |-> TRUE, count |-> n, reach |-> Len(index)]
  BY DEF WriteGraph, counts
<1>3. /\ n \in Nat /\ Len(index) \in Nat /\ n <= Len(index) /\ index \in Seq(Held)
      /\ ("overlap" \notin faults => n = Len(index) /\ "mismatch" \notin faults)
      /\ seg.there /\ seg.sealed /\ (Len(seg.vecs) = n \/ "mismatch" \in faults)
      /\ seg.vecs \in Seq(Held) /\ \A k \in 1..Len(seg.vecs) : seg.vecs[k] = index[k]
  BY <1>2 DEF IInv, TypeOK, InvSave, SaveSteps
<1>4. TypeOK'
  BY <1>1, <1>2, <1>3 DEF IInv, TypeOK, SnapshotFrame, SnapshotSteps
<1>5. InvCalls' /\ InvSave'
  BY <1>1, <1>2 DEF IInv, InvCalls, InvSave, SnapshotFrame, SaveSteps
<1>6. InvIndex'
  BY <1>1, <1>2 DEF IInv, InvIndex, IndexSound, Keeps, SnapshotFrame, SaveSteps, Elements
<1>7. "mismatch" \notin faults => Loadable'
  BY <1>2, <1>3 DEF Loadable, GraphParses, SegmentOpens
<1>8. InvDisk'
  <2>1. ASSUME FilesSound' PROVE Keeps({index[k] : k \in 1..n}) /\ Len(seg.vecs) = n
    BY <1>1, <1>2, <1>3, <2>1 DEF IInv, InvIndex, IndexSound, FilesSound, SaveSteps
  <2>2. Len(seg.vecs) = n => {index[k] : k \in 1..n} \subseteq Elements(seg.vecs)
    <3>1. DOMAIN seg.vecs = 1..Len(seg.vecs)
      BY <1>3, LenProperties
    <3> QED BY <1>3, <3>1 DEF Elements
  <2>3. ASSUME FilesSound' PROVE Loadable' /\ Keeps(Elements(seg.vecs))
    BY <1>2, <1>7, <2>1, <2>2, <2>3 DEF Keeps, FilesSound
  <2>4. Loadable' => Elements(seg.vecs) \subseteq Elements(Recovered)'
    <3>1. Elements(seg.vecs)' = Elements(seg.vecs)
      BY <1>2 DEF Elements
    <3> QED BY <1>4, <3>1, RecoveredNext DEF RecoveredOk
  <2>5. Elements(seg.vecs)' = Elements(seg.vecs) /\ acked' = acked
    BY <1>1, <1>2 DEF Elements, SnapshotFrame
  <2> QED BY <2>3, <2>4, <2>5 DEF InvDisk, Keeps
<1>9. "overlap" \notin faults => seg.vecs = index
  BY <1>3, PrefixOfAll
<1>10. InvLog'
  BY <1>1, <1>2, <1>3, <1>7, <1>9 DEF IInv, InvLog, SnapshotFrame, Elements, TruncateSteps
<1>11. InvFiles'
  BY <1>2, <1>3, <1>9 DEF InvFiles
<1>12. InvNodes'
  BY <1>1, <1>2 DEF IInv, InvNodes, SnapshotFrame
<1> QED BY <1>4, <1>5, <1>6, <1>8, <1>10, <1>11, <1>12 DEF IInv

\* A failing write leaves the files torn and the process as it was.
LEMMA FailureStep == ASSUME IInv, SaveThrows \/ CloseFails PROVE IInv'
<1> USE ShardAssumption
<1>1. SnapshotFrame /\ up = "up" /\ Nodes' = Nodes
  BY SnapshotKeeps DEF Snapshot
<1>2. /\ UNCHANGED <<log, hdr, seg, graph, ckpt, appends, n, met, snapshots>>
      /\ spc \in SaveSteps /\ spc' \in {"idle", "truncate"} /\ faults' = faults \cup {"torn"}
      /\ failures < MaxFailures /\ failures' = failures + 1
  BY DEF SaveThrows, CloseFails, files, SaveSteps
<1>3. TypeOK'
  BY <1>1, <1>2 DEF IInv, TypeOK, SnapshotFrame, SnapshotSteps, Faults
<1>4. InvCalls' /\ InvSave'
  BY <1>1, <1>2 DEF IInv, InvCalls, InvSave, SnapshotFrame, SaveSteps
<1>5. InvIndex'
  BY <1>1, <1>2 DEF IInv, InvIndex, IndexSound, Keeps, SnapshotFrame, SaveSteps, Elements
<1>6. InvDisk' /\ InvFiles'
  BY <1>2 DEF InvDisk, InvFiles, FilesSound
<1>7. InvLog' /\ InvNodes'
  BY <1>1, <1>2 DEF IInv, InvLog, InvNodes, SnapshotFrame, Elements
<1> QED BY <1>3, <1>4, <1>5, <1>6, <1>7 DEF IInv

\* The truncate of the log.
LEMMA TruncateStep ==
    ASSUME IInv, TruncateReturns \/ TruncateLog \/ TruncateHeader \/ TruncateSeal
    PROVE  IInv'
<1> USE ShardAssumption
<1>1. SnapshotFrame /\ up = "up" /\ Nodes' = Nodes
  BY SnapshotKeeps DEF Snapshot
<1>2. /\ UNCHANGED <<seg, graph, n, met, snapshots, failures>>
      /\ spc \in TruncateSteps /\ spc' \in {"idle", "header", "seal"}
      /\ log' \in {log, <<>>} /\ (spc = "truncate" /\ spc' # "idle" => log' = <<>>)
      /\ faults \subseteq faults' /\ faults' \subseteq faults \cup {"unsynced"}
      /\ (spc' = "idle" => log' = log /\ (faults' = {} => spc = "seal" \/ log = <<>>))
  <2>1. CASE TruncateReturns
    BY <2>1 DEF TruncateReturns, files, counts, TruncateSteps
  <2>2. CASE TruncateLog
    BY <2>2 DEF TruncateLog, counts, TruncateSteps
  <2>3. CASE TruncateHeader
    BY <2>3 DEF TruncateHeader, counts, TruncateSteps, IInv
  <2>4. CASE TruncateSeal
    BY <2>4 DEF TruncateSeal, counts, TruncateSteps
  <2> QED BY <2>1, <2>2, <2>3, <2>4
<1>3. TypeOK'
  <2>1. hdr' \in [ckpt : Nat, sealed : BOOLEAN] /\ ckpt' \in Nat /\ appends' \in Nat
    <3>1. CASE TruncateReturns
      BY <3>1 DEF IInv, TypeOK, TruncateReturns, files
    <3>2. CASE TruncateLog
      BY <3>2 DEF IInv, TypeOK, TruncateLog
    <3>3. CASE TruncateHeader
      BY <3>3 DEF IInv, TypeOK, TruncateHeader
    <3>4. CASE TruncateSeal
      BY <3>4 DEF IInv, TypeOK, TruncateSeal
    <3> QED BY <3>1, <3>2, <3>3, <3>4
  <2>2. log' \in Seq(Vectors)
    <3>1. log \in Seq(Vectors) /\ <<>> \in Seq(Vectors)
      BY DEF IInv, TypeOK
    <3> QED BY <1>2, <3>1
  <2> QED BY <1>1, <1>2, <2>1, <2>2 DEF IInv, TypeOK, SnapshotFrame, SnapshotSteps, Faults
<1>4. Loadable' = Loadable /\ Elements(seg.vecs)' = Elements(seg.vecs)
  BY <1>2 DEF Loadable, GraphParses, SegmentOpens, Elements
<1>5. InvCalls' /\ InvSave'
  BY <1>1, <1>2 DEF IInv, InvCalls, InvSave, SnapshotFrame, SaveSteps, TruncateSteps
<1>6. InvIndex'
  BY <1>1, <1>2 DEF IInv, InvIndex, IndexSound, Keeps, SnapshotFrame, SaveSteps, Elements
<1>7. InvDisk'
  <2>1. Loadable => Elements(seg.vecs) \subseteq Elements(Recovered)'
    BY <1>3, <1>4, RecoveredNext DEF RecoveredOk
  <2>2. FilesSound' => FilesSound
    BY <1>2 DEF FilesSound
  <2> QED BY <1>1, <1>2, <1>4, <2>1, <2>2 DEF IInv, InvDisk, Keeps, SnapshotFrame
<1>8. InvLog'
  <2>1. Elements(log)' \subseteq Elements(log) /\ Elements(index)' = Elements(index)
    BY <1>1, <1>2 DEF Elements, SnapshotFrame
  <2>2. spc' # "truncate" /\ log' \in {log, <<>>}
    BY <1>2
  <2> QED BY <1>1, <1>2, <1>4, <2>1, <2>2 DEF IInv, InvLog, SnapshotFrame, TruncateSteps
<1>9. InvFiles'
  <2>1. CASE faults' = {}
    <3>1. faults = {} /\ wpc = "idle" /\ Loadable /\ seg.vecs = index /\ graph.reach = Len(index)
          /\ (spc # "truncate" => log = <<>>)
      BY <1>2, <2>1 DEF IInv, InvLog, InvCalls, TruncateSteps
    <3>2. spc' = "idle" => log' = <<>>
      BY <1>2, <2>1, <3>1 DEF TruncateSteps
    <3>3. spc' = "idle" => Recovered' = index
      <4>1. Saved' = index
        BY <1>2, <1>4, <3>1 DEF Saved
      <4> QED BY <1>3, <3>2, <4>1, RecoveredNext, ConcatEmptySeq DEF RecoveredOk, IInv, TypeOK
    <3> QED BY <1>1, <1>2, <1>4, <2>1, <3>1, <3>3, GivesBackSelf DEF InvFiles, IInv, TypeOK, SnapshotFrame
  <2>2. CASE faults' # {}
    BY <2>2 DEF InvFiles
  <2> QED BY <2>1, <2>2
<1>10. InvNodes'
  BY <1>1, <1>2 DEF IInv, InvNodes, SnapshotFrame
<1> QED BY <1>3, <1>5, <1>6, <1>7, <1>8, <1>9, <1>10 DEF IInv

-----------------------------------------------------------------------------
(* The end of the process and its next start                                *)

LEMMA CrashStep == ASSUME IInv, Crash PROVE IInv'
<1> USE ShardAssumption
<1>1. /\ up = "up" /\ up' = "down" /\ index' = <<>> /\ wpc' = "idle" /\ spc' = "idle" /\ n' = 0
      /\ ckpt' = 0 /\ appends' = 0
      /\ UNCHANGED <<log, hdr, seg, graph, inserts, met, snapshots, failures, acked>>
  BY DEF Crash, files
<1>2. /\ "torn" \notin faults' /\ faults \ {"torn"} \subseteq faults'
      /\ (spc \in SaveSteps \/ "torn" \in faults => "save" \in faults')
      /\ (spc = "truncate" /\ log # <<>> => "unsynced" \in faults')
      /\ (~hdr.sealed => "header" \in faults')
      /\ ("mismatch" \in faults' => "mismatch" \in faults)
  BY DEF Crash
<1>3. TypeOK'
  <2>1. crashes' \in 0..MaxCrashes /\ faults' \subseteq Faults
    BY DEF Crash, IInv, TypeOK, Faults
  <2> QED BY <1>1, <2>1 DEF IInv, TypeOK
<1>4. Loadable' = Loadable /\ Recovered' = Recovered /\ Nodes' = Recovered
  BY <1>1 DEF Loadable, GraphParses, SegmentOpens, Recovered, Nodes
<1>5. InvCalls' /\ InvSave' /\ InvIndex' /\ InvLog'
  BY <1>1, <1>2 DEF IInv, InvCalls, InvSave, InvIndex, InvLog, SaveSteps, TruncateSteps
<1>6. InvDisk'
  <2>1. FilesSound' => FilesSound /\ spc \notin SaveSteps
    BY <1>2 DEF FilesSound
  <2> QED BY <1>1, <1>4, <2>1 DEF IInv, InvDisk, Keeps, TruncateSteps, Elements
\* With nothing wrong the files give back the index, and the insert under way if it is logged.
<1> DEFINE told == IF wpc = "idle" THEN index ELSE Append(index, inserts)
<1>7. ASSUME faults' = {} PROVE faults = {} /\ spc \notin SaveSteps /\ GivesBack(Recovered, told)
  <2>1. faults = {} /\ spc \notin SaveSteps
    BY <1>2, <1>7
  <2>2. CASE spc = "idle"
    BY <1>1, <2>1, <2>2 DEF IInv, InvFiles
  <2>3. CASE spc \in TruncateSteps
    <3>1. Loadable /\ seg.vecs = index /\ log = <<>>
      BY <1>2, <1>7, <2>1, <2>3 DEF IInv, InvLog
    <3>2. Saved = index /\ index \in Seq(Held)
      BY <3>1 DEF Saved, IInv, TypeOK
    <3>3. Recovered = index
      BY <3>1, <3>2, RecoveredNow, ConcatEmptySeq DEF RecoveredOk, IInv
    <3>4. wpc = "idle"
      BY <2>1, <2>3 DEF IInv, InvCalls, TruncateSteps
    <3> QED BY <2>1, <3>3, <3>4, GivesBackSelf
  <2> QED BY <2>1, <2>2, <2>3 DEF IInv, TypeOK, SnapshotSteps, TruncateSteps
<1>8. InvFiles'
  <2>1. faults' = {} => graph.reach <= Len(seg.vecs) \/ ~Loadable
    BY <1>7 DEF IInv, InvFiles
  <2> QED BY <1>1, <1>4, <2>1 DEF InvFiles
<1>9. InvNodes'
  <2>1. CASE faults' = {}
    <3>1. /\ index \in Seq(Held) /\ Len(index) \in Nat /\ DOMAIN index = 1..Len(index)
          /\ inserts \in Nat /\ acked' = acked /\ inserts' = inserts
      BY <1>1, LenProperties DEF IInv, TypeOK
    <3>2. /\ \A r \in acked : r.node \in Nat /\ r.node < Len(index) /\ index[r.node + 1] = r.vec
          /\ \A j, k \in 1..Len(index) : j < k => Sent(index[j]) < Sent(index[k])
          /\ \A k \in 1..Len(index) : Sent(index[k]) <= inserts /\ (wpc # "idle" => Sent(index[k]) < inserts)
      <4>1. Nodes = index /\ faults \subseteq {"torn"}
        BY <1>1, <1>7, <2>1 DEF Nodes
      <4> QED BY <3>1, <4>1 DEF IInv, InvNodes, TypeOK
    <3>3. \A r \in acked : r.vec \in Vectors
      BY DEF IInv, TypeOK
    <3>4. PICK len \in Nat : /\ Len(told) = len /\ DOMAIN told = 1..len /\ Len(index) <= len
                             /\ \A k \in 1..Len(index) : told[k] = index[k]
                             /\ \A k \in 1..len : \/ k \in 1..Len(index)
                                                   \/ /\ wpc # "idle" /\ k = Len(index) + 1
                                                      /\ told[k] = inserts /\ Sent(inserts) = inserts
      <4>1. CASE wpc = "idle"
        <5>1. told = index
          BY <4>1
        <5> HIDE DEF told
        <5>2. /\ Len(told) \in Nat /\ DOMAIN told = 1..Len(told) /\ Len(index) <= Len(told)
              /\ \A k \in 1..Len(index) : told[k] = index[k]
              /\ \A k \in 1..Len(told) : k \in 1..Len(index)
          BY <3>1, <5>1
        <5> QED BY <5>2
      <4>2. CASE wpc # "idle"
        <5>1. inserts \in Vectors /\ inserts \in Held /\ Sent(inserts) = inserts
          BY <4>2, HeldFacts DEF IInv, InvCalls, TypeOK, Vectors
        <5>2. /\ DOMAIN told = 1..(Len(index) + 1) /\ Len(told) = Len(index) + 1
              /\ told[Len(index) + 1] = inserts
              /\ \A k \in 1..Len(index) : told[k] = index[k]
          BY <3>1, <4>2, <5>1, AppendProperties, LenProperties
        <5> HIDE DEF told
        <5> QED BY <3>1, <4>2, <5>1, <5>2
      <4> QED BY <4>1, <4>2
    <3> HIDE DEF told
    <3>5. Len(Recovered) = len /\ DOMAIN Recovered = 1..len /\ Recovered \in Seq(Held)
      BY <1>7, <2>1, <3>4, RecoveredNow, LenProperties DEF GivesBack, RecoveredOk, IInv
    <3>6. \A k \in 1..len : Recovered[k] \in {told[k], Sent(told[k])}
      BY <1>7, <2>1, <3>4 DEF GivesBack
    <3>7. \A k \in 1..Len(index) : index[k] \in Held /\ Sent(Sent(index[k])) = Sent(index[k])
      BY <3>1, ElementOfSeq, HeldFacts
    <3>8. \A k \in 1..len : Sent(Recovered[k]) = Sent(told[k])
      BY <3>4, <3>6, <3>7
    <3>9. \A r \in acked : r.node < len /\ Recovered[r.node + 1] = r.vec
      <4>1. ASSUME NEW r \in acked PROVE r.node < len /\ Recovered[r.node + 1] = r.vec
        <5>1. r.node + 1 \in 1..Len(index) /\ r.node + 1 \in 1..len /\ r.node < len
          BY <3>1, <3>2, <3>4
        <5>2. told[r.node + 1] = r.vec /\ Sent(r.vec) = r.vec
          BY <3>2, <3>3, <3>4, <5>1, HeldFacts
        <5> QED BY <3>6, <5>1, <5>2
      <4> QED BY <4>1
    <3>10. \A k \in 1..Len(index) : Sent(index[k]) \in Nat
      BY <3>7, HeldFacts
    <3>11. \A j, k \in 1..len : j < k => Sent(told[j]) < Sent(told[k])
      BY <3>1, <3>2, <3>4, <3>10
    <3>12. \A k \in 1..len : Sent(told[k]) <= inserts
      BY <3>1, <3>2, <3>4
    <3> QED BY <1>1, <1>4, <3>1, <3>5, <3>8, <3>9, <3>11, <3>12 DEF InvNodes
  <2>2. CASE faults' # {}
    BY <1>2, <2>2 DEF InvNodes
  <2> QED BY <2>1, <2>2
<1> QED BY <1>3, <1>5, <1>6, <1>8, <1>9 DEF IInv

LEMMA StartEmptyStep == ASSUME IInv, NEW load \in BOOLEAN, StartEmpty(load) PROVE IInv'
<1> USE ShardAssumption
<1>1. /\ up # "up" /\ up' = "up" /\ index' = <<>> /\ appends' = 0 /\ ckpt' = hdr.ckpt
      /\ UNCHANGED <<log, hdr, seg, graph, wpc, spc, n, inserts, met, snapshots, crashes, failures, acked>>
      /\ wpc = "idle" /\ spc = "idle" /\ "torn" \notin faults
  BY DEF StartEmpty, files, counts, IInv, InvCalls
<1>2. /\ faults \subseteq faults' /\ faults' \subseteq faults \cup {"noreplay", "noload"}
      /\ faults' \cap {"noreplay", "noload"} = {} => log = <<>> /\ seg.vecs = <<>>
  BY DEF StartEmpty
<1>3. TypeOK'
  BY <1>1, <1>2 DEF IInv, TypeOK, Faults
<1>4. Loadable' = Loadable /\ Recovered' = Recovered
  BY <1>1 DEF Loadable, GraphParses, SegmentOpens, Recovered
<1>5. log = <<>> /\ seg.vecs = <<>> => Recovered = <<>>
  BY DEF Recovered
<1>6. InvCalls' /\ InvSave' /\ InvLog'
  BY <1>1, <1>2 DEF IInv, InvCalls, InvSave, InvLog, SaveSteps, TruncateSteps, Elements
<1>7. InvIndex' /\ InvDisk'
  <2>1. IndexSound' => FilesSound /\ Recovered = <<>>
    BY <1>1, <1>2, <1>5 DEF IndexSound, FilesSound
  <2>2. FilesSound' => FilesSound
    BY <1>2 DEF FilesSound
  <2> QED BY <1>1, <1>4, <2>1, <2>2 DEF IInv, InvIndex, InvDisk, Keeps, SaveSteps, TruncateSteps, Elements
<1>8. InvFiles'
  BY <1>1, <1>2, <1>4, <1>5, GivesBackSelf DEF IInv, InvFiles
<1>9. InvNodes'
  <2>1. faults' \subseteq {"torn"} => faults \subseteq {"torn"} /\ Recovered = <<>>
    BY <1>1, <1>2, <1>5
  <2>2. Nodes' = <<>> /\ Nodes = Recovered
    BY <1>1 DEF Nodes
  <2> QED BY <1>1, <2>1, <2>2 DEF IInv, InvNodes
<1> QED BY <1>3, <1>6, <1>7, <1>8, <1>9 DEF IInv

LEMMA StartLoadedStep == ASSUME IInv, StartLoaded PROVE IInv'
<1> USE ShardAssumption
<1>1. /\ up # "up" /\ up' = "up" /\ Loadable /\ index' = seg.vecs \o log /\ appends' = 0 /\ ckpt' = hdr.ckpt
      /\ UNCHANGED <<log, hdr, seg, graph, wpc, spc, n, inserts, met, snapshots, crashes, failures, acked, faults>>
      /\ wpc = "idle" /\ spc = "idle" /\ "torn" \notin faults
  BY DEF StartLoaded, Loaded, files, counts, IInv, InvCalls
<1>2. Loadable' = Loadable /\ Recovered' = Recovered /\ index' = Recovered
  BY <1>1 DEF Loadable, GraphParses, SegmentOpens, Recovered
<1>3. Elements(index)' = Elements(Recovered) /\ Elements(log)' = Elements(log)
      /\ Elements(log) \subseteq Elements(Recovered) /\ Recovered \in Seq(Held)
  BY <1>1, <1>2, RecoveredNow DEF IInv, RecoveredOk, Elements
<1>4. TypeOK'
  BY <1>1, <1>2, <1>3 DEF IInv, TypeOK
<1>5. InvCalls' /\ InvSave' /\ InvLog'
  BY <1>1, <1>3 DEF IInv, InvCalls, InvSave, InvLog, SaveSteps, TruncateSteps
<1>6. InvIndex' /\ InvDisk'
  <2>1. IndexSound => FilesSound
    BY <1>1 DEF IndexSound, FilesSound
  <2>2. Elements(Recovered)' = Elements(Recovered)
    BY <1>2 DEF Elements
  <2> QED BY <1>1, <1>2, <1>3, <2>1, <2>2 DEF IInv, InvIndex, InvDisk, Keeps, IndexSound, FilesSound,
         SaveSteps, TruncateSteps
<1>7. Nodes' = Nodes
  BY <1>1, <1>2 DEF Nodes
<1>8. InvFiles' /\ InvNodes'
  <2>1. InvFiles'
    BY <1>1, <1>2, GivesBackSelf DEF IInv, InvFiles
  <2>2. InvNodes'
    BY <1>1, <1>7 DEF IInv, InvNodes
  <2> QED BY <2>1, <2>2
<1> QED BY <1>4, <1>5, <1>6, <1>8 DEF IInv

LEMMA QuietStep == ASSUME IInv, StartFails \/ UNCHANGED vars PROVE IInv'
<1>1. /\ UNCHANGED <<log, hdr, seg, graph, ckpt, appends, index, wpc, spc, n, inserts, met, snapshots,
                     crashes, failures, acked, faults>>
      /\ up' = up \/ (up = "down" /\ up' = "failed")
  BY DEF StartFails, vars, files, counts
<1>2. Loadable' = Loadable /\ Recovered' = Recovered /\ Nodes' = Nodes
  BY <1>1 DEF Loadable, GraphParses, SegmentOpens, Recovered, Nodes
<1>3. TypeOK'
  BY <1>1 DEF IInv, TypeOK
<1>4. InvCalls' /\ InvSave' /\ InvIndex' /\ InvLog'
  BY <1>1, <1>2 DEF IInv, InvCalls, InvSave, InvIndex, InvLog, IndexSound, Keeps, Elements
<1>5. InvDisk' /\ InvFiles' /\ InvNodes'
  BY <1>1, <1>2 DEF IInv, InvDisk, InvFiles, InvNodes, FilesSound, Keeps, Elements
<1> QED BY <1>3, <1>4, <1>5 DEF IInv

-----------------------------------------------------------------------------
(* The theorems                                                             *)

LEMMA IInvInit == Init => IInv
<1> SUFFICES ASSUME Init PROVE IInv
  OBVIOUS
<1> USE ShardAssumption DEF Init
<1>1. TypeOK
  <2>1. <<>> \in Seq(Held)
    OBVIOUS
  <2>2. seg \in [there : BOOLEAN, sealed : BOOLEAN, vecs : Seq(Held)]
    BY <2>1 DEF NoSegment
  <2>3. graph \in [there : BOOLEAN, whole : BOOLEAN, count : Nat, reach : Nat]
    BY DEF NoGraph
  <2>4. hdr \in [ckpt : Nat, sealed : BOOLEAN] /\ met \in BOOLEAN
    OBVIOUS
  <2>5. /\ inserts \in 0..MaxInserts /\ snapshots \in 0..MaxSnapshots
        /\ crashes \in 0..MaxCrashes /\ failures \in 0..MaxFailures
    OBVIOUS
  <2> QED BY <2>1, <2>2, <2>3, <2>4, <2>5 DEF TypeOK
<1>2. ~Loadable /\ Recovered = <<>> /\ Nodes = <<>>
  BY DEF Loadable, GraphParses, SegmentOpens, NoGraph, Recovered, Nodes
<1>3. InvCalls /\ InvSave /\ InvIndex /\ InvDisk /\ InvLog
  BY DEF InvCalls, InvSave, InvIndex, InvDisk, InvLog, Keeps, SaveSteps, TruncateSteps, Elements
<1>4. InvFiles /\ InvNodes
  BY <1>2, GivesBackSelf DEF InvFiles, InvNodes
<1> QED BY <1>1, <1>3, <1>4 DEF IInv

\* The inductive invariant: what the index and the three files hold, however inserts,
\* snapshots, failing writes, crashes and starts follow each other.
THEOREM ShardInductive == Spec => []IInv
<1>1. Init => IInv
  BY IInvInit
<1>2. IInv /\ [Next]_vars => IInv'
  BY InsertLogStep, InsertHeaderStep, InsertIndexStep, RemoveSegmentStep, SegmentStep, OpenGraphStep,
     WriteGraphStep, FailureStep, TruncateStep, CrashStep, StartEmptyStep, StartLoadedStep, QuietStep
     DEF Next, Snapshot
<1> QED BY <1>1, <1>2, PTL DEF Spec

\* Shard!TypeOK for every value of the constants.
THEOREM ShardTypeCorrect == Spec => []TypeOK
<1>1. IInv => TypeOK
  BY DEF IInv
<1> QED BY <1>1, ShardInductive, PTL

\* Shard!AckedOnDisk: however often the shard is saved, crashes and starts, a vector
\* whose insert returned is in the log or in a snapshot that load accepts.
THEOREM ShardAckedOnDisk == Spec => []AckedOnDisk
<1>1. IInv => AckedOnDisk
  BY DEF IInv, InvDisk, AckedOnDisk, FilesSound, Keeps
<1> QED BY <1>1, ShardInductive, PTL

\* Shard!NodeIdsStable: a vector keeps the node id its client was given.
THEOREM ShardNodeIdsStable == Spec => []NodeIdsStable
<1>1. ASSUME IInv PROVE NodeIdsStable
  <2> SUFFICES ASSUME up = "up", faults = {}
               PROVE  /\ \A r \in acked : r.node < Len(index) /\ index[r.node + 1] = r.vec
                      /\ \A j, k \in DOMAIN index : Sent(index[j]) = Sent(index[k]) => j = k
    BY DEF NodeIdsStable
  <2>1. /\ \A r \in acked : r.node < Len(index) /\ index[r.node + 1] = r.vec
        /\ \A j, k \in DOMAIN index : j < k => Sent(index[j]) < Sent(index[k])
    BY <1>1 DEF IInv, InvNodes, Nodes
  <2>2. ASSUME NEW j \in DOMAIN index, NEW k \in DOMAIN index, Sent(index[j]) = Sent(index[k]) PROVE j = k
    <3>1. index \in Seq(Held) /\ DOMAIN index = 1..Len(index) /\ Len(index) \in Nat
      BY <1>1, LenProperties DEF IInv, TypeOK
    <3>2. j \in 1..Len(index) /\ k \in 1..Len(index)
      BY <3>1
    <3>3. index[j] \in Held /\ index[k] \in Held
      BY <3>1, <3>2, ElementOfSeq
    <3>4. j \in Nat /\ k \in Nat /\ Sent(index[j]) \in Nat /\ Sent(index[k]) \in Nat
      BY <3>1, <3>2, <3>3, HeldFacts
    <3> QED BY <2>1, <2>2, <3>4
  <2> QED BY <2>1, <2>2
<1> QED BY <1>1, ShardInductive, PTL

\* Shard!FilesGiveBackIndex: between calls the files are the index, and no link of the
\* graph leads out of the segment.
THEOREM ShardFilesGiveBackIndex == Spec => []FilesGiveBackIndex
<1>1. IInv => FilesGiveBackIndex
  BY DEF IInv, InvFiles, FilesGiveBackIndex, SaveSteps
<1> QED BY <1>1, ShardInductive, PTL

\* Shard!LogDroppedOnceSaved: the step that drops an entry from the log finds it in a
\* snapshot that load accepts.
THEOREM ShardLogDroppedOnceSaved == Spec => LogDroppedOnceSaved
<1>1. ASSUME IInv, [Next]_vars, faults \cap {"noload", "noreplay", "overlap", "torn"} = {},
             NEW v \in Elements(log) \ Elements(log')
      PROVE  Loadable /\ (v \in Elements(seg.vecs) \/ Blank(v) \in Elements(seg.vecs))
  <2>1. log' # log
    BY <1>1 DEF Elements
  <2>2. CASE TruncateLog
    <3>1. spc = "truncate" /\ wpc = "idle" /\ up = "up"
      BY <1>1, <2>2 DEF TruncateLog, IInv, InvCalls
    <3>2. Loadable /\ seg.vecs = index /\ (v \in Elements(index) \/ Blank(v) \in Elements(index))
      BY <1>1, <3>1 DEF IInv, InvLog, TruncateSteps
    <3> QED BY <3>2
  <2>3. CASE InsertLog
    <3>1. Elements(log) \subseteq Elements(log')
      <4>1. log \in Seq(Vectors) /\ inserts + 1 \in Vectors /\ log' = Append(log, inserts + 1)
        BY <1>1, <2>3, ShardAssumption DEF InsertLog, IInv, TypeOK, Vectors
      <4> QED BY <4>1, ElementsAppend
    <3> QED BY <1>1, <3>1
  <2>4. log' = log \/ TruncateLog \/ InsertLog
    BY <1>1 DEF Next, Snapshot, InsertCheckpoint, InsertSeal, InsertIndex, InsertIndexThrows, RemoveSegment, CreateSegment,
       SealSegment, AppendSegment, OpenGraph, WriteGraph, SaveThrows, CloseFails, TruncateReturns,
       TruncateHeader, TruncateSeal, Crash, StartEmpty, StartLoaded, StartFails, vars, files
  <2> QED BY <2>1, <2>2, <2>3, <2>4
<1>2. IInv /\ [Next]_vars =>
        [faults \cap {"noload", "noreplay", "overlap", "torn"} = {} =>
           \A v \in Elements(log) \ Elements(log') : Loadable /\ (v \in Elements(seg.vecs) \/ Blank(v) \in Elements(seg.vecs))]_vars
  BY <1>1
<1> QED BY <1>2, ShardInductive, PTL DEF Spec, LogDroppedOnceSaved
=============================================================================
