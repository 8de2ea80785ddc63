-------------------------- MODULE HnswGraphProofs --------------------------
(***************************************************************************)
(* Theorems about HnswGraph, HNSW and Kernels, for any vectors and         *)
(* distances, any number of layers and any limits on the lists.            *)
(*                                                                         *)
(* The properties of the graph are inductive only together: a new node     *)
(* finds a neighbour on each of its layers because the entry point is on   *)
(* the top layer, a list that is cut is one entry too long because lists   *)
(* are bounded, and it keeps some because a limit is at least one.         *)
(*                                                                         *)
(* The searches are loops.  What no round of a loop leaves holds at its    *)
(* end (RoundsStay), and a loop that has less to do after each round is    *)
(* over when there was no more to do than rounds (RoundsEnd).              *)
(***************************************************************************)
EXTENDS MCHNSW, TLAPS, FiniteSetTheorems, SequenceTheorems, WellFoundedInduction

GraphInv == TypeOK /\ LinksStayOnLayer /\ DegreeBounded /\ EntryOnTop /\ NobodyStuck

\* CloserTo is a strict total order of nodes: by distance, then by id.
LEMMA CloserIsOrder ==
    ASSUME NEW vs \in Seq(Vectors), NEW n \in 1..Len(vs),
           NEW a \in 1..Len(vs), NEW b \in 1..Len(vs), NEW c \in 1..Len(vs)
    PROVE  /\ ~CloserTo(vs, n, a, a)
           /\ CloserTo(vs, n, a, b) /\ CloserTo(vs, n, b, c) => CloserTo(vs, n, a, c)
           /\ a # b => CloserTo(vs, n, a, b) \/ CloserTo(vs, n, b, a)
<1>1. \A x \in 1..Len(vs) : Dist[<<vs[n], vs[x]>>] \in Nat
  <2>1. \A x \in 1..Len(vs) : vs[x] \in Vectors
    BY ElementOfSeq
  <2> QED  BY <2>1, GraphAssumption
<1> HIDE DEF CloserTo
<1> DEFINE D(x) == Dist[<<vs[n], vs[x]>>]
<1>2. \A x, y : CloserTo(vs, n, x, y) <=> D(x) < D(y) \/ (D(x) = D(y) /\ x < y)
  BY DEF CloserTo
<1>3. D(a) \in Nat /\ D(b) \in Nat /\ D(c) \in Nat  BY <1>1
<1>4. a \in Nat /\ b \in Nat /\ c \in Nat  OBVIOUS
<1> HIDE DEF D
<1> QED  BY <1>2, <1>3, <1>4

\* Among finitely many nodes one is the farthest from n.
LEMMA FarthestExists ==
    ASSUME NEW vs \in Seq(Vectors), NEW n \in 1..Len(vs),
           NEW S \in SUBSET (1..Len(vs)), IsFiniteSet(S), S # {}
    PROVE  \E f \in S : \A k \in S \ {f} : CloserTo(vs, n, k, f)
<1> DEFINE Beyond(s) == {t \in S : CloserTo(vs, n, s, t)}
           Sets      == {Beyond(s) : s \in S}
<1>1. IsWellFoundedOn(StrictSubsetOrdering(S), SUBSET S)
  BY FS_StrictSubsetOrderingWellFounded, FS_FiniteSubsetsOfFinite
<1>2. PICK B \in Sets : \A C \in Sets : ~(<<C, B>> \in StrictSubsetOrdering(S))
  <2>1. Sets \subseteq SUBSET S /\ Sets # {}  OBVIOUS
  <2> HIDE DEF Sets
  <2> QED  BY <1>1, <2>1, WFMin
<1>3. PICK f \in S : B = Beyond(f)  BY <1>2
<1>4. Beyond(f) = {}
  <2> SUFFICES ASSUME NEW t \in S, CloserTo(vs, n, f, t) PROVE FALSE
    OBVIOUS
  <2>1. Beyond(t) \subseteq Beyond(f)
    BY CloserIsOrder
  <2>2. t \in Beyond(f) /\ t \notin Beyond(t)
    BY CloserIsOrder
  <2>3. <<Beyond(t), Beyond(f)>> \in StrictSubsetOrdering(S)
    BY <2>1, <2>2 DEF StrictSubsetOrdering
  <2> QED  BY <1>2, <1>3, <2>3
<1> QED
  <2> SUFFICES ASSUME NEW k \in S, k # f PROVE CloserTo(vs, n, k, f)
    OBVIOUS
  <2>1. ~CloserTo(vs, n, f, k)  BY <1>4
  <2> QED  BY <2>1, CloserIsOrder

\* What prune_connections makes of a list that is at most one entry too long.
LEMMA PrunedFacts ==
    ASSUME NEW vs \in Seq(Vectors), NEW n \in 1..Len(vs), NEW l \in Layers,
           NEW S \in SUBSET (1..Len(vs)), IsFiniteSet(S),
           Cardinality(S) <= Cap(l) + 1
    PROVE  /\ Pruned(vs, n, l, S) \subseteq S
           /\ Cardinality(Pruned(vs, n, l, S)) <= Cap(l)
           /\ S # {} => Pruned(vs, n, l, S) # {}
<1>1. Cap(l) \in Nat \ {0}  BY GraphAssumption DEF Cap
<1>2. Cardinality(S) \in Nat  BY FS_CardinalityType
<1>3. CASE Cardinality(S) <= Cap(l)
  BY <1>3 DEF Pruned
<1>4. CASE ~(Cardinality(S) <= Cap(l))
  <2>1. Cardinality(S) = Cap(l) + 1  BY <1>1, <1>2, <1>4
  <2>2. S # {}  BY <2>1, <1>1, FS_EmptySet
  <2>3. PICK f \in S : \A k \in S \ {f} : CloserTo(vs, n, k, f)
    BY <2>2, FarthestExists
  <2>4. Cardinality(S \ {f}) = Cap(l)
    <3>1. Cardinality(S \ {f}) = Cardinality(S) - 1
      BY <2>3, FS_RemoveElement
    <3> QED  BY <3>1, <2>1, <1>1
  <2> DEFINE P(K) == Cardinality(K) = Cap(l) /\ \A k \in K, d \in S \ K : CloserTo(vs, n, k, d)
  <2>5. P(S \ {f})
    <3>1. \A d \in S \ (S \ {f}) : d = f  OBVIOUS
    <3> QED  BY <2>3, <2>4, <3>1
  <2>6. \E K \in SUBSET S : P(K)
    <3>1. S \ {f} \in SUBSET S  OBVIOUS
    <3> HIDE DEF P
    <3> QED  BY <2>5, <3>1
  <2>7. Pruned(vs, n, l, S) = CHOOSE K \in SUBSET S : P(K)
    BY <1>4 DEF Pruned
  <2>8. Pruned(vs, n, l, S) \in SUBSET S /\ P(Pruned(vs, n, l, S))
    <3> HIDE DEF P
    <3> QED  BY <2>6, <2>7
  <2>9. Pruned(vs, n, l, S) # {}
    BY <2>8, <1>1, FS_EmptySet
  <2> QED  BY <2>8, <2>9, <1>1
<1> QED  BY <1>3, <1>4

-----------------------------------------------------------------------------

LEMMA InitGraphInv == Init => GraphInv
<1> SUFFICES ASSUME Init PROVE GraphInv
  OBVIOUS
<1>1. Len(vectors) = 0 /\ Nodes = {}
  BY DEF Init, Nodes
<1>2. TypeOK
  BY <1>1, EmptySeq DEF Init, TypeOK
<1> QED
  BY <1>1, <1>2 DEF Init, GraphInv, LinksStayOnLayer, DegreeBounded, EntryOnTop, NobodyStuck, OnLayer

\* An insert keeps the graph in order, whichever selectable neighbours it links.
LEMMA AddNodeGraphInv ==
    ASSUME GraphInv, NEW v \in Vectors, NEW lvl \in Layers,
           NEW chosen \in [Layers -> SUBSET Nodes],
           Selectable(lvl, chosen), AddNode(v, lvl, chosen)
    PROVE  GraphInv'
<1> DEFINE id  == Len(vectors) + 1
           vs  == Append(vectors, v)
           New == Linked(vs, id, chosen)
<1>1. Len(vectors) \in Nat /\ id \in Nat \ {0} /\ Nodes = 1..Len(vectors)
  BY LenProperties DEF GraphInv, TypeOK, Nodes
<1>2. /\ vs \in Seq(Vectors) /\ Len(vs) = id
      /\ vectors' = vs /\ links' = New
      /\ Nodes' = 1..id /\ id \notin Nodes /\ Nodes' = Nodes \cup {id}
  BY <1>1 DEF GraphInv, TypeOK, AddNode, Nodes
<1>3. /\ level' = Append(level, lvl)
      /\ level' \in Seq(Layers) /\ Len(level') = id
      /\ level'[id] = lvl /\ \A n \in Nodes : level'[n] = level[n] /\ level[n] \in Layers
  <2>1. level \in Seq(Layers) /\ Len(level) = Len(vectors)  BY DEF GraphInv, TypeOK
  <2> QED  BY <1>1, <2>1, ElementOfSeq DEF AddNode
<1>4. \A l \in Layers :
        /\ OnLayer(l) \subseteq Nodes
        /\ OnLayer(l)' = OnLayer(l) \cup (IF lvl >= l THEN {id} ELSE {})
  BY <1>1, <1>2, <1>3 DEF OnLayer
<1>5. \A l \in Layers : /\ chosen[l] \subseteq OnLayer(l)
                        /\ Cardinality(chosen[l]) <= Cap(l)
                        /\ chosen[l] # {} <=> l \in Joined(lvl)
  BY DEF Selectable
<1>6. \A n \in 1..id, l \in Layers :
        New[n][l] = IF n = id THEN chosen[l]
                    ELSE IF n \in chosen[l] THEN Pruned(vs, n, l, links[n][l] \cup {id})
                    ELSE links[n][l]
  BY DEF Linked
\* A list that the new node is added to.
<1>7. ASSUME NEW l \in Layers, NEW n \in chosen[l]
      PROVE  /\ n \in Nodes /\ New[n][l] = Pruned(vs, n, l, links[n][l] \cup {id})
             /\ New[n][l] \subseteq links[n][l] \cup {id}
             /\ Cardinality(New[n][l]) <= Cap(l)
             /\ New[n][l] # {}
  <2>1. n \in OnLayer(l) /\ n \in Nodes /\ n \in 1..id /\ n # id
    BY <1>1, <1>2, <1>4, <1>5
  <2>2. New[n][l] = Pruned(vs, n, l, links[n][l] \cup {id})
    BY <1>6, <2>1
  <2>3. links[n][l] \subseteq Nodes /\ Cardinality(links[n][l]) <= Cap(l)
    BY <1>4, <2>1 DEF GraphInv, LinksStayOnLayer, DegreeBounded
  <2>4. IsFiniteSet(links[n][l])
    <3>1. IsFiniteSet(Nodes)  BY <1>1, FS_Interval
    <3> QED  BY <2>3, <3>1, FS_Subset
  <2> DEFINE S == links[n][l] \cup {id}
  <2>5. S \in SUBSET (1..Len(vs)) /\ S # {}
    BY <1>2, <2>3
  <2>6. IsFiniteSet(S) /\ Cardinality(S) <= Cap(l) + 1
    <3>1. Cap(l) \in Nat  BY GraphAssumption DEF Cap
    <3>2. Cardinality(links[n][l]) \in Nat  BY <2>4, FS_CardinalityType
    <3>3. /\ IsFiniteSet(S)
          /\ Cardinality(S) = IF id \in links[n][l] THEN Cardinality(links[n][l])
                              ELSE Cardinality(links[n][l]) + 1
      BY <2>4, FS_AddElement
    <3> HIDE DEF S
    <3> QED  BY <2>3, <3>1, <3>2, <3>3
  <2>7. n \in 1..Len(vs)  BY <1>2, <2>1
  <2> HIDE DEF S, vs, New
  <2>8. /\ Pruned(vs, n, l, S) \subseteq S
        /\ Cardinality(Pruned(vs, n, l, S)) <= Cap(l)
        /\ Pruned(vs, n, l, S) # {}
    BY <1>2, <2>5, <2>6, <2>7, PrunedFacts
  <2> QED  BY <2>1, <2>2, <2>8 DEF S
<1> HIDE DEF New, vs
\* A layer that the new node and an old one are on is a joined one.
<1>8. ASSUME NEW l \in Layers, NEW n \in OnLayer(l), lvl >= l
      PROVE  chosen[l] # {}
  <2>1. n \in Nodes /\ level[n] >= l  BY <1>4 DEF OnLayer
  <2>2. top \in Int /\ level[n] <= top
    BY <2>1 DEF GraphInv, EntryOnTop, TypeOK, Layers
  <2>3. level[n] \in Int /\ l \in Int /\ lvl \in Int  BY <1>3, <2>1 DEF Layers
  <2>4. l <= top /\ l <= lvl  BY <1>8, <2>1, <2>2, <2>3
  <2> QED  BY <1>5, <2>4 DEF Joined
<1>9. TypeOK'
  <2>1. links' \in Seq([Layers -> SUBSET Nat]) /\ Len(links') = id
    <3>1. ASSUME NEW n \in 1..id, NEW l \in Layers PROVE New[n][l] \in SUBSET Nat
      <4>1. CASE n = id
        <5>1. New[n][l] = chosen[l]  BY <1>6, <4>1
        <5>2. chosen[l] \subseteq Nodes /\ Nodes \subseteq Nat  BY <1>1
        <5> QED  BY <5>1, <5>2
      <4>2. CASE n # id /\ n \in chosen[l]
        <5>1. n \in Nodes /\ links[n][l] \subseteq Nodes
          BY <1>4, <1>7, <4>2 DEF GraphInv, LinksStayOnLayer
        <5>2. Nodes \cup {id} \subseteq Nat  BY <1>1
        <5>3. New[n][l] \subseteq links[n][l] \cup {id}  BY <1>7, <4>2
        <5> QED  BY <5>1, <5>2, <5>3
      <4>3. CASE n # id /\ n \notin chosen[l]
        <5>1. n \in Nodes  BY <1>2, <4>3
        <5>2. links[n][l] \subseteq Nodes
          BY <5>1, <1>4 DEF GraphInv, LinksStayOnLayer
        <5>3. Nodes \subseteq Nat  BY <1>1
        <5>4. New[n][l] = links[n][l]  BY <1>6, <4>3
        <5> QED  BY <5>2, <5>3, <5>4
      <4> QED  BY <4>1, <4>2, <4>3
    <3>2. New \in [1..id -> [Layers -> SUBSET Nat]]
      <4>1. New = [n \in 1..id |-> [l \in Layers |-> New[n][l]]]
        BY DEF New, Linked
      <4> QED  BY <3>1, <4>1
    <3> QED  BY <1>1, <1>2, <3>2, IsASeq
  <2>2. entry' \in Nat /\ top' \in Layers \cup {-1}
    BY <1>1 DEF GraphInv, TypeOK, AddNode
  <2> QED  BY <1>2, <1>3, <2>1, <2>2 DEF TypeOK
<1>10. LinksStayOnLayer'
  <2> SUFFICES ASSUME NEW n \in 1..id, NEW l \in Layers
               PROVE  /\ New[n][l] \subseteq OnLayer(l)' \ {n}
                      /\ New[n][l] # {} => level'[n] >= l
    BY <1>2 DEF LinksStayOnLayer
  <2>1. CASE n = id
    <3>1. New[n][l] = chosen[l]  BY <1>6, <2>1
    <3>2. chosen[l] # {} => lvl >= l  BY <1>5 DEF Joined, Layers
    <3> QED  BY <3>1, <3>2, <1>2, <1>3, <1>4, <1>5, <2>1
  <2>2. CASE n # id /\ n \in chosen[l]
    <3>1. n \in OnLayer(l) /\ n \in Nodes /\ lvl >= l
      BY <1>4, <1>5, <2>2 DEF Joined, Layers
    <3>2. links[n][l] \subseteq OnLayer(l) \ {n}
      BY <3>1 DEF GraphInv, LinksStayOnLayer
    <3>3. level'[n] >= l  BY <1>3, <3>1 DEF OnLayer
    <3> QED  BY <1>4, <1>7, <2>2, <3>1, <3>2, <3>3
  <2>3. CASE n # id /\ n \notin chosen[l]
    <3>1. n \in Nodes /\ New[n][l] = links[n][l]  BY <1>2, <1>6, <2>3
    <3> QED  BY <1>3, <1>4, <3>1 DEF GraphInv, LinksStayOnLayer
  <2> QED  BY <2>1, <2>2, <2>3
<1>11. DegreeBounded'
  <2> SUFFICES ASSUME NEW n \in 1..id, NEW l \in Layers
               PROVE  Cardinality(New[n][l]) <= Cap(l)
    BY <1>2 DEF DegreeBounded, Cap
  <2>1. CASE n = id  BY <2>1, <1>5, <1>6
  <2>2. CASE n # id /\ n \in chosen[l]  BY <2>2, <1>7
  <2>3. CASE n # id /\ n \notin chosen[l]
    <3>1. n \in Nodes /\ New[n][l] = links[n][l]  BY <1>2, <1>6, <2>3
    <3> QED  BY <3>1 DEF GraphInv, DegreeBounded
  <2> QED  BY <2>1, <2>2, <2>3
<1>12. EntryOnTop'
  <2>1. CASE lvl > top
    <3>1. entry' = id /\ top' = lvl  BY <2>1 DEF AddNode
    <3>2. \A n \in Nodes : level[n] <= lvl
      <4> SUFFICES ASSUME NEW n \in Nodes PROVE level[n] <= lvl
        OBVIOUS
      <4>1. level[n] <= top  BY DEF GraphInv, EntryOnTop
      <4> QED  BY <4>1, <2>1, <1>3 DEF GraphInv, TypeOK, Layers
    <3>3. lvl <= lvl  BY DEF Layers
    <3>4. \A n \in Nodes' : level'[n] <= lvl
      BY <1>2, <1>3, <3>2, <3>3
    <3> QED  BY <1>2, <1>3, <3>1, <3>4 DEF EntryOnTop
  <2>2. CASE ~(lvl > top)
    <3>1. entry' = entry /\ top' = top  BY <2>2 DEF AddNode
    <3>2. top \in Int /\ lvl \in Nat /\ lvl <= top
      BY <2>2 DEF GraphInv, TypeOK, Layers
    <3>3. Nodes # {}
      BY <3>2 DEF GraphInv, EntryOnTop
    <3>4. entry \in Nodes /\ level[entry] = top /\ \A n \in Nodes : level[n] <= top
      BY <3>3 DEF GraphInv, EntryOnTop
    <3>5. \A n \in Nodes' : level'[n] <= top
      BY <1>2, <1>3, <3>2, <3>4
    <3> QED  BY <1>2, <1>3, <3>1, <3>4, <3>5 DEF EntryOnTop
  <2> QED  BY <2>1, <2>2
<1>13. NobodyStuck'
  <2> SUFFICES ASSUME NEW l \in Layers, NEW n \in OnLayer(l)', NEW m \in OnLayer(l)', m # n
               PROVE  New[n][l] # {}
    BY <1>2 DEF NobodyStuck
  <2>1. CASE n = id
    <3>1. m \in OnLayer(l)  BY <1>4, <2>1
    <3>2. lvl >= l  BY <1>2, <1>4, <2>1
    <3>3. chosen[l] # {}  BY <1>8, <3>1, <3>2
    <3>4. New[n][l] = chosen[l]
      <4>1. id \in 1..id  BY <1>1
      <4> QED  BY <1>6, <2>1, <4>1
    <3> QED  BY <3>3, <3>4
  <2>2. CASE n # id
    <3>1. n \in OnLayer(l) /\ n \in Nodes /\ n \in 1..id  BY <1>2, <1>4, <2>2
    <3>2. CASE n \in chosen[l]  BY <1>7, <3>2
    <3>3. CASE n \notin chosen[l]
      <4>1. New[n][l] = links[n][l]  BY <1>6, <2>2, <3>1, <3>3
      <4>2. PICK c \in OnLayer(l) : c # n
        <5>1. CASE m = id
          <6>1. lvl >= l  BY <1>2, <1>4, <5>1
          <6>2. chosen[l] # {}  BY <1>8, <3>1, <6>1
          <6> QED  BY <1>5, <3>3, <6>2
        <5>2. CASE m # id  BY <1>4, <5>2
        <5> QED  BY <5>1, <5>2
      <4> QED  BY <3>1, <4>1, <4>2 DEF GraphInv, NobodyStuck
    <3> QED  BY <3>2, <3>3
  <2> QED  BY <2>1, <2>2
<1> QED  BY <1>9, <1>10, <1>11, <1>12, <1>13 DEF GraphInv

\* GraphInv is an invariant of the graph, whatever the searches select.
THEOREM GraphInductive == GraphSpec => []GraphInv
<1>1. Init => GraphInv  BY InitGraphInv
<1>2. GraphInv /\ [GraphNext]_vars => GraphInv'
  <2> SUFFICES ASSUME GraphInv, [GraphNext]_vars PROVE GraphInv'
    OBVIOUS
  <2>1. CASE GraphNext
    BY <2>1, AddNodeGraphInv DEF GraphNext
  <2>2. CASE UNCHANGED vars
    BY <2>2 DEF vars, GraphInv, TypeOK, LinksStayOnLayer, DegreeBounded, EntryOnTop,
                NobodyStuck, Nodes, OnLayer, Cap
  <2> QED  BY <2>1, <2>2
<1> QED  BY <1>1, <1>2, PTL DEF GraphSpec

\* The variables of the index keep their types.
THEOREM GraphTypeCorrect == GraphSpec => []TypeOK
<1>1. GraphInv => TypeOK  BY DEF GraphInv
<1> QED  BY <1>1, GraphInductive, PTL

\* Every link of a layer leads to another node of that layer.
THEOREM GraphLinksStay == GraphSpec => []LinksStayOnLayer
<1>1. GraphInv => LinksStayOnLayer  BY DEF GraphInv
<1> QED  BY <1>1, GraphInductive, PTL

\* No list of neighbours is longer than its layer allows.
THEOREM GraphDegree == GraphSpec => []DegreeBounded
<1>1. GraphInv => DegreeBounded  BY DEF GraphInv
<1> QED  BY <1>1, GraphInductive, PTL

\* The entry point is a node of the highest layer in use.
THEOREM GraphEntry == GraphSpec => []EntryOnTop
<1>1. GraphInv => EntryOnTop  BY DEF GraphInv
<1> QED  BY <1>1, GraphInductive, PTL

\* The graph a search walks is sound in all three ways, after any inserts.
THEOREM GraphShapeKept == GraphSpec => []GraphShape
<1>1. GraphInv => GraphShape  BY DEF GraphInv, GraphShape
<1> QED  BY <1>1, GraphInductive, PTL

\* Every node can be left on each of its layers that holds another node.
THEOREM GraphNobodyStuck == GraphSpec => []NobodyStuck
<1>1. GraphInv => NobodyStuck  BY DEF GraphInv
<1> QED  BY <1>1, GraphInductive, PTL

-----------------------------------------------------------------------------
(* Loops                                                                    *)

\* Induction, over a set of numbers: the provers cannot use a theorem about an operator.
LEMMA NatsByInduction ==
    ASSUME NEW Good, 0 \in Good, \A n \in Nat : n \in Good => n + 1 \in Good
    PROVE  \A n \in Nat : n \in Good
<1> SUFFICES ASSUME Nat \ Good # {} PROVE FALSE
  OBVIOUS
<1>1. PICK n \in Nat \ Good : \A m \in Nat \ Good : ~(<<m, n>> \in OpToRel(<, Nat))
  <2>1. Nat \ Good \subseteq Nat
    OBVIOUS
  <2> QED BY <2>1, NatLessThanWellFounded, WFMin, Zenon
<1>2. \A m \in Nat \ Good : ~(m < n)
  BY <1>1 DEF OpToRel
<1>3. n - 1 \in Nat /\ n - 1 \notin Nat \ Good
  BY <1>2
<1> QED BY <1>3

\* f is what the recursion of Rounds goes through.
RoundsUp(f, n, start, step) ==
    f = [k \in 0..n |-> IF k = 0 THEN start ELSE UNION {step[x] : x \in f[k - 1]}]

LEMMA RoundsExist == \A start, step : \A n \in Nat : \E f : RoundsUp(f, n, start, step)
<1> SUFFICES ASSUME NEW start, NEW step PROVE \A n \in Nat : \E f : RoundsUp(f, n, start, step)
  OBVIOUS
<1> DEFINE Good == {n \in Nat : \E f : RoundsUp(f, n, start, step)}
<1>1. 0 \in Good
  <2> DEFINE f == [k \in 0..0 |-> start]
  <2>1. RoundsUp(f, 0, start, step)
    BY DEF RoundsUp
  <2> QED BY <2>1
<1>2. ASSUME NEW n \in Nat, n \in Good PROVE n + 1 \in Good
  <2>1. PICK f : RoundsUp(f, n, start, step)
    BY <1>2
  <2> DEFINE last == UNION {step[x] : x \in f[n]}
             g == [k \in 0..(n + 1) |-> IF k = n + 1 THEN last ELSE f[k]]
  <2>2. f[0] = start /\ \A k \in 1..n : f[k] = UNION {step[x] : x \in f[k - 1]}
    BY <2>1 DEF RoundsUp
  <2>3. g[n + 1] = last /\ \A k \in 0..n : g[k] = f[k]
    <3> HIDE DEF last
    <3> QED OBVIOUS
  <2>4. ASSUME NEW k \in 0..(n + 1)
        PROVE  g[k] = IF k = 0 THEN start ELSE UNION {step[x] : x \in g[k - 1]}
    <3> HIDE DEF g
    <3>1. CASE k = 0
      BY <2>2, <2>3, <3>1
    <3>2. CASE k \in 1..n
      <4>1. k - 1 \in 0..n /\ k \in 0..n /\ k # 0
        BY <3>2
      <4>2. g[k] = f[k] /\ g[k - 1] = f[k - 1]
        BY <2>3, <4>1
      <4> QED BY <2>2, <3>2, <4>1, <4>2
    <3>3. CASE k = n + 1
      <4>1. k # 0 /\ k - 1 = n /\ n \in 0..n
        BY <3>3
      <4>2. g[k - 1] = f[n]
        BY <2>3, <4>1
      <4> QED BY <2>3, <3>3, <4>1, <4>2
    <3> QED BY <3>1, <3>2, <3>3
  <2>5. RoundsUp(g, n + 1, start, step)
    <3>1. g = [k \in 0..(n + 1) |-> g[k]]
      OBVIOUS
    <3> HIDE DEF g
    <3>2. [k \in 0..(n + 1) |-> g[k]]
            = [k \in 0..(n + 1) |-> IF k = 0 THEN start ELSE UNION {step[x] : x \in g[k - 1]}]
      BY <2>4
    <3> QED BY <3>1, <3>2 DEF RoundsUp
  <2> QED BY <2>5
<1>3. \A n \in Nat : n \in Good
  <2> HIDE DEF Good
  <2> QED BY <1>1, <1>2, NatsByInduction
<1> QED BY <1>3

\* Round by round, what a loop makes of its start.
RoundsBy(f, n, start, step) ==
    /\ Rounds(n, start, step) = f[n] /\ f[0] = start
    /\ \A k \in 1..n : f[k] = UNION {step[x] : x \in f[k - 1]}

LEMMA RoundsIs ==
    ASSUME NEW n \in Nat, NEW start, NEW step
    PROVE  \E f : RoundsBy(f, n, start, step)
<1> DEFINE IsIt(g) == g = [k \in 0..n |-> IF k = 0 THEN start ELSE UNION {step[x] : x \in g[k - 1]}]
           g == CHOOSE g : IsIt(g)
<1>1. Rounds(n, start, step) = g[n]
  BY DEF Rounds
<1>2. \E f : IsIt(f)
  <2>1. PICK f : RoundsUp(f, n, start, step)
    BY RoundsExist, Zenon
  <2> QED BY <2>1 DEF RoundsUp
<1>3. IsIt(g)
  BY <1>2
<1> HIDE DEF g
<1>4. g[0] = start /\ \A k \in 1..n : g[k] = UNION {step[x] : x \in g[k - 1]}
  BY <1>3
<1> QED BY <1>1, <1>4 DEF RoundsBy

Keeps(step, T) == \A x \in T : step[x] \subseteq T

\* A loop stays in a set that no round leaves.
LEMMA RoundsStay ==
    ASSUME NEW n \in Nat, NEW start, NEW step, NEW T, start \subseteq T, Keeps(step, T)
    PROVE  Rounds(n, start, step) \subseteq T
<1>0. PICK f : RoundsBy(f, n, start, step)
  BY RoundsIs
<1>1. /\ Rounds(n, start, step) = f[n] /\ f[0] = start
      /\ \A k \in 1..n : f[k] = UNION {step[x] : x \in f[k - 1]}
  BY <1>0 DEF RoundsBy
<1> DEFINE Good == {k \in Nat : k <= n => f[k] \subseteq T}
<1>2. 0 \in Good
  BY <1>1
<1>3. ASSUME NEW k \in Nat, k \in Good PROVE k + 1 \in Good
  <2> SUFFICES ASSUME k + 1 <= n PROVE f[k + 1] \subseteq T
    OBVIOUS
  <2>1. f[k] \subseteq T /\ k + 1 \in 1..n /\ (k + 1) - 1 = k
    BY <1>3
  <2>2. f[k + 1] = UNION {step[x] : x \in f[k]}
    BY <1>1, <2>1
  <2> QED BY <2>1, <2>2 DEF Keeps
<1>4. n \in Good
  <2> HIDE DEF Good
  <2> QED BY <1>2, <1>3, NatsByInduction
<1> QED BY <1>1, <1>4

\* rank is what is left to be done; where nothing is, a round changes nothing.
Ends(step, T, rank) ==
    \A x \in T : /\ rank[x] \in Nat
                 /\ rank[x] = 0 => step[x] = {x}
                 /\ step[x] = {x} \/ \A y \in step[x] : rank[y] < rank[x]

Enough(n, start, rank) == \A x \in start : rank[x] <= n

\* A loop ends that does less in each round, if it has rounds enough.
LEMMA RoundsEnd ==
    ASSUME NEW n \in Nat, NEW start, NEW step, NEW T, start \subseteq T, Keeps(step, T),
           NEW rank, Ends(step, T, rank), Enough(n, start, rank)
    PROVE  \A x \in Rounds(n, start, step) : step[x] = {x}
<1>0. PICK f : RoundsBy(f, n, start, step)
  BY RoundsIs
<1>1. /\ Rounds(n, start, step) = f[n] /\ f[0] = start
      /\ \A k \in 1..n : f[k] = UNION {step[x] : x \in f[k - 1]}
  BY <1>0 DEF RoundsBy
<1> DEFINE Left(x, k) == step[x] = {x} \/ rank[x] + k <= n
           Good == {k \in Nat : k <= n => \A x \in f[k] : x \in T /\ Left(x, k)}
<1>2. 0 \in Good
  <2>1. ASSUME NEW x \in f[0] PROVE x \in T /\ rank[x] + 0 <= n
    <3>1. x \in T /\ rank[x] <= n
      BY <1>1 DEF Enough
    <3>2. rank[x] \in Nat
      BY <3>1 DEF Ends
    <3> QED BY <3>1, <3>2
  <2> QED BY <2>1
<1>3. ASSUME NEW k \in Nat, k \in Good PROVE k + 1 \in Good
  <2> SUFFICES ASSUME k + 1 <= n, NEW y \in f[k + 1] PROVE y \in T /\ Left(y, k + 1)
    OBVIOUS
  <2>1. k + 1 \in 1..n /\ (k + 1) - 1 = k /\ k <= n
    OBVIOUS
  <2>2. PICK x \in f[k] : y \in step[x]
    <3>1. f[k + 1] = UNION {step[x] : x \in f[k]}
      BY <1>1, <2>1
    <3> QED BY <3>1
  <2>3. x \in T /\ Left(x, k) /\ y \in T
    BY <1>3, <2>1, <2>2 DEF Keeps
  <2>4. CASE step[x] = {x}
    BY <2>2, <2>3, <2>4
  <2>5. CASE step[x] # {x}
    <3>1. rank[y] < rank[x] /\ rank[x] + k <= n
      BY <2>2, <2>3, <2>5 DEF Ends
    <3>2. rank[x] \in Nat /\ rank[y] \in Nat
      BY <2>3 DEF Ends
    <3>3. rank[y] + (k + 1) <= n
      BY <3>1, <3>2
    <3> QED BY <2>3, <3>3
  <2> QED BY <2>4, <2>5
<1>4. n \in Good
  <2> HIDE DEF Good
  <2> QED BY <1>2, <1>3, NatsByInduction
<1>5. ASSUME NEW x \in f[n] PROVE step[x] = {x}
  <2>1. x \in T /\ Left(x, n)
    BY <1>4
  <2>2. rank[x] \in Nat /\ (rank[x] = 0 => step[x] = {x})
    BY <2>1 DEF Ends
  <2> QED BY <2>1, <2>2
<1> QED BY <1>1, <1>5

-----------------------------------------------------------------------------
(* One search of a layer                                                    *)

LEMMA GraphFacts ==
    ASSUME GraphInv
    PROVE  /\ Len(vectors) \in Nat /\ Nodes = 1..Len(vectors)
           /\ IsFiniteSet(Nodes) /\ Cardinality(Nodes) = Len(vectors)
           /\ \A l \in Layers : /\ OnLayer(l) \subseteq Nodes /\ Closed(OnLayer(l), l)
                                /\ \A n \in Nodes : links[n][l] \subseteq Nodes
           /\ \A q \in Vectors : \A n \in Nodes : DistTo(q, n) \in Nat
<1>1. Len(vectors) \in Nat /\ Nodes = 1..Len(vectors)
  BY LenProperties DEF GraphInv, TypeOK, Nodes
<1>2. IsFiniteSet(Nodes) /\ Cardinality(Nodes) = Len(vectors)
  <2>1. IsFiniteSet(1..Len(vectors)) /\ Cardinality(1..Len(vectors)) = Len(vectors)
    <3>1. 1 \in Int /\ Len(vectors) \in Int
      BY <1>1
    <3>2. /\ IsFiniteSet(1..Len(vectors))
          /\ Cardinality(1..Len(vectors)) = IF 1 > Len(vectors) THEN 0 ELSE Len(vectors) - 1 + 1
      BY <3>1, FS_Interval, ZenonT(20)
    <3> QED BY <1>1, <3>2
  <2> QED BY <1>1, <2>1
<1>3. ASSUME NEW l \in Layers
      PROVE  /\ OnLayer(l) \subseteq Nodes /\ Closed(OnLayer(l), l)
             /\ \A n \in Nodes : links[n][l] \subseteq Nodes
  BY DEF GraphInv, LinksStayOnLayer, OnLayer, Closed
<1>4. ASSUME NEW q \in Vectors, NEW n \in Nodes PROVE DistTo(q, n) \in Nat
  <2>1. vectors[n] \in Vectors
    BY <1>1, ElementOfSeq DEF GraphInv, TypeOK
  <2> QED BY <2>1, GraphAssumption DEF DistTo
<1> QED BY <1>1, <1>2, <1>3, <1>4

\* Where a search of layer l from ep is: what is in the heaps, and what has been visited.
BeamInv(s, ep, q, ef, l) ==
    /\ s \in Frontiers /\ ep \in s.visited
    /\ s.new \subseteq s.visited /\ s.cands \subseteq s.visited \ s.new
    /\ s.results \subseteq s.visited \ s.new /\ s.results # {} /\ Cardinality(s.results) <= ef
    /\ \A v \in s.visited \ s.new : \E r \in s.results : DistTo(q, r) <= DistTo(q, v)
    /\ \A r \in s.results \ s.cands : links[r][l] \subseteq s.visited
    /\ \A C \in SUBSET Nodes : ep \in C /\ Closed(C, l) => s.visited \subseteq C
    /\ Len(vectors) <= ef => s.results = s.visited \ s.new

\* What is left to do: to test nodes, and to expand candidates.
BeamRank == [s \in Frontiers |-> 2 * Cardinality(Nodes \ s.visited) + 2 * Cardinality(s.new)
                                 + Cardinality(s.cands)]

LEMMA RankType == ASSUME GraphInv PROVE \A s \in Frontiers :
    /\ Cardinality(Nodes \ s.visited) \in Nat /\ Cardinality(s.new) \in Nat
    /\ Cardinality(s.cands) \in Nat /\ Cardinality(s.results) \in Nat /\ BeamRank[s] \in Nat
    /\ IsFiniteSet(s.new) /\ IsFiniteSet(s.cands) /\ IsFiniteSet(s.results)
    /\ IsFiniteSet(Nodes \ s.visited)
<1> SUFFICES ASSUME NEW s \in Frontiers
             PROVE  /\ Cardinality(Nodes \ s.visited) \in Nat /\ Cardinality(s.new) \in Nat
                    /\ Cardinality(s.cands) \in Nat /\ Cardinality(s.results) \in Nat
                    /\ BeamRank[s] \in Nat
                    /\ IsFiniteSet(s.new) /\ IsFiniteSet(s.cands) /\ IsFiniteSet(s.results)
                    /\ IsFiniteSet(Nodes \ s.visited)
  OBVIOUS
<1>1. IsFiniteSet(Nodes)
  BY GraphFacts
<1>2. \A S \in SUBSET Nodes : IsFiniteSet(S)
  BY <1>1, FS_Subset
<1>3. /\ Nodes \ s.visited \in SUBSET Nodes /\ s.new \in SUBSET Nodes
      /\ s.cands \in SUBSET Nodes /\ s.results \in SUBSET Nodes
  BY DEF Frontiers
<1>4. /\ IsFiniteSet(s.new) /\ IsFiniteSet(s.cands) /\ IsFiniteSet(s.results)
      /\ IsFiniteSet(Nodes \ s.visited)
  BY <1>2, <1>3
<1>5. /\ Cardinality(Nodes \ s.visited) \in Nat /\ Cardinality(s.new) \in Nat
      /\ Cardinality(s.cands) \in Nat /\ Cardinality(s.results) \in Nat
  BY <1>4, FS_CardinalityType
<1> QED BY <1>4, <1>5 DEF BeamRank

LEMMA RankIs ==
    ASSUME NEW s \in Frontiers, NEW a, NEW b, NEW c, Cardinality(Nodes \ s.visited) = a,
           Cardinality(s.new) = b, Cardinality(s.cands) = c
    PROVE  BeamRank[s] = 2 * a + 2 * b + c
BY DEF BeamRank

\* A node is pushed onto the results: something as near as any stays.
LEMMA KeptFacts ==
    ASSUME GraphInv, NEW q \in Vectors, NEW ef \in Nat \ {0}, NEW results \in SUBSET Nodes,
           NEW n \in Nodes \ results, Cardinality(results) <= ef, NEW k \in Kept(results, n, q, ef)
    PROVE  /\ k \subseteq results \cup {n} /\ k # {} /\ Cardinality(k) <= ef
           /\ \A a \in results \cup {n} : \E r \in k : DistTo(q, r) <= DistTo(q, a)
           /\ Cardinality(results) + 1 <= ef => k = results \cup {n}
<1> DEFINE all == results \cup {n}
<1>1. IsFiniteSet(all) /\ all # {} /\ all \in SUBSET Nodes
  BY GraphFacts, FS_Subset
<1>2. IsFiniteSet(results) /\ Cardinality(results) \in Nat /\ Cardinality(all) = Cardinality(results) + 1
  <2>1. IsFiniteSet(results) /\ Cardinality(results) \in Nat
    BY GraphFacts, FS_Subset, FS_CardinalityType
  <2> QED BY <2>1, FS_AddElement
<1>3. \A a \in all : DistTo(q, a) \in Nat
  BY <1>1, GraphFacts
<1>4. CASE Cardinality(all) <= ef
  <2>1. k = all
    BY <1>4 DEF Kept
  <2> QED BY <1>1, <1>2, <1>3, <1>4, <2>1
<1>5. CASE ~(Cardinality(all) <= ef)
  <2>1. PICK w \in Farthest(q, all) : k = all \ {w}
    BY <1>5 DEF Kept
  <2>2. w \in all /\ \A m \in all : DistTo(q, m) <= DistTo(q, w)
    BY <2>1 DEF Farthest
  <2> HIDE DEF all
  <2>3. Cardinality(k) = Cardinality(all) - 1
    BY <1>1, <2>1, <2>2, FS_RemoveElement
  <2>4. Cardinality(k) = ef
    BY <1>2, <1>5, <2>3
  <2>5. k # {}
    BY <2>4, FS_EmptySet
  <2>6. \A a \in all : \E r \in k : DistTo(q, r) <= DistTo(q, a)
    <3> SUFFICES ASSUME NEW a \in all PROVE \E r \in k : DistTo(q, r) <= DistTo(q, a)
      OBVIOUS
    <3>1. CASE a = w
      BY <2>1, <2>2, <2>5, <3>1
    <3>2. CASE a # w
      <4>1. a \in k /\ DistTo(q, a) <= DistTo(q, a)
        BY <1>3, <2>1, <3>2
      <4> QED BY <4>1
    <3> QED BY <3>1, <3>2
  <2>7. ~(Cardinality(results) + 1 <= ef)
    BY <1>2, <1>5
  <2> QED BY <2>1, <2>4, <2>5, <2>6, <2>7 DEF all
<1> QED BY <1>4, <1>5

\* A neighbour is tested.
LEMMA TestedStep ==
    ASSUME GraphInv, NEW q \in Vectors, NEW ef \in Nat \ {0}, NEW l \in Layers, NEW ep \in Nodes,
           NEW s, BeamInv(s, ep, q, ef, l), NEW n \in s.new, NEW t \in Tested(s, n, q, ef)
    PROVE  BeamInv(t, ep, q, ef, l) /\ BeamRank[t] < BeamRank[s] /\ t # s
<1>1. /\ s \in Frontiers /\ ep \in s.visited
      /\ s.new \subseteq s.visited /\ s.cands \subseteq s.visited \ s.new
      /\ s.results \subseteq s.visited \ s.new /\ s.results # {} /\ Cardinality(s.results) <= ef
      /\ \A v \in s.visited \ s.new : \E r \in s.results : DistTo(q, r) <= DistTo(q, v)
      /\ \A r \in s.results \ s.cands : links[r][l] \subseteq s.visited
      /\ \A C \in SUBSET Nodes : ep \in C /\ Closed(C, l) => s.visited \subseteq C
      /\ Len(vectors) <= ef => s.results = s.visited \ s.new
  BY DEF BeamInv
<1>2. /\ s.visited \in SUBSET Nodes /\ s.new \in SUBSET Nodes /\ s.cands \in SUBSET Nodes
      /\ s.results \in SUBSET Nodes /\ n \in Nodes \ s.results /\ n \in s.visited
  BY <1>1 DEF Frontiers
<1>3. \A m \in Nodes : DistTo(q, m) \in Nat
  BY GraphFacts
<1>4. /\ Cardinality(Nodes \ s.visited) \in Nat /\ Cardinality(s.new) \in Nat
      /\ Cardinality(s.cands) \in Nat /\ Cardinality(s.results) \in Nat
      /\ IsFiniteSet(s.new) /\ IsFiniteSet(s.cands) /\ IsFiniteSet(s.results)
  BY <1>1, RankType
<1>5. Cardinality(s.new \ {n}) = Cardinality(s.new) - 1
  BY <1>4, FS_RemoveElement
<1>6. CASE Cardinality(s.results) < ef \/ \E r \in s.results : DistTo(q, n) < DistTo(q, r)
  <2>1. PICK k \in Kept(s.results, n, q, ef) :
          t = [s EXCEPT !.new = @ \ {n}, !.cands = @ \cup {n}, !.results = k]
    BY <1>6 DEF Tested
  <2>2. /\ k \subseteq s.results \cup {n} /\ k # {} /\ Cardinality(k) <= ef
        /\ \A a \in s.results \cup {n} : \E r \in k : DistTo(q, r) <= DistTo(q, a)
        /\ Cardinality(s.results) + 1 <= ef => k = s.results \cup {n}
    BY <1>1, <1>2, KeptFacts
  <2>3. /\ t.new = s.new \ {n} /\ t.cands = s.cands \cup {n} /\ t.results = k
        /\ t.visited = s.visited /\ t \in Frontiers
    BY <1>1, <1>2, <2>1, <2>2 DEF Frontiers
  <2>4. t.results \subseteq t.visited \ t.new /\ t.cands \subseteq t.visited \ t.new
    BY <1>1, <1>2, <2>2, <2>3
  <2>5. ASSUME NEW v \in t.visited \ t.new
        PROVE  \E r \in t.results : DistTo(q, r) <= DistTo(q, v)
    <3>1. PICK a \in s.results \cup {n} : DistTo(q, a) <= DistTo(q, v) /\ v \in Nodes
      <4>1. CASE v = n
        BY <1>2, <1>3, <4>1
      <4>2. CASE v # n
        <5>1. v \in s.visited \ s.new
          BY <2>3, <4>2
        <5> QED BY <1>1, <1>2, <5>1
      <4> QED BY <4>1, <4>2
    <3>2. PICK r \in k : DistTo(q, r) <= DistTo(q, a)
      BY <2>2
    <3>3. r \in Nodes /\ a \in Nodes
      BY <1>2, <2>2
    <3>4. DistTo(q, r) \in Nat /\ DistTo(q, a) \in Nat /\ DistTo(q, v) \in Nat
      BY <1>3, <3>1, <3>3
    <3>5. DistTo(q, r) <= DistTo(q, v)
      BY <3>1, <3>2, <3>4
    <3> QED BY <2>3, <3>2, <3>5
  <2>6. \A r \in t.results \ t.cands : links[r][l] \subseteq t.visited
    BY <1>1, <2>2, <2>3
  <2>7. Len(vectors) <= ef => t.results = t.visited \ t.new
    <3> SUFFICES ASSUME Len(vectors) <= ef PROVE t.results = t.visited \ t.new
      OBVIOUS
    <3>1. s.results \cup {n} \in SUBSET Nodes /\ Cardinality(s.results \cup {n}) = Cardinality(s.results) + 1
      BY <1>2, <1>4, FS_AddElement
    <3>2. Cardinality(s.results \cup {n}) <= Len(vectors) /\ Len(vectors) \in Nat
      BY <3>1, GraphFacts, FS_Subset
    <3>3. k = s.results \cup {n}
      BY <1>4, <2>2, <3>1, <3>2
    <3> QED BY <1>1, <1>2, <2>3, <3>3
  <2>8. BeamInv(t, ep, q, ef, l)
    BY <1>1, <2>2, <2>3, <2>4, <2>5, <2>6, <2>7 DEF BeamInv
  <2>9. Cardinality(s.cands \cup {n}) <= Cardinality(s.cands) + 1 /\ Cardinality(s.cands \cup {n}) \in Nat
    <3>1. Cardinality(s.cands \cup {n}) = Cardinality(s.cands) + 1
      <4>1. n \notin s.cands
        BY <1>1
      <4> QED BY <1>4, <4>1, FS_AddElement
    <3> QED BY <1>4, <3>1
  <2>10. BeamRank[t] < BeamRank[s]
    <3>1. PICK a \in Nat, b \in Nat, c \in Nat, d \in Nat :
            /\ a = Cardinality(Nodes \ s.visited) /\ b = Cardinality(s.new)
            /\ c = Cardinality(s.cands) /\ d = Cardinality(s.cands \cup {n})
      BY <1>4, <2>9
    <3>2. BeamRank[s] = 2 * a + 2 * b + c
      BY <1>1, <3>1, RankIs
    <3>3. BeamRank[t] = 2 * a + 2 * (b - 1) + d
      <4>1. PICK e \in Int : e = b - 1
        BY <3>1
      <4>2. t \in Frontiers /\ Cardinality(t.new) = e /\ Cardinality(t.cands) = d /\ Cardinality(Nodes \ t.visited) = a
        BY <1>5, <2>3, <3>1, <4>1
      <4>3. BeamRank[t] = 2 * a + 2 * e + d
        BY <4>2, RankIs
      <4> QED BY <4>1, <4>3
    <3>4. d <= c + 1
      BY <2>9, <3>1
    <3> QED BY <3>1, <3>2, <3>3, <3>4
  <2> QED BY <2>3, <2>8, <2>10
<1>7. CASE ~(Cardinality(s.results) < ef \/ \E r \in s.results : DistTo(q, n) < DistTo(q, r))
  <2>1. t = [s EXCEPT !.new = @ \ {n}]
    BY <1>7 DEF Tested
  <2>2. /\ t.new = s.new \ {n} /\ t.cands = s.cands /\ t.results = s.results
        /\ t.visited = s.visited /\ t \in Frontiers
    BY <1>1, <1>2, <2>1 DEF Frontiers
  <2>3. ASSUME NEW v \in t.visited \ t.new
        PROVE  \E r \in t.results : DistTo(q, r) <= DistTo(q, v)
    <3>1. CASE v = n
      <4>1. PICK r \in s.results : r \in Nodes
        BY <1>1, <1>2
      <4>2. DistTo(q, r) \in Nat /\ DistTo(q, n) \in Nat /\ ~(DistTo(q, n) < DistTo(q, r))
        BY <1>2, <1>3, <1>7, <4>1
      <4>3. DistTo(q, r) <= DistTo(q, n)
        BY <4>2
      <4> QED BY <2>2, <3>1, <4>1, <4>3
    <3>2. CASE v # n
      BY <1>1, <2>2, <3>2
    <3> QED BY <3>1, <3>2
  <2>4. Len(vectors) <= ef => FALSE
    <3> SUFFICES ASSUME Len(vectors) <= ef PROVE FALSE
      OBVIOUS
    <3>1. s.results \cup {n} \in SUBSET Nodes /\ Cardinality(s.results \cup {n}) = Cardinality(s.results) + 1
      BY <1>2, <1>4, FS_AddElement
    <3>2. Cardinality(s.results \cup {n}) <= Len(vectors) /\ Len(vectors) \in Nat
      BY <3>1, GraphFacts, FS_Subset
    <3> QED BY <1>4, <1>7, <3>1, <3>2
  <2>5. BeamInv(t, ep, q, ef, l)
    BY <1>1, <2>2, <2>3, <2>4 DEF BeamInv
  <2>6. BeamRank[t] < BeamRank[s]
    <3>1. PICK a \in Nat, b \in Nat, c \in Nat :
            /\ a = Cardinality(Nodes \ s.visited) /\ b = Cardinality(s.new)
            /\ c = Cardinality(s.cands)
      BY <1>4
    <3>2. BeamRank[s] = 2 * a + 2 * b + c
      BY <1>1, <3>1, RankIs
    <3>3. BeamRank[t] = 2 * a + 2 * (b - 1) + c
      <4>1. PICK e \in Int : e = b - 1
        BY <3>1
      <4>2. t \in Frontiers /\ Cardinality(t.new) = e /\ Cardinality(t.cands) = c /\ Cardinality(Nodes \ t.visited) = a
        BY <1>5, <2>2, <3>1, <4>1
      <4>3. BeamRank[t] = 2 * a + 2 * e + c
        BY <4>2, RankIs
      <4> QED BY <4>1, <4>3
    <3> QED BY <3>1, <3>2, <3>3
  <2> QED BY <2>2, <2>5, <2>6
<1> QED BY <1>6, <1>7

\* A candidate is expanded.
LEMMA ExpandedStep ==
    ASSUME GraphInv, NEW q \in Vectors, NEW ef \in Nat \ {0}, NEW l \in Layers, NEW ep \in Nodes,
           NEW s, BeamInv(s, ep, q, ef, l), s.new = {}, NEW c \in Nearest(q, s.cands),
           ~BeamEnds(c, s.results, q, ef)
    PROVE  LET t == Expanded(s, c, q, ef, l)
           IN  BeamInv(t, ep, q, ef, l) /\ BeamRank[t] < BeamRank[s] /\ t # s
<1> DEFINE t == Expanded(s, c, q, ef, l)
           add == links[c][l] \ s.visited
<1>1. /\ s \in Frontiers /\ ep \in s.visited
      /\ s.new \subseteq s.visited /\ s.cands \subseteq s.visited \ s.new
      /\ s.results \subseteq s.visited \ s.new /\ s.results # {} /\ Cardinality(s.results) <= ef
      /\ \A v \in s.visited \ s.new : \E r \in s.results : DistTo(q, r) <= DistTo(q, v)
      /\ \A r \in s.results \ s.cands : links[r][l] \subseteq s.visited
      /\ \A C \in SUBSET Nodes : ep \in C /\ Closed(C, l) => s.visited \subseteq C
      /\ Len(vectors) <= ef => s.results = s.visited \ s.new
  BY DEF BeamInv
<1>2. /\ s.visited \in SUBSET Nodes /\ s.new \in SUBSET Nodes /\ s.cands \in SUBSET Nodes
      /\ s.results \in SUBSET Nodes /\ c \in s.cands /\ c \in Nodes /\ links[c][l] \in SUBSET Nodes
  <2>1. c \in s.cands
    BY DEF Nearest
  <2> QED BY <1>1, <2>1, GraphFacts DEF Frontiers
<1>3. /\ Cardinality(Nodes \ s.visited) \in Nat /\ Cardinality(s.cands) \in Nat
      /\ IsFiniteSet(s.cands) /\ IsFiniteSet(Nodes \ s.visited)
  BY <1>1, RankType
<1>4. /\ t.cands = s.cands \ {c} /\ t.new = add /\ t.visited = s.visited \cup links[c][l]
      /\ t.results = s.results /\ t \in Frontiers
  <2>1. t = [s EXCEPT !.cands = @ \ {c}, !.new = links[c][l] \ s.visited, !.visited = @ \cup links[c][l]]
    BY DEF Expanded
  <2>2. s \in Frontiers
    BY <1>1
  <2> HIDE DEF t
  <2>3. t.cands = s.cands \ {c} /\ t.new = add /\ t.visited = s.visited \cup links[c][l] /\ t.results = s.results
    BY <2>1, <2>2 DEF Frontiers
  <2>4. t \in Frontiers
    BY <1>2, <2>1, <2>2 DEF Frontiers
  <2> QED BY <2>3, <2>4
<1> HIDE DEF t
<1>5. t.visited \ t.new = s.visited
  BY <1>4
<1>6. /\ t.new \subseteq t.visited /\ ep \in t.visited
      /\ t.cands \subseteq t.visited \ t.new /\ t.results \subseteq t.visited \ t.new
      /\ Len(vectors) <= ef => t.results = t.visited \ t.new
  BY <1>1, <1>4, <1>5
<1>7. \A v \in t.visited \ t.new : \E r \in t.results : DistTo(q, r) <= DistTo(q, v)
  BY <1>1, <1>4, <1>5
<1>8. \A r \in t.results \ t.cands : links[r][l] \subseteq t.visited
  BY <1>1, <1>4
<1>9. ASSUME NEW C \in SUBSET Nodes, ep \in C, Closed(C, l) PROVE t.visited \subseteq C
  <2>1. c \in C
    BY <1>1, <1>2, <1>9
  <2> QED BY <1>1, <1>4, <1>9, <2>1 DEF Closed
<1>10. BeamInv(t, ep, q, ef, l)
  BY <1>1, <1>4, <1>6, <1>7, <1>8, <1>9 DEF BeamInv
<1>11. /\ Cardinality(Nodes \ t.visited) \in Nat /\ Cardinality(add) \in Nat
       /\ Cardinality(Nodes \ s.visited) = Cardinality(Nodes \ t.visited) + Cardinality(add)
  <2>1. add \in SUBSET (Nodes \ s.visited) /\ Nodes \ t.visited = (Nodes \ s.visited) \ add
    BY <1>2, <1>4
  <2>2. IsFiniteSet(add) /\ Cardinality(add) \in Nat
    BY <1>3, <2>1, FS_Subset, FS_CardinalityType
  <2>3. IsFiniteSet(Nodes \ t.visited) /\ Cardinality(Nodes \ t.visited) \in Nat
    BY <1>3, <2>1, FS_Subset, FS_CardinalityType
  <2>4. Nodes \ s.visited = (Nodes \ t.visited) \cup add /\ (Nodes \ t.visited) \cap add = {}
    BY <2>1
  <2>5. Cardinality((Nodes \ t.visited) \cup add) = Cardinality(Nodes \ t.visited) + Cardinality(add)
    <3>1. Cardinality((Nodes \ t.visited) \cup add)
            = Cardinality(Nodes \ t.visited) + Cardinality(add) - Cardinality((Nodes \ t.visited) \cap add)
      BY <2>2, <2>3, FS_Union
    <3>2. Cardinality((Nodes \ t.visited) \cap add) = 0
      BY <2>4, FS_EmptySet
    <3> QED BY <2>2, <2>3, <3>1, <3>2
  <2> QED BY <2>2, <2>3, <2>4, <2>5
<1>12. Cardinality(s.cands \ {c}) = Cardinality(s.cands) - 1
  BY <1>2, <1>3, FS_RemoveElement
<1>13. Cardinality(s.new) = 0
  BY FS_EmptySet
<1>14. BeamRank[t] < BeamRank[s]
  <2>1. PICK a \in Nat, b \in Nat, d \in Nat :
          /\ a = Cardinality(Nodes \ t.visited) /\ b = Cardinality(add) /\ d = Cardinality(s.cands)
    BY <1>3, <1>11
  <2>2. BeamRank[t] = 2 * a + 2 * b + (d - 1)
    <3>1. PICK e \in Int : e = d - 1
      BY <2>1
    <3>2. t \in Frontiers /\ Cardinality(t.new) = b /\ Cardinality(t.cands) = e /\ Cardinality(Nodes \ t.visited) = a
      BY <1>4, <1>12, <2>1, <3>1
    <3>3. BeamRank[t] = 2 * a + 2 * b + e
      BY <3>2, RankIs
    <3> QED BY <3>1, <3>3
  <2>3. BeamRank[s] = 2 * (a + b) + 2 * 0 + d
    <3>1. PICK e \in Int : e = a + b
      BY <2>1
    <3>2. PICK z \in Int : z = 0
      OBVIOUS
    <3>3. s \in Frontiers /\ Cardinality(s.new) = z /\ Cardinality(s.cands) = d /\ Cardinality(Nodes \ s.visited) = e
      BY <1>1, <1>11, <1>13, <2>1, <3>1, <3>2
    <3>4. BeamRank[s] = 2 * e + 2 * z + d
      <4>1. BeamRank[s] = 2 * Cardinality(Nodes \ s.visited) + 2 * Cardinality(s.new) + Cardinality(s.cands)
        BY <1>1 DEF BeamRank
      <4> QED BY <3>3, <4>1
    <3> QED BY <3>1, <3>2, <3>4
  <2> QED BY <2>1, <2>2, <2>3
<1>15. t # s
  BY <1>2, <1>4
<1> QED BY <1>10, <1>14, <1>15 DEF t

\* Where a search of a layer ends: every candidate has been expanded, or what is left
\* of them is farther away than all results.
LEMMA SearchLayerEnds ==
    ASSUME GraphInv, NEW q \in Vectors, NEW ef \in Nat \ {0}, NEW l \in Layers, NEW ep \in Nodes,
           NEW found \in SearchLayer(ep, q, ef, l)
    PROVE  \E s : /\ BeamInv(s, ep, q, ef, l) /\ s.results = found /\ s.new = {}
                  /\ s.cands = {} \/ \E c \in Nearest(q, s.cands) : BeamEnds(c, found, q, ef)
<1> DEFINE first == [cands |-> {ep}, results |-> {ep}, visited |-> {ep}, new |-> {}]
           step == BeamRound(q, ef, l)
           T == {s \in Frontiers : BeamInv(s, ep, q, ef, l)}
           n == 2 * Len(vectors)
<1>1. first \in T
  <2>1. first \in Frontiers
    BY DEF Frontiers
  <2>2. Cardinality({ep}) = 1
    BY FS_Singleton
  <2>3. DistTo(q, ep) <= DistTo(q, ep)
    <3>1. DistTo(q, ep) \in Nat
      BY GraphFacts
    <3> QED BY <3>1
  <2>4. /\ ep \in first.visited /\ first.new \subseteq first.visited
        /\ first.cands \subseteq first.visited \ first.new
        /\ first.results = first.visited \ first.new /\ first.results # {} /\ first.results = {ep}
        /\ first.visited \ first.new = {ep} /\ first.results \ first.cands = {}
        /\ first.visited = {ep}
    OBVIOUS
  <2> HIDE DEF first
  <2>5. Cardinality(first.results) <= ef
    BY <2>2, <2>4
  <2>6. /\ \A v \in first.visited \ first.new : \E r \in first.results : DistTo(q, r) <= DistTo(q, v)
        /\ \A r \in first.results \ first.cands : links[r][l] \subseteq first.visited
        /\ \A C \in SUBSET Nodes : ep \in C /\ Closed(C, l) => first.visited \subseteq C
    BY <2>3, <2>4
  <2>7. BeamInv(first, ep, q, ef, l)
    BY <2>1, <2>4, <2>5, <2>6 DEF BeamInv
  <2> QED BY <2>1, <2>7
<1>2. BeamRank[first] <= n
  <2>1. first \in Frontiers /\ first.visited = {ep} /\ first.cands = {ep} /\ first.new = {}
    BY <1>1
  <2> HIDE DEF first
  <2>2. Cardinality({ep}) = 1 /\ Cardinality({}) = 0
    BY FS_Singleton, FS_EmptySet
  <2>3. Cardinality(Nodes \ {ep}) = Len(vectors) - 1 /\ Len(vectors) \in Nat
    BY GraphFacts, FS_RemoveElement
  <2>4. BeamRank[first] = 2 * Cardinality(Nodes \ {ep}) + 2 * 0 + 1
    BY <2>1, <2>2 DEF BeamRank
  <2> QED BY <2>3, <2>4
<1>3. ASSUME NEW s \in T
      PROVE  /\ step[s] \subseteq T
             /\ step[s] # {s} => \A t \in step[s] : BeamRank[t] < BeamRank[s]
             /\ step[s] = {s} => s.new = {}
             /\ step[s] = {s} => s.cands = {} \/ \E c \in Nearest(q, s.cands) : BeamEnds(c, s.results, q, ef)
             /\ s.new = {} /\ s.cands = {} => step[s] = {s}
  <2>1. BeamInv(s, ep, q, ef, l) /\ s \in Frontiers
    OBVIOUS
  <2>2. step[s] = IF s.new # {} THEN UNION {Tested(s, n1, q, ef) : n1 \in s.new}
                  ELSE IF s.cands = {} THEN {s}
                  ELSE {Expanded(s, c, q, ef, l) : c \in Nearest(q, s.cands)}
    BY <2>1 DEF BeamRound
  <2> HIDE DEF step
  <2>3. CASE s.new # {}
    <3>1. step[s] = UNION {Tested(s, n1, q, ef) : n1 \in s.new}
      BY <2>2, <2>3
    <3>2. ASSUME NEW t \in step[s]
          PROVE  BeamInv(t, ep, q, ef, l) /\ BeamRank[t] < BeamRank[s] /\ t # s
      <4>1. PICK n1 \in s.new : t \in Tested(s, n1, q, ef)
        BY <3>1
      <4> QED BY <2>1, <4>1, TestedStep
    <3>3. \A t \in step[s] : t \in T /\ BeamRank[t] < BeamRank[s] /\ t # s
      BY <3>2 DEF BeamInv
    <3>4. step[s] # {s}
      BY <3>3
    <3> HIDE DEF T
    <3> QED BY <2>3, <3>3, <3>4
  <2>4. CASE s.new = {} /\ s.cands = {}
    <3>1. step[s] = {s}
      BY <2>2, <2>4
    <3> QED BY <2>1, <2>4, <3>1
  <2>5. CASE s.new = {} /\ s.cands # {}
    <3>1. step[s] = {Expanded(s, c, q, ef, l) : c \in Nearest(q, s.cands)}
      BY <2>2, <2>5
    <3>2. CASE \E c \in Nearest(q, s.cands) : BeamEnds(c, s.results, q, ef)
      <4>1. ASSUME NEW c \in Nearest(q, s.cands) PROVE Expanded(s, c, q, ef, l) = s
        <5>1. PICK d \in Nearest(q, s.cands) : BeamEnds(d, s.results, q, ef)
          BY <3>2
        <5>2. c \in s.cands /\ d \in s.cands /\ s.cands \subseteq Nodes /\ s.results \subseteq Nodes
          BY <2>1 DEF Nearest, Frontiers
        <5>3. DistTo(q, c) = DistTo(q, d)
          <6>1. DistTo(q, c) <= DistTo(q, d) /\ DistTo(q, d) <= DistTo(q, c)
            BY <5>2 DEF Nearest
          <6>2. DistTo(q, c) \in Nat /\ DistTo(q, d) \in Nat
            BY <5>2, GraphFacts
          <6> QED BY <6>1, <6>2
        <5>4. BeamEnds(c, s.results, q, ef)
          BY <5>1, <5>3 DEF BeamEnds
        <5> QED BY <5>4 DEF Expanded
      <4>2. step[s] = {s}
        BY <3>1, <3>2, <4>1
      <4> QED BY <2>1, <2>5, <3>2, <4>2
    <3>3. CASE ~(\E c \in Nearest(q, s.cands) : BeamEnds(c, s.results, q, ef))
      <4>1. ASSUME NEW t \in step[s]
            PROVE  BeamInv(t, ep, q, ef, l) /\ BeamRank[t] < BeamRank[s] /\ t # s
        <5>1. PICK c \in Nearest(q, s.cands) : t = Expanded(s, c, q, ef, l)
          BY <3>1
        <5>2. ~BeamEnds(c, s.results, q, ef)
          BY <3>3
        <5> QED BY <2>1, <2>5, <5>1, <5>2, ExpandedStep
      <4>2. \A t \in step[s] : t \in T /\ BeamRank[t] < BeamRank[s] /\ t # s
        BY <4>1 DEF BeamInv
      <4>3. step[s] # {s}
        BY <4>2
      <4> HIDE DEF T
      <4> QED BY <2>5, <4>2, <4>3
    <3> QED BY <3>2, <3>3
  <2> QED BY <2>3, <2>4, <2>5
<1>4. Keeps(step, T)
  <2> HIDE DEF step, T
  <2> QED BY <1>3 DEF Keeps
<1>5. Ends(step, T, BeamRank)
  <2>1. ASSUME NEW s \in T
        PROVE  BeamRank[s] \in Nat /\ (BeamRank[s] = 0 => step[s] = {s})
    <3>1. s \in Frontiers
      OBVIOUS
    <3> HIDE DEF step, T
    <3>2. BeamRank[s] \in Nat
      BY <3>1, RankType
    <3>3. ASSUME BeamRank[s] = 0 PROVE s.new = {} /\ s.cands = {}
      <4>1. /\ Cardinality(Nodes \ s.visited) \in Nat /\ Cardinality(s.new) \in Nat
            /\ Cardinality(s.cands) \in Nat /\ IsFiniteSet(s.new) /\ IsFiniteSet(s.cands)
        BY <3>1, RankType
      <4>2. BeamRank[s] = 2 * Cardinality(Nodes \ s.visited) + 2 * Cardinality(s.new) + Cardinality(s.cands)
        BY <3>1 DEF BeamRank
      <4>3. Cardinality(s.new) = 0 /\ Cardinality(s.cands) = 0
        BY <3>3, <4>1, <4>2
      <4> QED BY <4>1, <4>3, FS_EmptySet
    <3> QED BY <1>3, <3>2, <3>3
  <2> HIDE DEF step, T
  <2>2. \A s \in T : step[s] = {s} \/ \A y \in step[s] : BeamRank[y] < BeamRank[s]
    BY <1>3
  <2> QED BY <2>1, <2>2 DEF Ends
<1>6. PICK s \in Rounds(n, {first}, step) : s.results = found
  BY DEF SearchLayer
<1>7. n \in Nat /\ {first} \subseteq T /\ Enough(n, {first}, BeamRank)
  <2>1. n \in Nat
    BY GraphFacts
  <2> HIDE DEF n, first, T
  <2> QED BY <1>1, <1>2, <2>1 DEF Enough
<1>8. s \in T
  <2> HIDE DEF n, first, T, step
  <2> QED BY <1>4, <1>6, <1>7, RoundsStay
<1>9. step[s] = {s}
  <2> HIDE DEF n, first, T, step
  <2> QED BY <1>4, <1>5, <1>6, <1>7, RoundsEnd
<1>10. s.new = {} /\ (s.cands = {} \/ \E c \in Nearest(q, s.cands) : BeamEnds(c, s.results, q, ef))
  <2> HIDE DEF step, T
  <2> QED BY <1>3, <1>8, <1>9
<1> QED BY <1>6, <1>8, <1>10

\* What a search of a layer finds are nodes of the layer, at least one and at most ef.
LEMMA SearchLayerFinds ==
    ASSUME GraphInv, NEW q \in Vectors, NEW ef \in Nat \ {0}, NEW l \in Layers, NEW ep \in Nodes,
           NEW found \in SearchLayer(ep, q, ef, l)
    PROVE  /\ found \subseteq Nodes /\ found # {} /\ Cardinality(found) <= ef
           /\ IsFiniteSet(found) /\ Cardinality(found) \in Nat
           /\ ep \in OnLayer(l) => found \subseteq OnLayer(l)
<1>1. PICK s : BeamInv(s, ep, q, ef, l) /\ s.results = found
  BY SearchLayerEnds
<1>2. /\ s \in Frontiers /\ s.results \subseteq s.visited /\ s.results # {}
      /\ Cardinality(s.results) <= ef
      /\ \A C \in SUBSET Nodes : ep \in C /\ Closed(C, l) => s.visited \subseteq C
  BY <1>1 DEF BeamInv
<1>3. found \subseteq Nodes
  BY <1>1, <1>2 DEF Frontiers
<1>4. IsFiniteSet(found) /\ Cardinality(found) \in Nat
  BY <1>3, GraphFacts, FS_Subset, FS_CardinalityType
<1>5. ep \in OnLayer(l) => found \subseteq OnLayer(l)
  BY <1>1, <1>2, GraphFacts
<1> QED BY <1>1, <1>2, <1>3, <1>4, <1>5

\* No neighbour of the nearest result is nearer than it.
LEMMA SearchLayerMinimum ==
    ASSUME GraphInv, NEW q \in Vectors, NEW ef \in Nat \ {0}, NEW l \in Layers, NEW ep \in Nodes,
           NEW found \in SearchLayer(ep, q, ef, l), NEW best \in Nearest(q, found),
           NEW n \in links[best][l]
    PROVE  DistTo(q, best) <= DistTo(q, n)
<1>1. PICK s : /\ BeamInv(s, ep, q, ef, l) /\ s.results = found /\ s.new = {}
               /\ s.cands = {} \/ \E c \in Nearest(q, s.cands) : BeamEnds(c, found, q, ef)
  BY SearchLayerEnds
<1>2. /\ s \in Frontiers
      /\ \A v \in s.visited \ s.new : \E r \in s.results : DistTo(q, r) <= DistTo(q, v)
      /\ \A r \in s.results \ s.cands : links[r][l] \subseteq s.visited
  BY <1>1 DEF BeamInv
<1>3. best \in found /\ \A m \in found : DistTo(q, best) <= DistTo(q, m)
  BY DEF Nearest
<1>4. s.cands \subseteq Nodes /\ found \subseteq Nodes /\ n \in Nodes
  BY <1>1, <1>2, <1>3, GraphFacts DEF Frontiers
<1>5. best \notin s.cands
  <2> SUFFICES ASSUME best \in s.cands PROVE FALSE
    OBVIOUS
  <2>1. PICK c \in Nearest(q, s.cands) : BeamEnds(c, found, q, ef)
    BY <1>1
  <2>2. c \in s.cands /\ DistTo(q, c) <= DistTo(q, best)
    BY <2>1 DEF Nearest
  <2>3. DistTo(q, c) > DistTo(q, best)
    BY <1>3, <2>1 DEF BeamEnds
  <2>4. DistTo(q, c) \in Nat /\ DistTo(q, best) \in Nat
    BY <1>3, <1>4, <2>2, GraphFacts
  <2> QED BY <2>2, <2>3, <2>4
<1>6. n \in s.visited \ s.new
  BY <1>1, <1>2, <1>3, <1>5
<1>7. PICK r \in found : DistTo(q, r) <= DistTo(q, n)
  BY <1>1, <1>2, <1>6
<1>8. DistTo(q, best) <= DistTo(q, r)
  BY <1>3
<1>9. DistTo(q, best) \in Nat /\ DistTo(q, r) \in Nat /\ DistTo(q, n) \in Nat
  BY <1>3, <1>4, GraphFacts
<1> QED BY <1>7, <1>8, <1>9

\* With room for all nodes it finds all that can be reached, and nothing else.
LEMMA SearchLayerWide ==
    ASSUME GraphInv, NEW q \in Vectors, NEW ef \in Nat \ {0}, NEW l \in Layers, NEW ep \in Nodes,
           NEW found \in SearchLayer(ep, q, ef, l), Len(vectors) <= ef
    PROVE  found = Reach(ep, l)
<1>1. PICK s : /\ BeamInv(s, ep, q, ef, l) /\ s.results = found /\ s.new = {}
               /\ s.cands = {} \/ \E c \in Nearest(q, s.cands) : BeamEnds(c, found, q, ef)
  BY SearchLayerEnds
<1>2. /\ s \in Frontiers /\ ep \in s.visited /\ s.results = s.visited \ s.new
      /\ s.cands \subseteq s.visited
      /\ \A r \in s.results \ s.cands : links[r][l] \subseteq s.visited
      /\ \A C \in SUBSET Nodes : ep \in C /\ Closed(C, l) => s.visited \subseteq C
  BY <1>1 DEF BeamInv
<1>3. found = s.visited /\ found \subseteq Nodes /\ s.cands \subseteq found
  BY <1>1, <1>2 DEF Frontiers
<1>4. s.cands = {}
  <2> SUFFICES ASSUME NEW c \in Nearest(q, s.cands), BeamEnds(c, found, q, ef) PROVE FALSE
    BY <1>1
  <2>1. c \in found /\ c \in Nodes
    BY <1>3 DEF Nearest
  <2>2. DistTo(q, c) > DistTo(q, c) /\ DistTo(q, c) \in Nat
    BY <2>1, GraphFacts DEF BeamEnds
  <2> QED BY <2>2
<1>5. ep \in found /\ Closed(found, l)
  BY <1>2, <1>3, <1>4, <1>1 DEF Closed
<1>6. Reach(ep, l) \subseteq found
  BY <1>3, <1>5 DEF Reach
<1>7. found \subseteq Reach(ep, l)
  BY <1>2, <1>3 DEF Reach
<1> QED BY <1>6, <1>7

-----------------------------------------------------------------------------
(* The way down                                                             *)

LEMMA GreedyStays ==
    ASSUME GraphInv, NEW q \in Vectors, NEW l \in Layers, NEW ep \in OnLayer(l)
    PROVE  Greedy(ep, q, l) \subseteq OnLayer(l)
<1> DEFINE step == GreedyRound(q, l)
           T == OnLayer(l)
<1>1. Keeps(step, T)
  <2> SUFFICES ASSUME NEW x \in T PROVE step[x] \subseteq T
    BY DEF Keeps
  <2>1. x \in Nodes /\ links[x][l] \subseteq T
    BY GraphFacts DEF Closed
  <2>2. step[x] = LET best == Nearest(q, links[x][l] \cup {x})
                  IN  IF x \in best THEN {x} ELSE best
    BY <2>1 DEF GreedyRound
  <2> QED BY <2>1, <2>2 DEF Nearest
<1>2. Len(vectors) \in Nat /\ {ep} \subseteq T
  BY GraphFacts
<1>3. Rounds(Len(vectors), {ep}, step) \subseteq T
  <2> HIDE DEF step, T
  <2> QED BY <1>1, <1>2, RoundsStay
<1> QED BY <1>3 DEF Greedy

LEMMA TopFacts ==
    ASSUME GraphInv, Nodes # {}
    PROVE  top \in Layers /\ entry \in OnLayer(top) /\ MaxLayers \in Nat \ {0} /\ Layers = 0..(MaxLayers - 1)
<1>1. entry \in Nodes /\ level[entry] = top /\ MaxLayers \in Nat \ {0}
  BY GraphAssumption DEF GraphInv, EntryOnTop
<1>2. level[entry] \in Layers
  <2>1. level \in Seq(Layers) /\ entry \in 1..Len(level)
    BY <1>1 DEF GraphInv, TypeOK, Nodes
  <2> QED BY <2>1, ElementOfSeq
<1> QED BY <1>1, <1>2 DEF OnLayer, Layers

LEMMA LayersNested ==
    ASSUME GraphInv, NEW k \in Layers, NEW l \in Layers, l <= k
    PROVE  OnLayer(k) \subseteq OnLayer(l)
<1> SUFFICES ASSUME NEW n \in Nodes, level[n] >= k PROVE level[n] >= l
  BY DEF OnLayer
<1>1. level[n] \in Layers
  <2>1. level \in Seq(Layers) /\ n \in 1..Len(level)
    BY DEF GraphInv, TypeOK, Nodes
  <2> QED BY <2>1, ElementOfSeq
<1>2. Layers \subseteq Nat
  BY GraphAssumption DEF Layers
<1>3. level[n] \in Nat /\ k \in Nat /\ l \in Nat
  BY <1>1, <1>2
<1> QED BY <1>3

\* A descent to layer `to' ends on a node of the layer below, or of the top layer.
LEMMA DescendStays ==
    ASSUME GraphInv, Nodes # {}, NEW q \in Vectors, NEW to \in Nat \ {0}, NEW ep \in Descend(q, to)
    PROVE  ep \in OnLayer(IF to - 1 < top THEN to - 1 ELSE top)
<1> DEFINE step == DescendRound(q, to)
           low == IF to - 1 < top THEN to - 1 ELSE top
           T == {p \in Nodes \X Layers : p[1] \in OnLayer(p[2]) /\ low <= p[2]}
<1>1. /\ top \in Layers /\ entry \in OnLayer(top) /\ Layers = 0..(MaxLayers - 1)
      /\ MaxLayers \in Nat /\ low \in Layers /\ low <= top
  BY TopFacts
<1>2. {<<entry, top>>} \subseteq T
  BY <1>1 DEF OnLayer
<1>3. Keeps(step, T)
  <2> SUFFICES ASSUME NEW p \in T PROVE step[p] \subseteq T
    BY DEF Keeps
  <2>1. p \in Nodes \X Layers /\ p[1] \in OnLayer(p[2]) /\ low <= p[2] /\ p[2] \in Layers
    OBVIOUS
  <2>2. step[p] = IF p[2] < to THEN {p} ELSE Greedy(p[1], q, p[2]) \X {p[2] - 1}
    BY <2>1 DEF DescendRound
  <2>3. CASE p[2] < to
    BY <2>2, <2>3
  <2>4. CASE ~(p[2] < to)
    <3>1. p[2] - 1 \in Layers /\ low <= p[2] - 1 /\ p[2] - 1 <= p[2]
      BY <1>1, <2>1, <2>4
    <3>2. Greedy(p[1], q, p[2]) \subseteq OnLayer(p[2])
      BY <2>1, GreedyStays
    <3>3. OnLayer(p[2]) \subseteq OnLayer(p[2] - 1)
      BY <2>1, <3>1, LayersNested
    <3> HIDE DEF low
    <3>4. \A n \in OnLayer(p[2] - 1) : <<n, p[2] - 1>> \in T
      BY <3>1 DEF OnLayer
    <3>5. step[p] = Greedy(p[1], q, p[2]) \X {p[2] - 1}
      BY <2>2, <2>4
    <3> QED BY <3>2, <3>3, <3>4, <3>5
  <2> QED BY <2>3, <2>4
<1>4. PICK p \in Rounds(MaxLayers, {<<entry, top>>}, step) : ep = p[1]
  BY DEF Descend
<1>5. p \in T
  <2> HIDE DEF step, T
  <2> QED BY <1>1, <1>2, <1>3, <1>4, RoundsStay
<1>6. p[1] \in OnLayer(p[2]) /\ low <= p[2] /\ p[2] \in Layers
  BY <1>5
<1>7. OnLayer(p[2]) \subseteq OnLayer(low)
  BY <1>1, <1>6, LayersNested
<1> QED BY <1>4, <1>6, <1>7

-----------------------------------------------------------------------------
(* What insert selects                                                      *)

LEMMA ClosestFacts ==
    ASSUME NEW q, NEW S, IsFiniteSet(S), S # {}, NEW k \in Nat \ {0}, NEW K \in Closest(q, S, k)
    PROVE  K \subseteq S /\ K # {} /\ Cardinality(K) <= k
<1>1. CASE Cardinality(S) <= k
  BY <1>1 DEF Closest
<1>2. CASE ~(Cardinality(S) <= k)
  <2>1. K \in SUBSET S /\ Cardinality(K) = k
    BY <1>2 DEF Closest
  <2> QED BY <2>1, FS_EmptySet
<1> QED BY <1>1, <1>2

\* On each layer that the new node joins, insert selects some nodes of the layer, and
\* no more than a list may hold.
LEMMA SelectedSelectable ==
    ASSUME GraphInv, NEW v \in Vectors, NEW lvl \in Layers, NEW chosen \in Selected(v, lvl)
    PROVE  chosen \in [Layers -> SUBSET Nodes] /\ Selectable(lvl, chosen)
<1>0. Layers = 0..(MaxLayers - 1) /\ MaxLayers \in Nat \ {0} /\ \A l \in Layers : Cap(l) \in Nat \ {0}
  BY GraphAssumption DEF Layers, Cap
<1>1. CASE top < 0
  <2>1. chosen = [k \in Layers |-> {}]
    BY <1>1 DEF Selected
  <2>2. Joined(lvl) = {}
    <3>1. top \in Int
      BY <1>0 DEF GraphInv, TypeOK
    <3> QED BY <1>0, <1>1, <3>1 DEF Joined
  <2> QED BY <1>0, <2>1, <2>2, FS_EmptySet DEF Selectable
<1>2. CASE ~(top < 0)
  <2> DEFINE from == IF lvl < top THEN lvl ELSE top
             none == [k \in Layers |-> {}]
             start == {[ep |-> ep, l |-> from, chosen |-> none] : ep \in Descend(v, lvl + 1)}
             step == SelectRound(v)
             rank == [s \in Selections |-> s.l + 1]
             Done(s, k) == /\ s.chosen[k] # {} /\ s.chosen[k] \subseteq OnLayer(k)
                           /\ Cardinality(s.chosen[k]) <= Cap(k)
             Above(s) == \A k \in Layers : IF s.l < k /\ k <= from THEN Done(s, k) ELSE s.chosen[k] = {}
             T == {s \in Selections : s.l <= from /\ (s.l >= 0 => s.ep \in OnLayer(s.l)) /\ Above(s)}
  <2>1. /\ Nodes # {} /\ top \in Layers /\ from \in Layers /\ lvl \in Nat /\ top \in Nat
        /\ from <= lvl /\ from <= top
    <3>1. Nodes # {}
      BY <1>2 DEF GraphInv, EntryOnTop
    <3>2. top \in Layers
      BY <3>1, TopFacts
    <3>3. from \in Layers
      BY <3>2
    <3>4. lvl \in Nat /\ top \in Nat
      BY <1>0, <3>2
    <3>5. from <= lvl /\ from <= top
      BY <3>4
    <3> HIDE DEF from
    <3> QED BY <3>1, <3>2, <3>3, <3>4, <3>5
  <2>2. \A l \in Layers : OnLayer(l) \subseteq Nodes
    BY GraphFacts
  <2>3. start \subseteq T
    <3> SUFFICES ASSUME NEW ep \in Descend(v, lvl + 1)
                 PROVE  [ep |-> ep, l |-> from, chosen |-> none] \in T
      OBVIOUS
    <3>1. lvl + 1 \in Nat \ {0} /\ (lvl + 1) - 1 = lvl
      BY <2>1
    <3>2. ep \in OnLayer(from) /\ ep \in Nodes
      BY <2>1, <2>2, <3>1, DescendStays
    <3>3. from \in Layers \cup {-1} /\ none \in [Layers -> SUBSET Nodes] /\ \A k \in Layers : none[k] = {}
      BY <2>1
    <3>4. \A k \in Layers : ~(from < k /\ k <= from)
      BY <1>0, <2>1
    <3> DEFINE s == [ep |-> ep, l |-> from, chosen |-> none]
    <3>5. s.ep = ep /\ s.l = from /\ s.chosen = none
      OBVIOUS
    <3>6. s \in Selections
      <4> HIDE DEF from, none
      <4> QED BY <3>2, <3>3 DEF Selections
    <3>7. from <= from
      BY <1>0, <2>1
    <3> HIDE DEF s, from, none
    <3>8. s \in T
      BY <3>2, <3>3, <3>4, <3>5, <3>6, <3>7
    <3> QED BY <3>8 DEF s
  <2>4. ASSUME NEW s \in T
        PROVE  IF s.l < 0 THEN step[s] = {s}
               ELSE step[s] \subseteq T /\ \A t \in step[s] : t.l = s.l - 1
    <3>1. /\ s \in Selections /\ s.l <= from
          /\ s.ep \in Nodes /\ s.l \in Layers \cup {-1} /\ s.chosen \in [Layers -> SUBSET Nodes]
          /\ s.l >= 0 => s.ep \in OnLayer(s.l)
          /\ \A k \in Layers : IF s.l < k /\ k <= from THEN Done(s, k) ELSE s.chosen[k] = {}
      <4>1. /\ s \in Selections /\ s.l <= from /\ (s.l >= 0 => s.ep \in OnLayer(s.l))
            /\ \A k \in Layers : IF s.l < k /\ k <= from THEN Done(s, k) ELSE s.chosen[k] = {}
        <5> HIDE DEF from, Done
        <5> QED OBVIOUS
      <4>2. s.ep \in Nodes /\ s.l \in Layers \cup {-1} /\ s.chosen \in [Layers -> SUBSET Nodes]
        BY <4>1 DEF Selections
      <4> HIDE DEF from, Done, T
      <4> QED BY <4>1, <4>2
    <3>2. step[s] = IF s.l < 0 THEN {s}
                    ELSE UNION {UNION {SelectedOn(s, v, nbrs) : nbrs \in Closest(v, found, Cap(s.l))} :
                                found \in SearchLayer(s.ep, v, EfConstruction, s.l)}
      BY <3>1 DEF SelectRound
    <3>3. CASE s.l < 0
      BY <3>2, <3>3
    <3>4. CASE ~(s.l < 0)
      <4>1. s.l \in Layers /\ s.ep \in OnLayer(s.l) /\ Cap(s.l) \in Nat \ {0}
        BY <1>0, <3>1, <3>4
      <4>2. ASSUME NEW t \in step[s] PROVE t \in T /\ t.l = s.l - 1
        <5>1. PICK found \in SearchLayer(s.ep, v, EfConstruction, s.l) :
                \E nbrs \in Closest(v, found, Cap(s.l)) : t \in SelectedOn(s, v, nbrs)
          BY <3>2, <3>4
        <5>2. PICK nbrs \in Closest(v, found, Cap(s.l)) : t \in SelectedOn(s, v, nbrs)
          BY <5>1
        <5>3. PICK e \in Nearest(v, nbrs) :
                t = [ep |-> e, l |-> s.l - 1, chosen |-> [s.chosen EXCEPT ![s.l] = nbrs]]
          BY <5>2 DEF SelectedOn
        <5>4. found # {} /\ IsFiniteSet(found) /\ found \subseteq OnLayer(s.l)
          BY <3>1, <4>1, <5>1, SearchLayerFinds, SearchAssumption
        <5>5. nbrs \subseteq found /\ nbrs # {} /\ Cardinality(nbrs) <= Cap(s.l)
          BY <4>1, <5>2, <5>4, ClosestFacts
        <5>6. e \in OnLayer(s.l) /\ e \in Nodes /\ nbrs \in SUBSET Nodes /\ nbrs \subseteq OnLayer(s.l)
          BY <2>2, <4>1, <5>3, <5>4, <5>5 DEF Nearest
        <5>7. t.l = s.l - 1 /\ t.ep = e /\ t.chosen = [s.chosen EXCEPT ![s.l] = nbrs]
          BY <5>3
        <5>8. /\ t.chosen \in [Layers -> SUBSET Nodes] /\ t.chosen[s.l] = nbrs
              /\ \A k \in Layers : k # s.l => t.chosen[k] = s.chosen[k]
          BY <3>1, <4>1, <5>6, <5>7
        <5>9. t.l \in Layers \cup {-1} /\ t.l <= from /\ (t.l >= 0 => t.l \in Layers /\ t.l <= s.l)
          <6>1. /\ s.l \in 0..(MaxLayers - 1) /\ MaxLayers \in Nat /\ from \in Int /\ s.l <= from
                /\ t.l = s.l - 1
            BY <1>0, <2>1, <3>1, <4>1, <5>7
          <6> HIDE DEF from
          <6>2. t.l \in (0..(MaxLayers - 1)) \cup {-1} /\ t.l <= from /\ t.l <= s.l
            BY <6>1
          <6>3. t.l >= 0 => t.l \in 0..(MaxLayers - 1)
            BY <6>1
          <6> QED BY <1>0, <6>2, <6>3
        <5>10. t \in Selections
          BY <5>3, <5>6, <5>7, <5>8, <5>9 DEF Selections
        <5>11. t.l >= 0 => t.ep \in OnLayer(t.l)
          BY <4>1, <5>6, <5>7, <5>9, LayersNested
        <5>12. ASSUME NEW k \in Layers
               PROVE  IF t.l < k /\ k <= from THEN Done(t, k) ELSE t.chosen[k] = {}
          <6>1. k \in Nat /\ s.l \in Nat /\ from \in Nat
            BY <1>0, <2>1, <4>1
          <6>2. CASE k = s.l
            BY <3>1, <5>5, <5>6, <5>7, <5>8, <6>1, <6>2
          <6>3. CASE k # s.l
            <7>1. t.l < k <=> s.l < k
              BY <5>7, <6>1, <6>3
            <7> QED BY <3>1, <5>8, <6>3, <7>1
          <6> QED BY <6>2, <6>3
        <5> HIDE DEF Done, from
        <5> QED BY <5>7, <5>9, <5>10, <5>11, <5>12
      <4> HIDE DEF T, step
      <4> QED BY <3>4, <4>2
    <3> QED BY <3>3, <3>4
  <2>5. \A s \in T : s \in Selections /\ s.l \in Layers \cup {-1} /\ rank[s] = s.l + 1 /\ s.l <= from
    <3>1. \A s \in Selections : s.l \in Layers \cup {-1}
      BY DEF Selections
    <3>2. \A s \in Selections : rank[s] = s.l + 1
      OBVIOUS
    <3>3. \A s \in T : s \in Selections /\ s.l <= from
      <4> HIDE DEF from, Done, Above
      <4> QED OBVIOUS
    <3> HIDE DEF T, rank, from
    <3> QED BY <3>1, <3>2, <3>3
  <2>6. Keeps(step, T)
    <3> HIDE DEF T, step
    <3> SUFFICES ASSUME NEW s \in T PROVE step[s] \subseteq T
      BY DEF Keeps
    <3> QED BY <2>4
  <2>7. Ends(step, T, rank)
    <3> HIDE DEF T, step, rank
    <3> SUFFICES ASSUME NEW s \in T
                 PROVE  /\ rank[s] \in Nat /\ (rank[s] = 0 => step[s] = {s})
                        /\ step[s] = {s} \/ \A t \in step[s] : rank[t] < rank[s]
      BY DEF Ends
    <3>1. s.l \in Layers \cup {-1} /\ rank[s] = s.l + 1
      BY <2>5
    <3>2. CASE s.l < 0
      <4>1. rank[s] = 0
        BY <1>0, <3>1, <3>2
      <4> QED BY <2>4, <3>2, <4>1
    <3>3. CASE ~(s.l < 0)
      <4>1. s.l \in Nat
        BY <1>0, <3>1, <3>3
      <4>2. ASSUME NEW t \in step[s] PROVE rank[t] < rank[s]
        <5>1. t \in T /\ t.l = s.l - 1
          BY <2>4, <3>3
        <5>2. rank[t] = t.l + 1
          BY <2>5, <5>1
        <5> QED BY <3>1, <4>1, <5>1, <5>2
      <4> QED BY <3>1, <4>1, <4>2
    <3> QED BY <3>2, <3>3
  <2>8. Enough(MaxLayers, start, rank)
    <3> HIDE DEF T, start, rank, from
    <3> SUFFICES ASSUME NEW s \in start PROVE rank[s] <= MaxLayers
      BY DEF Enough
    <3>1. rank[s] = s.l + 1 /\ s.l <= from /\ s.l \in Layers \cup {-1}
      BY <2>3, <2>5
    <3> QED BY <1>0, <2>1, <3>1
  <2>9. PICK s \in Rounds(MaxLayers, start, step) : chosen = s.chosen
    BY <1>2 DEF Selected
  <2>10. s \in T
    <3> HIDE DEF T, start, step
    <3> QED BY <1>0, <2>3, <2>6, <2>9, RoundsStay
  <2>11. step[s] = {s}
    <3> HIDE DEF T, start, step, rank
    <3>1. MaxLayers \in Nat
      BY <1>0
    <3> QED BY <2>3, <2>6, <2>7, <2>8, <2>9, <3>1, RoundsEnd
  <2>12. s.l = -1
    <3> HIDE DEF T, step, rank
    <3>1. s.l \in Layers \cup {-1}
      BY <2>5, <2>10
    <3>2. CASE ~(s.l < 0)
      <4>1. s.l = s.l - 1
        BY <2>4, <2>10, <2>11, <3>2
      <4> QED BY <1>0, <3>1, <3>2, <4>1
    <3> QED BY <1>0, <3>1, <3>2
  <2>13. chosen \in [Layers -> SUBSET Nodes]
    BY <2>9, <2>10 DEF Selections
  <2>14. \A k \in Layers : IF s.l < k /\ k <= from THEN Done(s, k) ELSE s.chosen[k] = {}
    BY <2>10
  <2>15. ASSUME NEW k \in Layers
         PROVE  /\ chosen[k] \subseteq OnLayer(k) /\ Cardinality(chosen[k]) <= Cap(k)
                /\ chosen[k] # {} <=> k \in Joined(lvl)
    <3>1. k \in Nat /\ -1 < k
      BY <1>0
    <3>2. k \in Joined(lvl) <=> k <= from
      BY <2>1, <3>1 DEF Joined
    <3>3. CASE k <= from
      <4>1. Done(s, k)
        BY <2>12, <2>14, <3>1, <3>3
      <4> QED BY <2>9, <3>2, <3>3, <4>1
    <3>4. CASE ~(k <= from)
      <4>1. chosen[k] = {}
        BY <2>9, <2>14, <3>4
      <4> HIDE DEF from
      <4> QED BY <1>0, <3>2, <3>4, <4>1, FS_EmptySet
    <3> QED BY <3>3, <3>4
  <2> QED BY <2>13, <2>15 DEF Selectable
<1> QED BY <1>1, <1>2

-----------------------------------------------------------------------------
(* The index                                                                *)

\* An insert is a step of the graph: what its searches select is what the linking
\* relies on.
LEMMA NextIsGraphNext == ASSUME GraphInv, Next PROVE GraphNext
<1>1. PICK v \in Vectors, lvl \in Layers : Insert(v, lvl)
  BY DEF Next
<1>2. PICK chosen \in Selected(v, lvl) : AddNode(v, lvl, chosen)
  BY <1>1 DEF Insert
<1>3. chosen \in [Layers -> SUBSET Nodes] /\ Selectable(lvl, chosen)
  BY <1>2, SelectedSelectable
<1> QED BY <1>2, <1>3 DEF GraphNext

\* Whatever was inserted, on whatever layers, the lists stay on their layers and
\* within their limits, the entry point is on the top layer and no node is stuck, with
\* the neighbours that the index's own searches select.  (insert)
THEOREM HNSWInductive == Spec => []GraphInv
<1>1. Init => GraphInv
  BY InitGraphInv
<1>2. GraphInv /\ [Next]_vars => GraphInv'
  <2> SUFFICES ASSUME GraphInv, [Next]_vars PROVE GraphInv'
    OBVIOUS
  <2>1. CASE Next
    <3>1. PICK v \in Vectors, lvl \in Layers :
            \E chosen \in [Layers -> SUBSET Nodes] : Selectable(lvl, chosen) /\ AddNode(v, lvl, chosen)
      BY <2>1, NextIsGraphNext DEF GraphNext
    <3> QED BY <3>1, AddNodeGraphInv
  <2>2. CASE UNCHANGED vars
    BY <2>2 DEF vars, GraphInv, TypeOK, LinksStayOnLayer, DegreeBounded, EntryOnTop,
                NobodyStuck, Nodes, OnLayer, Cap
  <2> QED BY <2>1, <2>2
<1> QED BY <1>1, <1>2, PTL DEF Spec

\* The index implements the graph: every insert, with the neighbours that its descent
\* and its searches of each layer find, is an insert whose neighbours are on the
\* layers that the new node joins and no more than a list may hold.  (insert)
THEOREM HNSWImplementsGraph == Spec => GraphSpec
<1>1. GraphInv /\ [Next]_vars => [GraphNext]_vars
  BY NextIsGraphNext
<1> QED BY <1>1, HNSWInductive, PTL DEF Spec, GraphSpec

\* The only node of the one closest result is a nearest one.
LEMMA OnlyResultIsNearest ==
    ASSUME GraphInv, NEW q \in Vectors, NEW S, S \subseteq Nodes, S # {},
           IsFiniteSet(S), Cardinality(S) \in Nat,
           NEW K \in Closest(q, S, 1), NEW best \in K
    PROVE  best \in Nearest(q, S)
<1>1. \A m \in Nodes : DistTo(q, m) \in Nat
  BY GraphFacts
<1>2. IsFiniteSet(K) /\ K \subseteq S /\ Cardinality(K) = 1 /\ \A n \in K, m \in S \ K : DistTo(q, n) <= DistTo(q, m)
  <2>1. CASE Cardinality(S) <= 1
    <3>1. K = S
      BY <2>1 DEF Closest
    <3>2. Cardinality(S) # 0
      BY FS_EmptySet
    <3> QED BY <2>1, <3>1, <3>2
  <2>2. CASE ~(Cardinality(S) <= 1)
    <3>1. K \subseteq S /\ Cardinality(K) = 1 /\ \A n \in K, m \in S \ K : DistTo(q, n) <= DistTo(q, m)
      BY <2>2 DEF Closest
    <3> QED BY <3>1, FS_Subset
  <2> QED BY <2>1, <2>2
<1>3. PICK x : K = {x}
  BY <1>2, FS_Singleton
<1>4. \A m \in S : DistTo(q, best) <= DistTo(q, m)
  <2> TAKE m \in S
  <2>1. CASE m \in K
    BY <1>1, <1>3, <2>1
  <2>2. CASE m \notin K
    BY <1>2, <2>2
  <2> QED BY <2>1, <2>2
<1> QED BY <1>2, <1>4 DEF Nearest

\* A search for one result never stops short of a local minimum, with whatever width
\* of the beam.  (greedy_search_layer, search_layer, search)
THEOREM ResultsLocallyMinimal == Spec => []ResultIsLocalMinimum
<1>1. GraphInv => ResultIsLocalMinimum
  <2> SUFFICES ASSUME GraphInv, NEW q \in Vectors, NEW ef \in 1..Len(vectors),
                      NEW res \in SearchIndex(q, 1, ef), NEW best \in res, NEW n \in links[best][0]
               PROVE  DistTo(q, best) <= DistTo(q, n)
    BY DEF ResultIsLocalMinimum
  <2>1. Len(vectors) \in Nat /\ ef \in Nat \ {0} /\ ~(ef < 1) /\ Nodes # {}
    <3>1. Len(vectors) \in Nat
      BY LenProperties DEF GraphInv, TypeOK
    <3> QED BY <3>1 DEF Nodes
  <2>2. top \in Layers /\ 0 \in Layers /\ ~(top < 0)
    BY <2>1, TopFacts
  <2>3. PICK ep \in Descend(q, 1) :
            \E found \in SearchLayer(ep, q, ef, 0) : res \in Closest(q, found, 1)
    BY <2>1, <2>2 DEF SearchIndex
  <2>4. PICK found \in SearchLayer(ep, q, ef, 0) : res \in Closest(q, found, 1)
    BY <2>3
  <2>5. ep \in Nodes
    BY <2>1, <2>2, <2>3, DescendStays DEF OnLayer
  <2>6. found \subseteq Nodes /\ found # {} /\ IsFiniteSet(found) /\ Cardinality(found) \in Nat
    BY <2>1, <2>2, <2>4, <2>5, SearchLayerFinds
  <2>7. best \in Nearest(q, found)
    BY <2>4, <2>6, OnlyResultIsNearest
  <2> QED BY <2>1, <2>2, <2>4, <2>5, <2>7, SearchLayerMinimum
<1> QED BY <1>1, HNSWInductive, PTL

\* With a beam no narrower than the index a search is exact: its results are the
\* nearest of all nodes that can be reached from where the descent ends.  (search_layer)
THEOREM WideSearches == Spec => []WideSearchIsExact
<1>1. GraphInv => WideSearchIsExact
  <2> SUFFICES ASSUME GraphInv, NEW q \in Vectors, NEW k \in 1..2, Nodes # {},
                      NEW res \in SearchIndex(q, k, Len(vectors))
               PROVE  res \in UNION {Closest(q, Reach(ep, 0), k) : ep \in Descend(q, 1)}
    BY DEF WideSearchIsExact
  <2> DEFINE ef == IF Len(vectors) < k THEN k ELSE Len(vectors)
  <2>1. top \in Layers /\ 0 \in Layers /\ ~(top < 0)
    BY TopFacts
  <2>2. ef \in Nat \ {0} /\ Len(vectors) <= ef
    BY GraphFacts
  <2>3. PICK ep \in Descend(q, 1) : \E found \in SearchLayer(ep, q, ef, 0) : res \in Closest(q, found, k)
    BY <2>1 DEF SearchIndex
  <2>4. PICK found \in SearchLayer(ep, q, ef, 0) : res \in Closest(q, found, k)
    BY <2>3
  <2>5. ep \in Nodes
    BY <2>1, <2>3, DescendStays DEF OnLayer
  <2>6. found = Reach(ep, 0)
    <3> HIDE DEF ef
    <3> QED BY <2>1, <2>2, <2>4, <2>5, SearchLayerWide
  <2> QED BY <2>3, <2>4, <2>6
<1> QED BY <1>1, HNSWInductive, PTL

-----------------------------------------------------------------------------
(* Every search has an answer                                               *)

LEMMA NearestExists ==
    ASSUME GraphInv, NEW q \in Vectors, NEW S \in SUBSET Nodes, S # {}
    PROVE  Nearest(q, S) # {}
<1> DEFINE D == {DistTo(q, n) : n \in S}
<1>1. \A n \in S : DistTo(q, n) \in Nat
  BY GraphFacts
<1>2. PICK d \in D : \A e \in D : ~(<<e, d>> \in OpToRel(<, Nat))
  <2>1. D \subseteq Nat /\ D # {}
    BY <1>1
  <2> HIDE DEF D
  <2> QED BY <2>1, NatLessThanWellFounded, WFMin, Zenon
<1>3. PICK n \in S : d = DistTo(q, n)
  OBVIOUS
<1>4. ASSUME NEW m \in S PROVE DistTo(q, n) <= DistTo(q, m)
  <2>1. DistTo(q, m) \in D /\ DistTo(q, m) \in Nat /\ d \in Nat
    BY <1>1, <1>3
  <2> HIDE DEF D
  <2>2. ~(DistTo(q, m) < d)
    BY <1>2, <2>1 DEF OpToRel
  <2> QED BY <1>3, <2>1, <2>2
<1> QED BY <1>4 DEF Nearest

LEMMA FarthestNodeExists ==
    ASSUME GraphInv, NEW q \in Vectors, NEW S \in SUBSET Nodes, S # {}
    PROVE  Farthest(q, S) # {}
<1> DEFINE Beyond(s) == {t \in S : DistTo(q, s) < DistTo(q, t)}
           Sets == {Beyond(s) : s \in S}
<1>0. IsFiniteSet(S) /\ \A n \in S : DistTo(q, n) \in Nat
  BY GraphFacts, FS_Subset
<1>1. IsWellFoundedOn(StrictSubsetOrdering(S), SUBSET S)
  BY <1>0, FS_StrictSubsetOrderingWellFounded, FS_FiniteSubsetsOfFinite
<1>2. PICK B \in Sets : \A C \in Sets : ~(<<C, B>> \in StrictSubsetOrdering(S))
  <2>1. Sets \subseteq SUBSET S /\ Sets # {}
    OBVIOUS
  <2> HIDE DEF Sets
  <2> QED BY <1>1, <2>1, WFMin
<1>3. PICK f \in S : B = Beyond(f)
  BY <1>2
<1>4. ASSUME NEW t \in S PROVE DistTo(q, t) <= DistTo(q, f)
  <2> SUFFICES ASSUME ~(DistTo(q, t) <= DistTo(q, f)) PROVE FALSE
    OBVIOUS
  <2>1. DistTo(q, f) < DistTo(q, t)
    BY <1>0
  <2>2. Beyond(t) \subseteq Beyond(f) /\ t \in Beyond(f) /\ t \notin Beyond(t)
    BY <1>0, <2>1
  <2>3. <<Beyond(t), Beyond(f)>> \in StrictSubsetOrdering(S)
    BY <2>2 DEF StrictSubsetOrdering
  <2> QED BY <1>2, <1>3, <2>3
<1> QED BY <1>4 DEF Farthest

\* Of every set some nodes are the k nearest, though several may be equally far.
LEMMA ClosestExists ==
    ASSUME GraphInv, NEW q \in Vectors, NEW S \in SUBSET Nodes, NEW k \in Nat
    PROVE  Closest(q, S, k) # {}
<1> DEFINE Best(K, n) == /\ Cardinality(K) = n
                         /\ \A a \in K, b \in S \ K : DistTo(q, a) <= DistTo(q, b)
           Good == {n \in Nat : n <= Cardinality(S) => \E K \in SUBSET S : Best(K, n)}
<1>0. IsFiniteSet(S) /\ Cardinality(S) \in Nat /\ \A K \in SUBSET S : IsFiniteSet(K)
  BY GraphFacts, FS_Subset, FS_CardinalityType
<1>1. 0 \in Good
  <2>1. Best({}, 0) /\ {} \in SUBSET S
    BY FS_EmptySet
  <2> HIDE DEF Best
  <2> QED BY <2>1
<1>2. ASSUME NEW n \in Nat, n \in Good PROVE n + 1 \in Good
  <2> SUFFICES ASSUME n + 1 <= Cardinality(S) PROVE \E K \in SUBSET S : Best(K, n + 1)
    OBVIOUS
  <2>1. PICK K \in SUBSET S : Best(K, n)
    <3>1. n <= Cardinality(S)
      BY <1>0
    <3> HIDE DEF Best
    <3> QED BY <1>2, <3>1
  <2>2. S \ K # {} /\ S \ K \in SUBSET Nodes
    <3>1. K # S
      BY <1>0, <2>1
    <3> QED BY <2>1, <3>1
  <2>3. PICK m \in S \ K : \A b \in S \ K : DistTo(q, m) <= DistTo(q, b)
    <3>1. Nearest(q, S \ K) # {}
      BY <2>2, NearestExists
    <3> QED BY <3>1 DEF Nearest
  <2>4. Cardinality(K \cup {m}) = n + 1
    BY <1>0, <2>1, <2>3, FS_AddElement
  <2>5. Best(K \cup {m}, n + 1)
    BY <2>1, <2>3, <2>4
  <2> HIDE DEF Best
  <2> QED BY <2>3, <2>5
<1>3. k \in Good
  <2> HIDE DEF Good
  <2> QED BY <1>1, <1>2, NatsByInduction
<1>4. CASE Cardinality(S) <= k
  BY <1>4 DEF Closest
<1>5. CASE ~(Cardinality(S) <= k)
  <2>1. PICK K \in SUBSET S : Best(K, k)
    <3>1. k <= Cardinality(S)
      BY <1>0, <1>5
    <3> HIDE DEF Best
    <3> QED BY <1>3, <3>1
  <2> QED BY <1>5, <2>1 DEF Closest
<1> QED BY <1>4, <1>5

Moves(step, T) == \A x \in T : step[x] # {}

\* A loop ends somewhere, if no round does away with what it begins with.
LEMMA RoundsSome ==
    ASSUME NEW n \in Nat, NEW start, NEW step, NEW T, start \subseteq T, start # {},
           Keeps(step, T), Moves(step, T)
    PROVE  Rounds(n, start, step) # {}
<1>0. PICK f : RoundsBy(f, n, start, step)
  BY RoundsIs
<1>1. /\ Rounds(n, start, step) = f[n] /\ f[0] = start
      /\ \A k \in 1..n : f[k] = UNION {step[x] : x \in f[k - 1]}
  BY <1>0 DEF RoundsBy
<1> DEFINE Good == {k \in Nat : k <= n => f[k] \subseteq T /\ f[k] # {}}
<1>2. 0 \in Good
  BY <1>1
<1>3. ASSUME NEW k \in Nat, k \in Good PROVE k + 1 \in Good
  <2> SUFFICES ASSUME k + 1 <= n PROVE f[k + 1] \subseteq T /\ f[k + 1] # {}
    OBVIOUS
  <2>1. f[k] \subseteq T /\ f[k] # {} /\ k + 1 \in 1..n /\ (k + 1) - 1 = k
    BY <1>3
  <2>2. f[k + 1] = UNION {step[x] : x \in f[k]}
    BY <1>1, <2>1
  <2>3. PICK x \in f[k] : x \in T /\ step[x] # {}
    BY <2>1 DEF Moves
  <2> QED BY <2>1, <2>2, <2>3 DEF Keeps
<1>4. n \in Good
  <2> HIDE DEF Good
  <2> QED BY <1>2, <1>3, NatsByInduction
<1> QED BY <1>1, <1>4

LEMMA SearchLayerSome ==
    ASSUME GraphInv, NEW q \in Vectors, NEW ef \in Nat \ {0}, NEW l \in Layers, NEW ep \in Nodes
    PROVE  SearchLayer(ep, q, ef, l) # {}
<1> DEFINE step == BeamRound(q, ef, l)
           first == [cands |-> {ep}, results |-> {ep}, visited |-> {ep}, new |-> {}]
           n == 2 * Len(vectors)
<1>1. {first} \subseteq Frontiers /\ {first} # {} /\ n \in Nat
  BY GraphFacts DEF Frontiers
<1>2. ASSUME NEW s \in Frontiers PROVE step[s] \subseteq Frontiers /\ step[s] # {}
  <2>1. /\ s.cands \in SUBSET Nodes /\ s.results \in SUBSET Nodes
        /\ s.visited \in SUBSET Nodes /\ s.new \in SUBSET Nodes
    BY DEF Frontiers
  <2>2. step[s] = IF s.new # {} THEN UNION {Tested(s, m, q, ef) : m \in s.new}
                  ELSE IF s.cands = {} THEN {s}
                  ELSE {Expanded(s, c, q, ef, l) : c \in Nearest(q, s.cands)}
    BY DEF BeamRound
  <2> HIDE DEF step
  <2>3. CASE s.new # {}
    <3>1. ASSUME NEW m \in s.new PROVE Tested(s, m, q, ef) \subseteq Frontiers /\ Tested(s, m, q, ef) # {}
      <4> DEFINE all == s.results \cup {m}
      <4>1. all \in SUBSET Nodes /\ all # {}
        BY <2>1
      <4>2. Kept(s.results, m, q, ef) # {} /\ Kept(s.results, m, q, ef) \subseteq SUBSET Nodes
        <5>1. Farthest(q, all) # {}
          <6> HIDE DEF all
          <6> QED BY <4>1, FarthestNodeExists
        <5> QED BY <4>1, <5>1 DEF Kept
      <4>3. ASSUME NEW k \in SUBSET Nodes
            PROVE  [s EXCEPT !.new = @ \ {m}, !.cands = @ \cup {m}, !.results = k] \in Frontiers
        BY <2>1 DEF Frontiers
      <4>4. [s EXCEPT !.new = @ \ {m}] \in Frontiers
        BY <2>1 DEF Frontiers
      <4> QED BY <4>2, <4>3, <4>4 DEF Tested
    <3> QED BY <2>2, <2>3, <3>1
  <2>4. CASE s.new = {} /\ s.cands = {}
    BY <2>2, <2>4
  <2>5. CASE s.new = {} /\ s.cands # {}
    <3>1. Nearest(q, s.cands) # {} /\ Nearest(q, s.cands) \subseteq Nodes
      BY <2>1, <2>5, NearestExists DEF Nearest
    <3>2. ASSUME NEW c \in Nodes PROVE Expanded(s, c, q, ef, l) \in Frontiers
      <4>1. links[c][l] \in SUBSET Nodes
        BY GraphFacts
      <4>2. [s EXCEPT !.cands = @ \ {c}, !.new = links[c][l] \ s.visited, !.visited = @ \cup links[c][l]]
              \in Frontiers
        BY <2>1, <4>1 DEF Frontiers
      <4> QED BY <4>2 DEF Expanded
    <3>3. step[s] = {Expanded(s, c, q, ef, l) : c \in Nearest(q, s.cands)}
      BY <2>2, <2>5
    <3> QED BY <3>1, <3>2, <3>3
  <2> QED BY <2>3, <2>4, <2>5
<1>3. Rounds(n, {first}, step) # {}
  <2> HIDE DEF step, first, n
  <2>1. Keeps(step, Frontiers) /\ Moves(step, Frontiers)
    BY <1>2 DEF Keeps, Moves
  <2> QED BY <1>1, <2>1, RoundsSome
<1> QED BY <1>3 DEF SearchLayer

\* The greedy search ends, and no neighbour of the node where it ends is nearer to the
\* query: it takes no more rounds than the index has nodes.  (greedy_search_layer)
THEOREM GreedyEndsLowest ==
    ASSUME GraphInv, NEW q \in Vectors, NEW l \in Layers, NEW ep \in Nodes,
           NEW best \in Greedy(ep, q, l), NEW n \in links[best][l]
    PROVE  DistTo(q, best) <= DistTo(q, n)
<1> DEFINE step == GreedyRound(q, l)
           Nearer(x) == {m \in Nodes : DistTo(q, m) < DistTo(q, x)}
           rank == [x \in Nodes |-> Cardinality(Nearer(x))]
           S(x) == links[x][l] \cup {x}
<1>0. /\ \A x \in Nodes : DistTo(q, x) \in Nat /\ S(x) \in SUBSET Nodes
      /\ Len(vectors) \in Nat /\ IsFiniteSet(Nodes) /\ Cardinality(Nodes) = Len(vectors)
  BY GraphFacts
<1>1. \A x \in Nodes : /\ IsFiniteSet(Nearer(x)) /\ Cardinality(Nearer(x)) \in Nat
                       /\ Cardinality(Nearer(x)) <= Len(vectors) /\ rank[x] = Cardinality(Nearer(x))
  <2> SUFFICES ASSUME NEW x \in Nodes
               PROVE  /\ IsFiniteSet(Nearer(x)) /\ Cardinality(Nearer(x)) \in Nat
                      /\ Cardinality(Nearer(x)) <= Len(vectors) /\ rank[x] = Cardinality(Nearer(x))
    OBVIOUS
  <2>1. Nearer(x) \subseteq Nodes /\ rank[x] = Cardinality(Nearer(x))
    OBVIOUS
  <2> HIDE DEF Nearer, rank
  <2> QED BY <1>0, <2>1, FS_Subset, FS_CardinalityType
<1>2. ASSUME NEW x \in Nodes
      PROVE  IF x \in Nearest(q, S(x)) THEN step[x] = {x}
             ELSE step[x] \subseteq Nodes /\ \A y \in step[x] : rank[y] < rank[x] /\ rank[x] > 0
  <2>1. step[x] = LET b == Nearest(q, S(x)) IN IF x \in b THEN {x} ELSE b
    BY DEF GreedyRound
  <2>2. CASE x \in Nearest(q, S(x))
    BY <2>1, <2>2
  <2>3. CASE x \notin Nearest(q, S(x))
    <3>1. step[x] = Nearest(q, S(x))
      BY <2>1, <2>3
    <3>2. ASSUME NEW y \in step[x] PROVE y \in Nodes /\ rank[y] < rank[x] /\ rank[x] > 0
      <4>1. y \in Nodes /\ DistTo(q, y) < DistTo(q, x)
        <5>1. y \in S(x) /\ y \in Nodes /\ \A m \in S(x) : DistTo(q, y) <= DistTo(q, m)
          BY <1>0, <3>1 DEF Nearest
        <5>2. PICK m \in S(x) : ~(DistTo(q, x) <= DistTo(q, m)) /\ m \in Nodes
          BY <1>0, <2>3 DEF Nearest
        <5>3. DistTo(q, x) \in Nat /\ DistTo(q, y) \in Nat /\ DistTo(q, m) \in Nat
          BY <1>0, <5>1, <5>2
        <5>4. DistTo(q, y) <= DistTo(q, m)
          BY <5>1
        <5> HIDE DEF S
        <5> QED BY <5>1, <5>2, <5>3, <5>4
      <4>2. Nearer(y) \subseteq Nearer(x) /\ y \in Nearer(x) /\ y \notin Nearer(y)
        <5>1. \A m \in Nodes : DistTo(q, m) < DistTo(q, y) => DistTo(q, m) < DistTo(q, x)
          BY <1>0, <4>1
        <5>2. ~(DistTo(q, y) < DistTo(q, y))
          BY <1>0, <4>1
        <5> QED BY <4>1, <5>1, <5>2
      <4>3. /\ IsFiniteSet(Nearer(x)) /\ Cardinality(Nearer(x)) \in Nat /\ rank[x] = Cardinality(Nearer(x))
            /\ Cardinality(Nearer(y)) \in Nat /\ rank[y] = Cardinality(Nearer(y))
        BY <1>1, <4>1
      <4> HIDE DEF Nearer, rank
      <4>4. Cardinality(Nearer(y)) < Cardinality(Nearer(x))
        <5>1. Nearer(y) # Nearer(x)
          BY <4>2
        <5> QED BY <4>2, <4>3, <5>1, FS_Subset
      <4> QED BY <4>1, <4>3, <4>4
    <3> QED BY <2>3, <3>2
  <2> QED BY <2>2, <2>3
<1>3. Keeps(step, Nodes) /\ Ends(step, Nodes, rank) /\ Enough(Len(vectors), {ep}, rank)
  <2> HIDE DEF step, rank, S, Nearer
  <2>1. \A x \in Nodes : rank[x] \in Nat /\ rank[x] <= Len(vectors)
    BY <1>1
  <2>2. \A x \in Nodes : step[x] # {}
    <3> SUFFICES ASSUME NEW x \in Nodes PROVE step[x] # {}
      OBVIOUS
    <3>1. S(x) \in SUBSET Nodes /\ S(x) # {}
      BY <1>0 DEF S
    <3>2. Nearest(q, S(x)) # {}
      BY <3>1, NearestExists
    <3>3. step[x] = LET b == Nearest(q, S(x)) IN IF x \in b THEN {x} ELSE b
      BY DEF GreedyRound, step, S
    <3> QED BY <3>2, <3>3
  <2>3. Keeps(step, Nodes)
    BY <1>2 DEF Keeps
  <2>4. Ends(step, Nodes, rank)
    BY <1>2, <2>1, <2>2 DEF Ends
  <2>5. Enough(Len(vectors), {ep}, rank)
    BY <2>1 DEF Enough
  <2> QED BY <2>3, <2>4, <2>5
<1>4. best \in Nodes /\ step[best] = {best}
  <2>1. best \in Rounds(Len(vectors), {ep}, step) /\ {ep} \subseteq Nodes
    BY DEF Greedy
  <2> HIDE DEF step, rank
  <2> QED BY <1>0, <1>3, <2>1, RoundsStay, RoundsEnd
<1>5. best \in Nearest(q, S(best))
  <2> SUFFICES ASSUME best \notin Nearest(q, S(best)) PROVE FALSE
    OBVIOUS
  <2> HIDE DEF step, rank, S
  <2>1. rank[best] < rank[best] /\ rank[best] \in Nat
    BY <1>1, <1>2, <1>4
  <2> QED BY <2>1
<1> QED BY <1>5 DEF Nearest

LEMMA GreedySome ==
    ASSUME GraphInv, NEW q \in Vectors, NEW l \in Layers, NEW ep \in Nodes
    PROVE  Greedy(ep, q, l) \subseteq Nodes /\ Greedy(ep, q, l) # {}
<1> DEFINE step == GreedyRound(q, l)
<1>1. ASSUME NEW x \in Nodes PROVE step[x] \subseteq Nodes /\ step[x] # {}
  <2> DEFINE S == links[x][l] \cup {x}
  <2>1. S \in SUBSET Nodes /\ S # {}
    BY GraphFacts
  <2>2. step[x] = LET best == Nearest(q, S) IN IF x \in best THEN {x} ELSE best
    BY DEF GreedyRound
  <2> HIDE DEF S
  <2>3. Nearest(q, S) # {}
    BY <2>1, NearestExists
  <2> QED BY <2>1, <2>2, <2>3 DEF Nearest
<1>2. Keeps(step, Nodes) /\ Moves(step, Nodes)
  BY <1>1 DEF Keeps, Moves
<1>3. Len(vectors) \in Nat /\ {ep} \subseteq Nodes /\ {ep} # {}
  BY GraphFacts
<1> HIDE DEF step
<1>4. Rounds(Len(vectors), {ep}, step) # {} /\ Rounds(Len(vectors), {ep}, step) \subseteq Nodes
  BY <1>2, <1>3, RoundsSome, RoundsStay
<1> QED BY <1>4 DEF Greedy, step

LEMMA DescendSome ==
    ASSUME GraphInv, Nodes # {}, NEW q \in Vectors, NEW to \in Nat \ {0}
    PROVE  Descend(q, to) # {}
<1> DEFINE step == DescendRound(q, to)
           T == Nodes \X Layers
<1>1. top \in Layers /\ entry \in Nodes /\ Layers = 0..(MaxLayers - 1) /\ MaxLayers \in Nat
  BY TopFacts DEF OnLayer
<1>2. ASSUME NEW p \in T PROVE step[p] \subseteq T /\ step[p] # {}
  <2>1. p[1] \in Nodes /\ p[2] \in Layers
    OBVIOUS
  <2>2. step[p] = IF p[2] < to THEN {p} ELSE Greedy(p[1], q, p[2]) \X {p[2] - 1}
    BY DEF DescendRound
  <2>3. ~(p[2] < to) => p[2] - 1 \in Layers
    BY <1>1, <2>1
  <2>4. Greedy(p[1], q, p[2]) \subseteq Nodes /\ Greedy(p[1], q, p[2]) # {}
    BY <2>1, GreedySome
  <2>5. CASE p[2] < to
    BY <2>2, <2>5
  <2>6. CASE ~(p[2] < to)
    <3>1. step[p] = Greedy(p[1], q, p[2]) \X {p[2] - 1}
      BY <2>2, <2>6
    <3>2. PICK a : a \in Greedy(p[1], q, p[2])
      BY <2>4
    <3>3. <<a, p[2] - 1>> \in step[p]
      BY <3>1, <3>2
    <3> QED BY <2>3, <2>4, <2>6, <3>1, <3>3
  <2> QED BY <2>5, <2>6
<1>3. Keeps(step, T) /\ Moves(step, T)
  BY <1>2 DEF Keeps, Moves
<1>4. {<<entry, top>>} \subseteq T /\ {<<entry, top>>} # {}
  BY <1>1
<1>5. Rounds(MaxLayers, {<<entry, top>>}, step) # {}
  <2> HIDE DEF step, T
  <2> QED BY <1>1, <1>3, <1>4, RoundsSome
<1> QED BY <1>5 DEF Descend

\* What a search for the topK nearest may answer.
Answered(q, topK, ef) ==
    /\ SearchIndex(q, topK, ef) # {}
    /\ \A res \in SearchIndex(q, topK, ef) :
         res \subseteq Nodes /\ res # {} /\ Cardinality(res) <= topK

\* A search of an index that holds something ends with an answer, of at least one of
\* its vectors and of no more than were asked for, whatever ef: the descent and the beam
\* never come to nothing.  (search)
THEOREM SearchesAnswer ==
    Spec => [](Nodes # {} => \A q \in Vectors, topK \in Nat \ {0}, ef \in Nat : Answered(q, topK, ef))
<1>1. GraphInv => (Nodes # {} => \A q \in Vectors, topK \in Nat \ {0}, ef \in Nat : Answered(q, topK, ef))
  <2> SUFFICES ASSUME GraphInv, Nodes # {}, NEW q \in Vectors, NEW topK \in Nat \ {0}, NEW ef \in Nat
               PROVE  Answered(q, topK, ef)
    OBVIOUS
  <2> DEFINE wide == IF ef < topK THEN topK ELSE ef
  <2>1. top \in Layers /\ 0 \in Layers /\ ~(top < 0) /\ wide \in Nat \ {0}
    BY TopFacts
  <2>2. SearchIndex(q, topK, ef) = UNION {UNION {Closest(q, found, topK) :
                                                 found \in SearchLayer(ep, q, wide, 0)} :
                                          ep \in Descend(q, 1)}
    BY <2>1 DEF SearchIndex
  <2> HIDE DEF wide
  <2>3. Descend(q, 1) # {} /\ Descend(q, 1) \subseteq Nodes
    BY <2>1, DescendSome, DescendStays DEF OnLayer
  <2>4. ASSUME NEW ep \in Nodes, NEW found \in SearchLayer(ep, q, wide, 0)
        PROVE  /\ Closest(q, found, topK) # {}
               /\ \A res \in Closest(q, found, topK) :
                    res \subseteq Nodes /\ res # {} /\ Cardinality(res) <= topK
    <3>1. found \subseteq Nodes /\ found # {} /\ IsFiniteSet(found)
      BY <2>1, SearchLayerFinds
    <3> QED BY <3>1, ClosestExists, ClosestFacts
  <2>5. \A ep \in Nodes : SearchLayer(ep, q, wide, 0) # {}
    BY <2>1, SearchLayerSome
  <2>6. SearchIndex(q, topK, ef) # {}
    <3>1. PICK ep \in Descend(q, 1) : ep \in Nodes
      BY <2>3
    <3>2. PICK found \in SearchLayer(ep, q, wide, 0) : Closest(q, found, topK) # {}
      BY <2>4, <2>5, <3>1
    <3> QED BY <2>2, <3>2
  <2>7. ASSUME NEW res \in SearchIndex(q, topK, ef)
        PROVE  res \subseteq Nodes /\ res # {} /\ Cardinality(res) <= topK
    <3>1. PICK ep \in Descend(q, 1) :
            \E found \in SearchLayer(ep, q, wide, 0) : res \in Closest(q, found, topK)
      BY <2>2
    <3> QED BY <2>3, <2>4, <3>1
  <2> QED BY <2>6, <2>7 DEF Answered
<1> QED BY <1>1, HNSWInductive, PTL

-----------------------------------------------------------------------------
(* Sums                                                                     *)

\* f is what the recursion of SumRange goes through.
SumsUp(f, term, from, to) ==
    f = [k \in from..to |-> IF k = from THEN 0 ELSE f[k - 1] + term[k - 1]]

LEMMA SumsExist == \A term : \A from \in Nat : \A n \in Nat : \E f : SumsUp(f, term, from, from + n)
<1> SUFFICES ASSUME NEW term, NEW from \in Nat
             PROVE  \A n \in Nat : \E f : SumsUp(f, term, from, from + n)
  OBVIOUS
<1> DEFINE Good == {n \in Nat : \E f : SumsUp(f, term, from, from + n)}
<1>1. 0 \in Good
  <2> DEFINE f == [k \in from..(from + 0) |-> 0]
  <2>1. SumsUp(f, term, from, from + 0)
    BY DEF SumsUp
  <2> QED BY <2>1
<1>2. ASSUME NEW n \in Nat, n \in Good PROVE n + 1 \in Good
  <2>1. PICK f : SumsUp(f, term, from, from + n)
    BY <1>2
  <2> DEFINE to == from + n
             last == f[to] + term[to]
             g == [k \in from..(to + 1) |-> IF k = to + 1 THEN last ELSE f[k]]
  <2>2. f[from] = 0 /\ \A k \in (from + 1)..to : f[k] = f[k - 1] + term[k - 1]
    BY <2>1 DEF SumsUp
  <2>3. g[to + 1] = last /\ \A k \in from..to : g[k] = f[k]
    <3> HIDE DEF last
    <3> QED OBVIOUS
  <2>4. ASSUME NEW k \in from..(to + 1)
        PROVE  g[k] = IF k = from THEN 0 ELSE g[k - 1] + term[k - 1]
    <3> HIDE DEF g
    <3>1. CASE k = from
      BY <2>2, <2>3, <3>1
    <3>2. CASE k \in (from + 1)..to
      <4>1. k - 1 \in from..to /\ k \in from..to /\ k # from
        BY <3>2
      <4>2. g[k] = f[k] /\ g[k - 1] = f[k - 1]
        BY <2>3, <4>1
      <4> QED BY <2>2, <3>2, <4>1, <4>2
    <3>3. CASE k = to + 1
      <4>1. k # from /\ k - 1 = to /\ to \in from..to
        BY <3>3
      <4>2. g[k - 1] = f[to]
        BY <2>3, <4>1
      <4> QED BY <2>3, <3>3, <4>1, <4>2
    <3> QED BY <3>1, <3>2, <3>3
  <2>5. SumsUp(g, term, from, to + 1)
    <3>1. g = [k \in from..(to + 1) |-> g[k]]
      OBVIOUS
    <3> HIDE DEF g
    <3>2. [k \in from..(to + 1) |-> g[k]]
            = [k \in from..(to + 1) |-> IF k = from THEN 0 ELSE g[k - 1] + term[k - 1]]
      BY <2>4
    <3> QED BY <3>1, <3>2 DEF SumsUp
  <2>6. to + 1 = from + (n + 1)
    OBVIOUS
  <2> HIDE DEF g
  <2> QED BY <2>5, <2>6
<1>3. \A n \in Nat : n \in Good
  <2> HIDE DEF Good
  <2> QED BY <1>1, <1>2, NatsByInduction
<1> QED BY <1>3

\* Step by step, the sums from `from' on.
SumsBy(f, term, from, to) ==
    /\ SumRange(term, from, to) = f[to] /\ f[from] = 0
    /\ \A k \in (from + 1)..to : f[k] = f[k - 1] + term[k - 1]

LEMMA SumsIs ==
    ASSUME NEW term, NEW from \in Nat, NEW to \in Nat, from <= to
    PROVE  \E f : SumsBy(f, term, from, to)
<1> DEFINE IsIt(g) == g = [k \in from..to |-> IF k = from THEN 0 ELSE g[k - 1] + term[k - 1]]
           g == CHOOSE g : IsIt(g)
<1>1. SumRange(term, from, to) = IF from < to THEN g[to] ELSE 0
  BY DEF SumRange
<1>2. \E f : IsIt(f)
  <2>1. to - from \in Nat /\ from + (to - from) = to
    OBVIOUS
  <2>2. PICK f : SumsUp(f, term, from, from + (to - from))
    BY <2>1, SumsExist, Zenon
  <2>3. SumsUp(f, term, from, to)
    BY <2>1, <2>2
  <2> QED BY <2>3 DEF SumsUp
<1>3. IsIt(g)
  BY <1>2
<1> HIDE DEF g
<1>4. g[from] = 0 /\ \A k \in (from + 1)..to : g[k] = g[k - 1] + term[k - 1]
  BY <1>3
<1> QED BY <1>1, <1>4 DEF SumsBy

\* SumRange by its recursion: no terms, and one more.
LEMMA SumNone ==
    ASSUME NEW term, NEW from \in Nat
    PROVE  SumRange(term, from, from) = 0
BY DEF SumRange

LEMMA SumOneMore ==
    ASSUME NEW term, NEW from \in Nat, NEW to \in Nat, from <= to
    PROVE  SumRange(term, from, to + 1) = SumRange(term, from, to) + term[to]
<1>1. PICK f : SumsBy(f, term, from, to)
  BY SumsIs
<1>2. PICK g : SumsBy(g, term, from, to + 1)
  BY SumsIs
<1> DEFINE Good == {k \in Nat : from + k <= to => f[from + k] = g[from + k]}
<1>3. 0 \in Good
  BY <1>1, <1>2 DEF SumsBy
<1>4. ASSUME NEW k \in Nat, k \in Good PROVE k + 1 \in Good
  <2> SUFFICES ASSUME from + (k + 1) <= to PROVE f[from + (k + 1)] = g[from + (k + 1)]
    OBVIOUS
  <2>1. /\ from + (k + 1) \in (from + 1)..to /\ from + (k + 1) \in (from + 1)..(to + 1)
        /\ (from + (k + 1)) - 1 = from + k
    OBVIOUS
  <2>2. f[from + k] = g[from + k]
    BY <1>4
  <2> QED BY <1>1, <1>2, <2>1, <2>2 DEF SumsBy
<1>5. to - from \in Nat /\ from + (to - from) = to
  OBVIOUS
<1>6. to - from \in Good
  <2> HIDE DEF Good
  <2> QED BY <1>3, <1>4, <1>5, NatsByInduction
<1>7. f[to] = g[to]
  BY <1>5, <1>6
<1>8. g[to + 1] = g[to] + term[to]
  <2>1. to + 1 \in (from + 1)..(to + 1) /\ (to + 1) - 1 = to
    OBVIOUS
  <2> QED BY <1>2, <2>1 DEF SumsBy
<1> QED BY <1>1, <1>2, <1>7, <1>8 DEF SumsBy

Numbers(term, from, to) == \A k \in Nat : from <= k /\ k < to => term[k] \in Int

LEMMA SumInt ==
    ASSUME NEW term, NEW from \in Nat, NEW to \in Nat, from <= to, Numbers(term, from, to)
    PROVE  SumRange(term, from, to) \in Int
<1> DEFINE Good == {n \in Nat : from + n <= to => SumRange(term, from, from + n) \in Int}
<1>1. 0 \in Good
  BY SumNone
<1>2. ASSUME NEW n \in Nat, n \in Good PROVE n + 1 \in Good
  <2> SUFFICES ASSUME from + (n + 1) <= to PROVE SumRange(term, from, from + (n + 1)) \in Int
    OBVIOUS
  <2>1. from + n \in Nat /\ from <= from + n /\ from + n < to /\ from + (n + 1) = (from + n) + 1
    OBVIOUS
  <2>2. SumRange(term, from, (from + n) + 1) = SumRange(term, from, from + n) + term[from + n]
    BY <2>1, SumOneMore
  <2>3. SumRange(term, from, from + n) \in Int /\ term[from + n] \in Int
    BY <1>2, <2>1 DEF Numbers
  <2> QED BY <2>1, <2>2, <2>3
<1>3. to - from \in Nat /\ from + (to - from) = to
  OBVIOUS
<1>4. to - from \in Good
  <2> HIDE DEF Good
  <2> QED BY <1>1, <1>2, <1>3, NatsByInduction
<1> QED BY <1>3, <1>4

Alike(t, u, from, to) == \A k \in Nat : from <= k /\ k < to => t[k] = u[k]

\* Sums of the same terms are the same.
LEMMA SumSame ==
    ASSUME NEW t, NEW u, NEW from \in Nat, NEW to \in Nat, from <= to,
           Alike(t, u, from, to)
    PROVE  SumRange(t, from, to) = SumRange(u, from, to)
<1> DEFINE Good == {n \in Nat : from + n <= to => SumRange(t, from, from + n) = SumRange(u, from, from + n)}
<1>1. 0 \in Good
  BY SumNone
<1>2. ASSUME NEW n \in Nat, n \in Good PROVE n + 1 \in Good
  <2> SUFFICES ASSUME from + (n + 1) <= to
               PROVE  SumRange(t, from, from + (n + 1)) = SumRange(u, from, from + (n + 1))
    OBVIOUS
  <2>1. from + n \in Nat /\ from <= from + n /\ from + n < to /\ from + (n + 1) = (from + n) + 1
    OBVIOUS
  <2>2. /\ SumRange(t, from, (from + n) + 1) = SumRange(t, from, from + n) + t[from + n]
        /\ SumRange(u, from, (from + n) + 1) = SumRange(u, from, from + n) + u[from + n]
    BY <2>1, SumOneMore
  <2>3. SumRange(t, from, from + n) = SumRange(u, from, from + n) /\ t[from + n] = u[from + n]
    BY <1>2, <2>1 DEF Alike
  <2> QED BY <2>1, <2>2, <2>3
<1>3. to - from \in Nat /\ from + (to - from) = to
  OBVIOUS
<1>4. to - from \in Good
  <2> HIDE DEF Good
  <2> QED BY <1>1, <1>2, <1>3, NatsByInduction
<1> QED BY <1>3, <1>4

\* A sum is the sum of its two parts.
LEMMA SumSplit ==
    ASSUME NEW term, NEW from \in Nat, NEW mid \in Nat, NEW to \in Nat, from <= mid, mid <= to,
           Numbers(term, from, to)
    PROVE  SumRange(term, from, to) = SumRange(term, from, mid) + SumRange(term, mid, to)
<1> DEFINE Good == {n \in Nat : mid + n <= to =>
                      SumRange(term, from, mid + n)
                        = SumRange(term, from, mid) + SumRange(term, mid, mid + n)}
<1>0. ASSUME NEW n \in Nat, mid + n <= to
      PROVE  SumRange(term, from, mid + n) \in Int /\ SumRange(term, mid, mid + n) \in Int
  <2>1. Numbers(term, from, mid + n) /\ Numbers(term, mid, mid + n)
    BY <1>0 DEF Numbers
  <2>2. mid + n \in Nat /\ from <= mid + n /\ mid <= mid + n
    OBVIOUS
  <2> QED BY <2>1, <2>2, SumInt
<1>1. 0 \in Good
  <2>1. SumRange(term, from, mid) \in Int /\ SumRange(term, mid, mid) = 0 /\ mid + 0 = mid
    BY <1>0, SumNone
  <2> QED BY <2>1
<1>2. ASSUME NEW n \in Nat, n \in Good PROVE n + 1 \in Good
  <2> SUFFICES ASSUME mid + (n + 1) <= to
               PROVE  SumRange(term, from, mid + (n + 1))
                        = SumRange(term, from, mid) + SumRange(term, mid, mid + (n + 1))
    OBVIOUS
  <2>1. /\ mid + n \in Nat /\ mid <= mid + n /\ from <= mid + n /\ mid + n < to
        /\ mid + (n + 1) = (mid + n) + 1
    OBVIOUS
  <2>2. /\ SumRange(term, from, (mid + n) + 1) = SumRange(term, from, mid + n) + term[mid + n]
        /\ SumRange(term, mid, (mid + n) + 1) = SumRange(term, mid, mid + n) + term[mid + n]
    BY <2>1, SumOneMore
  <2>3. term[mid + n] \in Int
    BY <2>1 DEF Numbers
  <2>4. SumRange(term, from, mid + n) = SumRange(term, from, mid) + SumRange(term, mid, mid + n)
    BY <1>2, <2>1
  <2>5. SumRange(term, from, mid) \in Int /\ SumRange(term, mid, mid + n) \in Int
    <3>1. 0 \in Nat /\ mid + 0 = mid
      OBVIOUS
    <3> QED BY <1>0, <2>1, <3>1
  <2> QED BY <2>1, <2>2, <2>3, <2>4, <2>5
<1>3. to - mid \in Nat /\ mid + (to - mid) = to
  OBVIOUS
<1>4. to - mid \in Good
  <2> HIDE DEF Good
  <2> QED BY <1>1, <1>2, <1>3, NatsByInduction
<1> QED BY <1>3, <1>4

\* Eight terms more.
LEMMA SumEightMore ==
    ASSUME NEW term, NEW n \in Nat, Numbers(term, 0, n + 8)
    PROVE  SumRange(term, 0, n + 8)
             = SumRange(term, 0, n) + term[n] + term[n + 1] + term[n + 2] + term[n + 3]
               + term[n + 4] + term[n + 5] + term[n + 6] + term[n + 7]
<1>1. /\ SumRange(term, 0, n + 1) = SumRange(term, 0, n) + term[n]
      /\ SumRange(term, 0, n + 2) = SumRange(term, 0, n + 1) + term[n + 1]
      /\ SumRange(term, 0, n + 3) = SumRange(term, 0, n + 2) + term[n + 2]
      /\ SumRange(term, 0, n + 4) = SumRange(term, 0, n + 3) + term[n + 3]
      /\ SumRange(term, 0, n + 5) = SumRange(term, 0, n + 4) + term[n + 4]
      /\ SumRange(term, 0, n + 6) = SumRange(term, 0, n + 5) + term[n + 5]
      /\ SumRange(term, 0, n + 7) = SumRange(term, 0, n + 6) + term[n + 6]
      /\ SumRange(term, 0, n + 8) = SumRange(term, 0, n + 7) + term[n + 7]
  <2>1. ASSUME NEW k \in Nat
        PROVE  SumRange(term, 0, (n + k) + 1) = SumRange(term, 0, n + k) + term[n + k]
    <3>1. n + k \in Nat /\ 0 <= n + k /\ 0 \in Nat
      OBVIOUS
    <3> QED BY <3>1, SumOneMore
  <2>2. /\ n + 0 = n /\ (n + 0) + 1 = n + 1 /\ (n + 1) + 1 = n + 2 /\ (n + 2) + 1 = n + 3
        /\ (n + 3) + 1 = n + 4 /\ (n + 4) + 1 = n + 5 /\ (n + 5) + 1 = n + 6
        /\ (n + 6) + 1 = n + 7 /\ (n + 7) + 1 = n + 8
    OBVIOUS
  <2>3. /\ 0 \in Nat /\ 1 \in Nat /\ 2 \in Nat /\ 3 \in Nat /\ 4 \in Nat /\ 5 \in Nat
        /\ 6 \in Nat /\ 7 \in Nat
    OBVIOUS
  <2> QED BY <2>1, <2>2, <2>3, ZenonT(60)
<1> QED BY <1>1

\* What lane j holds after b blocks.
Lane(term, width, j, b) == SumRange([k \in 0..(b - 1) |-> term[k * width + j]], 0, b)

\* What block b gives to it.
Given(term, width, j, b) == term[b * width + j]

LEMMA LaneNone ==
    ASSUME NEW term, NEW width \in Nat, NEW j \in Nat
    PROVE  Lane(term, width, j, 0) = 0
BY SumNone DEF Lane

LEMMA LaneMore ==
    ASSUME NEW term, NEW width \in Nat, NEW j \in Nat, NEW b \in Nat
    PROVE  Lane(term, width, j, b + 1) = Lane(term, width, j, b) + Given(term, width, j, b)
<1> DEFINE t == [k \in 0..(b - 1) |-> term[k * width + j]]
           u == [k \in 0..((b + 1) - 1) |-> term[k * width + j]]
<1>1. Alike(u, t, 0, b)
  <2> SUFFICES ASSUME NEW k \in Nat, k < b PROVE u[k] = t[k]
    BY DEF Alike
  <2>1. k \in 0..(b - 1) /\ k \in 0..((b + 1) - 1)
    OBVIOUS
  <2> QED BY <2>1
<1>2. SumRange(u, 0, b) = SumRange(t, 0, b)
  <2> HIDE DEF t, u
  <2> QED BY <1>1, SumSame
<1>3. u[b] = term[b * width + j]
  <2>1. b \in 0..((b + 1) - 1)
    OBVIOUS
  <2> QED BY <2>1
<1>4. SumRange(u, 0, b + 1) = SumRange(u, 0, b) + u[b]
  <2> HIDE DEF u
  <2> QED BY SumOneMore
<1> QED BY <1>2, <1>3, <1>4, Zenon DEF Lane, Given

Plus(t, u, v, n) == \A k \in Nat : k < n => u[k] \in Int /\ v[k] \in Int /\ t[k] = u[k] + v[k]

LEMMA SumPlus ==
    ASSUME NEW t, NEW u, NEW v, NEW to \in Nat, Plus(t, u, v, to)
    PROVE  SumRange(t, 0, to) = SumRange(u, 0, to) + SumRange(v, 0, to)
<1> DEFINE Good == {n \in Nat : n <= to => SumRange(t, 0, n) = SumRange(u, 0, n) + SumRange(v, 0, n)}
<1>1. 0 \in Good
  BY SumNone
<1>2. ASSUME NEW n \in Nat, n \in Good PROVE n + 1 \in Good
  <2> SUFFICES ASSUME n + 1 <= to
               PROVE  SumRange(t, 0, n + 1) = SumRange(u, 0, n + 1) + SumRange(v, 0, n + 1)
    OBVIOUS
  <2>1. /\ SumRange(t, 0, n + 1) = SumRange(t, 0, n) + t[n]
        /\ SumRange(u, 0, n + 1) = SumRange(u, 0, n) + u[n]
        /\ SumRange(v, 0, n + 1) = SumRange(v, 0, n) + v[n]
    BY SumOneMore
  <2>2. u[n] \in Int /\ v[n] \in Int /\ t[n] = u[n] + v[n]
    BY DEF Plus
  <2>3. SumRange(t, 0, n) = SumRange(u, 0, n) + SumRange(v, 0, n)
    BY <1>2
  <2>4. SumRange(u, 0, n) \in Int /\ SumRange(v, 0, n) \in Int
    <3>1. Numbers(u, 0, n) /\ Numbers(v, 0, n)
      BY DEF Plus, Numbers
    <3> QED BY <3>1, SumInt
  <2> QED BY <2>1, <2>2, <2>3, <2>4
<1>3. to \in Good
  <2> HIDE DEF Good
  <2> QED BY <1>1, <1>2, NatsByInduction
<1> QED BY <1>3

Moved(t, term, by, n) == \A k \in Nat : k < n => t[k] = term[by + k]

LEMMA SumMoved ==
    ASSUME NEW t, NEW term, NEW by \in Nat, NEW to \in Nat, Moved(t, term, by, to)
    PROVE  SumRange(t, 0, to) = SumRange(term, by, by + to)
<1> DEFINE Good == {n \in Nat : n <= to => SumRange(t, 0, n) = SumRange(term, by, by + n)}
<1>1. 0 \in Good
  BY SumNone
<1>2. ASSUME NEW n \in Nat, n \in Good PROVE n + 1 \in Good
  <2> SUFFICES ASSUME n + 1 <= to PROVE SumRange(t, 0, n + 1) = SumRange(term, by, by + (n + 1))
    OBVIOUS
  <2>1. by + n \in Nat /\ by <= by + n /\ by + (n + 1) = (by + n) + 1
    OBVIOUS
  <2>2. /\ SumRange(t, 0, n + 1) = SumRange(t, 0, n) + t[n]
        /\ SumRange(term, by, (by + n) + 1) = SumRange(term, by, by + n) + term[by + n]
    BY <2>1, SumOneMore
  <2>3. t[n] = term[by + n]
    BY DEF Moved
  <2>4. SumRange(t, 0, n) = SumRange(term, by, by + n)
    BY <1>2
  <2> QED BY <2>1, <2>2, <2>3, <2>4
<1>3. to \in Good
  <2> HIDE DEF Good
  <2> QED BY <1>1, <1>2, NatsByInduction
<1> QED BY <1>3

Zeros(t, n) == \A k \in Nat : k < n => t[k] = 0

LEMMA SumZero ==
    ASSUME NEW t, NEW to \in Nat, Zeros(t, to)
    PROVE  SumRange(t, 0, to) = 0
<1> DEFINE Good == {n \in Nat : n <= to => SumRange(t, 0, n) = 0}
<1>1. 0 \in Good
  BY SumNone
<1>2. ASSUME NEW n \in Nat, n \in Good PROVE n + 1 \in Good
  <2> SUFFICES ASSUME n + 1 <= to PROVE SumRange(t, 0, n + 1) = 0
    OBVIOUS
  <2>1. SumRange(t, 0, n + 1) = SumRange(t, 0, n) + t[n]
    BY SumOneMore
  <2>2. t[n] = 0 /\ SumRange(t, 0, n) = 0
    BY <1>2 DEF Zeros
  <2> QED BY <2>1, <2>2
<1>3. to \in Good
  <2> HIDE DEF Good
  <2> QED BY <1>1, <1>2, NatsByInduction
<1> QED BY <1>3

\* After b blocks the lanes hold numbers, and together all terms of the blocks.
InLanes(term, width, b) ==
    LET lane == [j \in 0..(width - 1) |-> Lane(term, width, j, b)]
    IN  Numbers(lane, 0, width) /\ SumRange(lane, 0, width) = SumRange(term, 0, b * width)

LEMMA BlocksInLanes ==
    ASSUME NEW term, NEW width \in {8, 16}, NEW b \in Nat, Numbers(term, 0, b * width)
    PROVE  InLanes(term, width, b)
<1> DEFINE Good == {n \in Nat : n <= b => InLanes(term, width, n)}
           Lanes(n) == [j \in 0..(width - 1) |-> Lane(term, width, j, n)]
<1>0. width \in Nat /\ 0 * width = 0 /\ \A j \in Nat : j < width <=> j \in 0..(width - 1)
  OBVIOUS
<1>1. 0 \in Good
  <2> DEFINE none == [j \in 0..(width - 1) |-> 0]
  <2>1. Lanes(0) = none
    <3>1. \A j \in 0..(width - 1) : Lane(term, width, j, 0) = 0
      BY <1>0, LaneNone
    <3> QED BY <3>1
  <2>2. Zeros(none, width)
    BY <1>0 DEF Zeros
  <2> HIDE DEF none
  <2>3. Numbers(none, 0, width) /\ SumRange(none, 0, width) = 0
    BY <1>0, <2>2, SumZero DEF Zeros, Numbers
  <2>4. SumRange(term, 0, 0) = 0
    BY SumNone
  <2>5. SumRange(term, 0, 0 * width) = 0
    BY <1>0, <2>4, ZenonT(30)
  <2>6. InLanes(term, width, 0)
    BY <2>1, <2>3, <2>5 DEF InLanes
  <2> QED BY <2>6
<1>2. ASSUME NEW n \in Nat, n \in Good PROVE n + 1 \in Good
  <2> SUFFICES ASSUME n + 1 <= b PROVE InLanes(term, width, n + 1)
    OBVIOUS
  <2> DEFINE more == [j \in 0..(width - 1) |-> term[n * width + j]]
  <2>0. InLanes(term, width, n)
    BY <1>2
  <2>1. Numbers(Lanes(n), 0, width) /\ SumRange(Lanes(n), 0, width) = SumRange(term, 0, n * width)
    BY <2>0 DEF InLanes
  <2>2. /\ n * width \in Nat /\ (n + 1) * width = n * width + width
        /\ (n + 1) * width <= b * width /\ b * width \in Nat
    <3>1. CASE width = 8
      BY <3>1
    <3>2. CASE width = 16
      BY <3>2
    <3> QED BY <3>1, <3>2
  <2>3. ASSUME NEW j \in Nat, j < width
        PROVE  /\ Lanes(n + 1)[j] = Lanes(n)[j] + more[j]
               /\ Lanes(n)[j] \in Int /\ more[j] \in Int /\ more[j] = term[n * width + j]
    <3>1. Lane(term, width, j, n + 1) = Lane(term, width, j, n) + Given(term, width, j, n)
      BY <1>0, LaneMore
    <3>2. j \in 0..(width - 1)
      BY <1>0, <2>3
    <3>3. /\ Lanes(n + 1)[j] = Lane(term, width, j, n + 1) /\ Lanes(n)[j] = Lane(term, width, j, n)
          /\ more[j] = term[n * width + j] /\ more[j] = Given(term, width, j, n)
      BY <3>2 DEF Given
    <3>4. term[n * width + j] \in Int
      <4>1. n * width + j \in Nat /\ n * width + j < b * width
        BY <1>0, <2>2, <2>3
      <4> QED BY <4>1 DEF Numbers
    <3>5. Lanes(n)[j] \in Int
      <4> HIDE DEF Lanes
      <4> QED BY <2>1, <2>3 DEF Numbers
    <3> HIDE DEF Lanes, more
    <3> QED BY <3>1, <3>3, <3>4, <3>5
  <2> HIDE DEF Lanes, more
  <2>4. SumRange(Lanes(n + 1), 0, width) = SumRange(Lanes(n), 0, width) + SumRange(more, 0, width)
    <3>1. Plus(Lanes(n + 1), Lanes(n), more, width)
      BY <2>3 DEF Plus
    <3> QED BY <1>0, <3>1, SumPlus
  <2>5. SumRange(more, 0, width) = SumRange(term, n * width, n * width + width)
    <3>1. Moved(more, term, n * width, width)
      BY <2>3 DEF Moved
    <3> QED BY <1>0, <2>2, <3>1, SumMoved
  <2>6. SumRange(term, 0, (n + 1) * width)
          = SumRange(term, 0, n * width) + SumRange(term, n * width, n * width + width)
    <3>1. Numbers(term, 0, n * width + width)
      BY <1>0, <2>2 DEF Numbers
    <3>2. 0 <= n * width /\ n * width <= n * width + width /\ n * width + width \in Nat
      BY <1>0, <2>2
    <3> QED BY <2>2, <3>1, <3>2, SumSplit
  <2>7. Numbers(Lanes(n + 1), 0, width)
    BY <2>3 DEF Numbers
  <2>8. SumRange(Lanes(n + 1), 0, width) = SumRange(term, 0, (n + 1) * width)
    BY <2>1, <2>4, <2>5, <2>6
  <2> QED BY <2>7, <2>8 DEF InLanes, Lanes
<1>3. b \in Good
  <2> HIDE DEF Good
  <2> QED BY <1>1, <1>2, NatsByInduction
<1> QED BY <1>3

LEMMA Reduce8Is ==
    ASSUME NEW lane, Numbers(lane, 0, 8)
    PROVE  Reduce8(lane) = SumRange(lane, 0, 8)
<1> DEFINE half == [j \in 0..3 |-> lane[j] + lane[j + 4]]
           quarter == [j \in 0..1 |-> half[2 * j] + half[2 * j + 1]]
<1>1. /\ half[0] = lane[0] + lane[4] /\ half[1] = lane[1] + lane[5]
      /\ half[2] = lane[2] + lane[6] /\ half[3] = lane[3] + lane[7]
  OBVIOUS
<1>2. quarter[0] = half[0] + half[1] /\ quarter[1] = half[2] + half[3]
  <2> HIDE DEF half
  <2> QED OBVIOUS
<1>3. Reduce8(lane) = quarter[0] + quarter[1]
  BY DEF Reduce8
<1>4. /\ lane[0] \in Int /\ lane[1] \in Int /\ lane[2] \in Int /\ lane[3] \in Int
      /\ lane[4] \in Int /\ lane[5] \in Int /\ lane[6] \in Int /\ lane[7] \in Int
  BY DEF Numbers
<1>5. SumRange(lane, 0, 8) = lane[0] + lane[1] + lane[2] + lane[3]
                             + lane[4] + lane[5] + lane[6] + lane[7]
  <2> HIDE DEF half, quarter
  <2>1. 0 + 8 = 8 /\ 0 \in Nat /\ SumRange(lane, 0, 0) = 0
    BY SumNone
  <2>2. Numbers(lane, 0, 0 + 8)
    BY <2>1
  <2>3. SumRange(lane, 0, 0 + 8)
          = SumRange(lane, 0, 0) + lane[0] + lane[0 + 1] + lane[0 + 2] + lane[0 + 3]
            + lane[0 + 4] + lane[0 + 5] + lane[0 + 6] + lane[0 + 7]
    BY <2>2, SumEightMore
  <2> QED BY <1>4, <2>1, <2>3
<1> HIDE DEF half, quarter
<1> QED BY <1>1, <1>2, <1>3, <1>4, <1>5

-----------------------------------------------------------------------------
(* The kernels                                                              *)

\* The reduced lanes and the rest are the sum of all terms.
LEMMA BlocksAndRest ==
    ASSUME NEW dim \in Nat, NEW term, Numbers(term, 0, dim), NEW width \in {8, 16}
    PROVE  /\ Numbers(LanesOf(term, dim, width), 0, width)
           /\ SumRange(LanesOf(term, dim, width), 0, width) + Rest(term, dim, width)
                = SumRange(term, 0, dim)
<1>1. PICK b \in Nat : b = dim \div width /\ b * width <= dim /\ b * width \in Nat
  <2>1. CASE width = 8
    BY <2>1
  <2>2. CASE width = 16
    BY <2>2
  <2> QED BY <2>1, <2>2
<1>2. Numbers(term, 0, b * width)
  BY <1>1 DEF Numbers
<1>3. InLanes(term, width, b)
  BY <1>2, BlocksInLanes
<1>4. LanesOf(term, dim, width) = [j \in 0..(width - 1) |-> Lane(term, width, j, b)]
  BY <1>1, Zenon DEF LanesOf, Lane
<1>5. SumRange(term, 0, dim) = SumRange(term, 0, b * width) + SumRange(term, b * width, dim)
  <2>1. 0 <= b * width
    BY <1>1
  <2> QED BY <1>1, <2>1, SumSplit
<1>6. Rest(term, dim, width) = SumRange(term, b * width, dim)
  BY <1>1, Zenon DEF Rest
<1> QED BY <1>3, <1>4, <1>5, <1>6 DEF InLanes

\* Every kernel adds up all terms, each once, however many there are.
LEMMA SumIs ==
    ASSUME NEW dim \in Nat, NEW term \in [0..(dim - 1) -> Int], NEW kernel \in Kinds
    PROVE  Sum(kernel, term) = SumRange(term, 0, dim)
<1>1. Dimension(term) = dim
  <2>1. DOMAIN term = 0..(dim - 1) /\ 0 \in Int /\ dim - 1 \in Int
    OBVIOUS
  <2>2. Cardinality(0..(dim - 1)) = IF 0 > dim - 1 THEN 0 ELSE (dim - 1) - 0 + 1
    BY <2>1, FS_Interval
  <2> QED BY <2>1, <2>2 DEF Dimension
<1>2. Numbers(term, 0, dim)
  BY DEF Numbers
<1>3. CASE kernel = "scalar"
  BY <1>1, <1>3 DEF Sum
<1>4. CASE kernel = "avx2"
  <2>1. /\ Numbers(LanesOf(term, dim, 8), 0, 8)
        /\ SumRange(LanesOf(term, dim, 8), 0, 8) + Rest(term, dim, 8) = SumRange(term, 0, dim)
    BY <1>2, BlocksAndRest
  <2>2. Sum(kernel, term) = Reduce8(LanesOf(term, dim, 8)) + Rest(term, dim, 8)
    BY <1>1, <1>4 DEF Sum
  <2> QED BY <2>1, <2>2, Reduce8Is
<1>5. CASE kernel = "avx512"
  <2>1. SumRange(LanesOf(term, dim, 16), 0, 16) + Rest(term, dim, 16) = SumRange(term, 0, dim)
    BY <1>2, BlocksAndRest
  <2>2. Sum(kernel, term) = Reduce16(LanesOf(term, dim, 16)) + Rest(term, dim, 16)
    BY <1>1, <1>5 DEF Sum
  <2> QED BY <2>1, <2>2 DEF Reduce16
<1> QED BY <1>3, <1>4, <1>5 DEF Kinds

\* The kernels agree, whatever the dimension of the vectors.
THEOREM KernelsAgree ==
    ASSUME NEW dim \in Nat, NEW a \in [0..(dim - 1) -> Int], NEW b \in [0..(dim - 1) -> Int]
    PROVE  Agree(a, b)
<1> SUFFICES ASSUME NEW k \in Kinds
             PROVE  /\ L2Sq(k, a, b) = L2Sq("scalar", a, b)
                    /\ Cosine(k, a, b) = Cosine("scalar", a, b)
  BY DEF Agree
<1> DEFINE Same(term) == Sum(k, term) = Sum("scalar", term)
<1>1. ASSUME NEW term \in [0..(dim - 1) -> Int] PROVE Same(term)
  <2>1. "scalar" \in Kinds
    BY DEF Kinds
  <2> QED BY <2>1, SumIs
<1>2. DOMAIN a = 0..(dim - 1) /\ \A i \in 0..(dim - 1) : a[i] \in Int /\ b[i] \in Int
  OBVIOUS
<1>3. /\ [i \in DOMAIN a |-> (a[i] - b[i]) * (a[i] - b[i])] \in [0..(dim - 1) -> Int]
      /\ [i \in DOMAIN a |-> a[i] * b[i]] \in [0..(dim - 1) -> Int]
      /\ [i \in DOMAIN a |-> a[i] * a[i]] \in [0..(dim - 1) -> Int]
      /\ [i \in DOMAIN a |-> b[i] * b[i]] \in [0..(dim - 1) -> Int]
  BY <1>2
<1>4. /\ Same([i \in DOMAIN a |-> (a[i] - b[i]) * (a[i] - b[i])])
      /\ Same([i \in DOMAIN a |-> a[i] * b[i]])
      /\ Same([i \in DOMAIN a |-> a[i] * a[i]])
      /\ Same([i \in DOMAIN a |-> b[i] * b[i]])
  <2> HIDE DEF Same
  <2> QED BY <1>1, <1>3
<1>5. L2Sq(k, a, b) = L2Sq("scalar", a, b)
  BY <1>4, Zenon DEF L2Sq
<1>6. Cosine(k, a, b) = Cosine("scalar", a, b)
  BY <1>4, Zenon DEF Cosine
<1> QED BY <1>5, <1>6

\* The kernel that init chooses works in registers that the system saves.
LEMMA KernelsKeepRegisters == RegistersSaved
<1> SUFFICES ASSUME NEW cpu \in Processors PROVE WideRegisters(Dispatched(cpu)) \subseteq cpu.xcr0
  BY DEF RegistersSaved, Runs
<1>1. Supports(cpu, "avx512") => WideRegisters("avx512") \subseteq cpu.xcr0
  BY DEF Supports, DetectCpu, OsSavesZmm, OsSavesYmm, WideRegisters
<1>2. Supports(cpu, "avx2") => WideRegisters("avx2") \subseteq cpu.xcr0
  BY DEF Supports, DetectCpu, OsSavesYmm, WideRegisters
<1>3. WideRegisters("scalar") \subseteq cpu.xcr0
  BY DEF WideRegisters
<1> QED BY <1>1, <1>2, <1>3 DEF Dispatched

\* Whatever was inserted, every distance that a search asks for is the sum over all
\* components, from whichever kernel; and the kernel that is chosen works in registers
\* that the system saves.  (l2_sq, cosine, init)
THEOREM DistancesAlways == ASSUME Vectors \subseteq Int PROVE Spec => []DistancesComputed
<1>1. ASSUME NEW v \in Vectors, NEW w \in Vectors PROVE <<v, w>> \in Agreeing
  <2>1. ASSUME NEW u \in Vectors, NEW dim \in 1..33
        PROVE  Components(u, dim) \in [0..(dim - 1) -> Int]
    <3>1. u \in Int
      OBVIOUS
    <3>2. \A i \in 0..(dim - 1) : ((((u + 1) * (i * i + 1)) % 11) - 5) \in Int
      <4> SUFFICES ASSUME NEW i \in 0..(dim - 1) PROVE ((((u + 1) * (i * i + 1)) % 11) - 5) \in Int
        OBVIOUS
      <4>1. PICK x \in Int : x = (u + 1) * (i * i + 1)
        BY <3>1
      <4>2. (x % 11) - 5 \in Int
        OBVIOUS
      <4> QED BY <4>1, <4>2
    <3> QED BY <3>2 DEF Components
  <2>2. \A dim \in 1..33 : Agree(Components(v, dim), Components(w, dim))
    <3> SUFFICES ASSUME NEW dim \in 1..33 PROVE Agree(Components(v, dim), Components(w, dim))
      OBVIOUS
    <3>1. dim \in Nat
      OBVIOUS
    <3> QED BY <2>1, <3>1, KernelsAgree
  <2> DEFINE Part(x, y) == IF \A dim \in 1..33 : Agree(Components(x, dim), Components(y, dim))
                             THEN {<<x, y>>} ELSE {}
  <2>3. <<v, w>> \in Part(v, w)
    BY <2>2
  <2>4. Agreeing = UNION {Part(x, y) : x \in Vectors, y \in Vectors}
    BY DEF Agreeing
  <2> HIDE DEF Part
  <2> QED BY <2>3, <2>4
<1>2. GraphInv => DistancesComputed
  <2> SUFFICES ASSUME GraphInv, NEW n \in DOMAIN vectors, NEW q \in Vectors
               PROVE  <<q, vectors[n]>> \in Agreeing
    BY KernelsKeepRegisters DEF DistancesComputed
  <2>1. vectors[n] \in Vectors
    BY ElementOfSeq, LenProperties DEF GraphInv, TypeOK
  <2> QED BY <1>1, <2>1
<1> QED BY <1>2, HNSWInductive, PTL
=============================================================================
