----------------------------- MODULE HnswGraph -----------------------------
(***************************************************************************)
(* The graph of one HNSWIndex: what an insert does to the lists of links,  *)
(* the entry point and the top layer, whatever neighbours its search has   *)
(* come up with.  insert holds the index's exclusive lock from its first   *)
(* statement to its last, so it is one step.                               *)
(*                                                                         *)
(* A list of neighbours is the SET of its nodes: searches only depend on   *)
(* the order of a list when two nodes are equally far away, and then HNSW  *)
(* lets them take any.                                                     *)
(***************************************************************************)
EXTENDS Integers, FiniteSets, Sequences

CONSTANTS
    Vectors,
    Dist,       \* [Vectors \X Vectors -> Nat]: l2_sq
    MaxLayers,  \* cfg_.max_layers
    M,          \* cfg_.M
    MMax0       \* cfg_.M_max0

ASSUME GraphAssumption ==
    /\ MaxLayers \in Nat \ {0} /\ M \in Nat /\ M >= 2 /\ MMax0 \in Nat \ {0}
    /\ Dist \in [Vectors \X Vectors -> Nat]

Layers == 0..(MaxLayers - 1)

VARIABLES
    vectors,  \* vectors_, by node id (from 1 here); its length is next_id_
    level,    \* HISTORY: the layer that was sampled for each node
    links,    \* neighbours_: links[n][l] for each node and layer
    entry,    \* entry_point_
    top       \* max_layer_, -1 while the index is empty

vars == <<vectors, level, links, entry, top>>

Nodes      == 1..Len(vectors)
OnLayer(l) == {n \in Nodes : level[n] >= l}

\* M_cur and M_max of insert.
Cap(l) == IF l = 0 THEN MMax0 ELSE M

\* Layers that a node of layer lvl shares with the nodes before it.
Joined(lvl) == {l \in Layers : l <= lvl /\ l <= top}

TypeOK ==
    /\ vectors \in Seq(Vectors)
    /\ level \in Seq(Layers) /\ Len(level) = Len(vectors)
    /\ links \in Seq([Layers -> SUBSET Nat]) /\ Len(links) = Len(vectors)
    /\ entry \in Nat /\ top \in Layers \cup {-1}

Init ==
    /\ vectors = <<>> /\ level = <<>> /\ links = <<>>
    /\ entry = 1 /\ top = -1

-----------------------------------------------------------------------------

\* Closer by distance to node n, then by node id (the order of dist_nbr).
CloserTo(vs, n, a, b) ==
    LET da == Dist[<<vs[n], vs[a]>>]
        db == Dist[<<vs[n], vs[b]>>]
    IN  da < db \/ (da = db /\ a < b)

\* MUTANT: lists are never cut.
PrunedNot(vs, n, l, S) == S

\* prune_connections: the neighbours S of n cut to the Cap(l) closest.
Pruned(vs, n, l, S) ==
    IF Cardinality(S) <= Cap(l)
      THEN S
      ELSE CHOOSE K \in SUBSET S :
             Cardinality(K) = Cap(l) /\ \A k \in K, d \in S \ K : CloserTo(vs, n, k, d)

\* MUTANT: the new node links to its neighbours, and they not to it.
LinkedOneWay(vs, id, chosen) ==
    [n \in 1..id |-> [l \in Layers |-> IF n = id THEN chosen[l] ELSE links[n][l]]]

\* The lists after node id has been linked with chosen[l] on each layer l.
Linked(vs, id, chosen) ==
    [n \in 1..id |-> [l \in Layers |->
        IF n = id THEN chosen[l]
        ELSE IF n \in chosen[l] THEN Pruned(vs, n, l, links[n][l] \cup {id})
        ELSE links[n][l]]]

\* insert, for the neighbours that its search selects.
AddNode(v, lvl, chosen) ==
    LET id == Len(vectors) + 1
        vs == Append(vectors, v)
    IN  /\ vectors' = vs
        /\ level' = Append(level, lvl)
        /\ links' = Linked(vs, id, chosen)
        /\ entry' = IF lvl > top THEN id ELSE entry
        /\ top' = IF lvl > top THEN lvl ELSE top

\* What the linking needs of the search: on each joined layer some nodes of that
\* layer, no more than a list may hold.
Selectable(lvl, chosen) ==
    /\ chosen \in [Layers -> SUBSET Nodes]
    /\ \A l \in Layers :
         /\ chosen[l] \subseteq OnLayer(l)
         /\ Cardinality(chosen[l]) <= Cap(l)
         /\ chosen[l] # {} <=> l \in Joined(lvl)

GraphNext ==
    \E v \in Vectors, lvl \in Layers : \E chosen \in [Layers -> SUBSET Nodes] :
        Selectable(lvl, chosen) /\ AddNode(v, lvl, chosen)

GraphSpec == Init /\ [][GraphNext]_vars

-----------------------------------------------------------------------------
(* Properties                                                               *)

\* A list of layer l holds nodes of layer l or above, and never its own node, so a
\* descent from a layer to the next always stands on a node of that layer.
LinksStayOnLayer ==
    \A n \in Nodes, l \in Layers :
        /\ links[n][l] \subseteq OnLayer(l) \ {n}
        /\ links[n][l] # {} => level[n] >= l

\* No list is longer than its layer allows, although each insert lengthens the
\* lists of up to that many other nodes.  (prune_connections)
DegreeBounded == \A n \in Nodes, l \in Layers : Cardinality(links[n][l]) <= Cap(l)

\* Searches start on a node of the highest layer in use.
EntryOnTop ==
    IF Nodes = {} THEN top = -1
    ELSE entry \in Nodes /\ level[entry] = top /\ \A n \in Nodes : level[n] <= top

\* The three together: what every search relies on, after any order of inserts.
GraphShape == TypeOK /\ LinksStayOnLayer /\ DegreeBounded /\ EntryOnTop

\* A search that stands on any node of a layer can leave it: every node has a link
\* on each of its layers that holds another node.  (Links in both directions; a
\* list that is cut keeps some.)
NobodyStuck ==
    \A l \in Layers : \A n \in OnLayer(l) :
        (\E m \in OnLayer(l) : m # n) => links[n][l] # {}
=============================================================================
