-------------------------------- MODULE HNSW --------------------------------
(***************************************************************************)
(* HNSWIndex: the searches of hnsw/index.cpp over the graph of HnswGraph,  *)
(* and the insert that selects a node's neighbours by them.                *)
(*                                                                         *)
(* Nodes may be equally far from a vector (the same vector may be inserted *)
(* twice).  Then the result depends on the order of lists and heaps, which *)
(* compare distances only; lists and heaps are sets here, and a search has *)
(* the set of all results that some order gives.                           *)
(***************************************************************************)
EXTENDS HnswGraph

CONSTANT EfConstruction   \* cfg_.ef_construction

ASSUME SearchAssumption == EfConstruction \in Nat \ {0}

\* Nodes of S by their distance to the vector q: the top of a heap is any of these.
DistTo(q, n)   == Dist[<<q, vectors[n]>>]
Nearest(q, S)  == {n \in S : \A m \in S : DistTo(q, n) <= DistTo(q, m)}
Farthest(q, S) == {n \in S : \A m \in S : DistTo(q, m) <= DistTo(q, n)}

\* The k nearest nodes of S, or all of them: candidates.resize(k).
Closest(q, S, k) ==
    IF Cardinality(S) <= k THEN {S}
    ELSE {K \in SUBSET S : /\ Cardinality(K) = k
                           /\ \A n \in K, m \in S \ K : DistTo(q, n) <= DistTo(q, m)}

\* What n rounds of a loop make of each of `start', where step[x] is all that a
\* round may make of x.  (x itself, when the loop has ended.)
Rounds(n, start, step) ==
    LET after[k \in 0..n] == IF k = 0 THEN start ELSE UNION {step[x] : x \in after[k - 1]}
    IN  after[n]

\* greedy_search_layer: step to the nearest neighbour while that is an improvement.
GreedyRound(q, l) ==
    [ep \in Nodes |-> LET best == Nearest(q, links[ep][l] \cup {ep})
                      IN  IF ep \in best THEN {ep} ELSE best]
Greedy(ep, q, l) == Rounds(Len(vectors), {ep}, GreedyRound(q, l))

\* The loop over the layers from the top down to `to', which is not 0.
DescendRound(q, to) ==
    [p \in Nodes \X Layers |-> IF p[2] < to THEN {p} ELSE Greedy(p[1], q, p[2]) \X {p[2] - 1}]
Descend(q, to) == {p[1] : p \in Rounds(MaxLayers, {<<entry, top>>}, DescendRound(q, to))}

\* MUTANT: the search ends as soon as it holds ef results.
BeamEndsFull(c, results, q, ef) == Cardinality(results) >= ef

\* search_layer may stop at candidate c: it has ef results, all nearer than c.
BeamEnds(c, results, q, ef) ==
    /\ Cardinality(results) >= ef
    /\ \A r \in results : DistTo(q, c) > DistTo(q, r)

\* Node n has been pushed: one of the farthest results goes if there are too many.
Kept(results, n, q, ef) ==
    LET all == results \cup {n}
    IN  IF Cardinality(all) <= ef THEN {all} ELSE {all \ {w} : w \in Farthest(q, all)}

\* search_layer between two steps: the heaps, the visited nodes, and those of them
\* that the loop over a candidate's neighbours has still to test.
Frontiers == [cands : SUBSET Nodes, results : SUBSET Nodes, visited : SUBSET Nodes, new : SUBSET Nodes]

\* A neighbour n that is nearer than some result becomes a candidate and a result.
Tested(s, n, q, ef) ==
    IF Cardinality(s.results) < ef \/ \E r \in s.results : DistTo(q, n) < DistTo(q, r)
      THEN {[s EXCEPT !.new = @ \ {n}, !.cands = @ \cup {n}, !.results = k] :
                k \in Kept(s.results, n, q, ef)}
      ELSE {[s EXCEPT !.new = @ \ {n}]}

\* Candidate c is next: its unvisited neighbours are to be tested, or the loop ends.
Expanded(s, c, q, ef, l) ==
    IF BeamEnds(c, s.results, q, ef) THEN s
    ELSE [s EXCEPT !.cands = @ \ {c}, !.new = links[c][l] \ s.visited, !.visited = @ \cup links[c][l]]

BeamRound(q, ef, l) ==
    [s \in Frontiers |->
        IF s.new # {} THEN UNION {Tested(s, n, q, ef) : n \in s.new}
        ELSE IF s.cands = {} THEN {s}
        ELSE {Expanded(s, c, q, ef, l) : c \in Nearest(q, s.cands)}]

\* Each node is tested once and is a candidate once.
SearchLayer(ep, q, ef, l) ==
    {s.results : s \in Rounds(2 * Len(vectors),
                              {[cands |-> {ep}, results |-> {ep}, visited |-> {ep}, new |-> {}]},
                              BeamRound(q, ef, l))}

\* MUTANT: the beam is as wide as the number of results asked for.
SearchIndexNarrow(q, topK, ef) ==
    IF top < 0 THEN {{}}
    ELSE UNION {UNION {Closest(q, found, topK) : found \in SearchLayer(ep, q, topK, 0)} :
                ep \in Descend(q, 1)}

\* search, with ef_actual the larger of ef and top_k.
SearchIndex(q, topK, ef) ==
    IF top < 0 THEN {{}}
    ELSE UNION {UNION {Closest(q, found, topK) :
                       found \in SearchLayer(ep, q, IF ef < topK THEN topK ELSE ef, 0)} :
                ep \in Descend(q, 1)}

\* insert's loop: where the search of layer l begins, and what was selected above.
Selections == [ep : Nodes, l : Layers \cup {-1}, chosen : [Layers -> SUBSET Nodes]]

\* Layer s.l is done; the nearest candidate is where the search of the next one begins.
SelectedOn(s, v, nbrs) ==
    {[ep |-> e, l |-> s.l - 1, chosen |-> [s.chosen EXCEPT ![s.l] = nbrs]] : e \in Nearest(v, nbrs)}

\* MUTANT: all candidates become neighbours.
SelectRoundUncut(v) ==
    [s \in Selections |->
        IF s.l < 0 THEN {s}
        ELSE UNION {SelectedOn(s, v, found) : found \in SearchLayer(s.ep, v, EfConstruction, s.l)}]

SelectRound(v) ==
    [s \in Selections |->
        IF s.l < 0 THEN {s}
        ELSE UNION {UNION {SelectedOn(s, v, nbrs) : nbrs \in Closest(v, found, Cap(s.l))} :
                    found \in SearchLayer(s.ep, v, EfConstruction, s.l)}]

\* What insert selects for a vector on the layers it shares with the graph.
Selected(v, lvl) ==
    IF top < 0 THEN {[k \in Layers |-> {}]}
    ELSE {s.chosen : s \in Rounds(MaxLayers,
                                  {[ep |-> ep, l |-> IF lvl < top THEN lvl ELSE top,
                                    chosen |-> [k \in Layers |-> {}]] : ep \in Descend(v, lvl + 1)},
                                  SelectRound(v))}

\* BOUND: each of Vectors is inserted once; two of them may be at distance 0.
Insert(v, lvl) ==
    /\ \A n \in Nodes : vectors[n] # v
    /\ \E chosen \in Selected(v, lvl) : AddNode(v, lvl, chosen)

Next == \E v \in Vectors, lvl \in Layers : Insert(v, lvl)

Spec == Init /\ [][Next]_vars

-----------------------------------------------------------------------------
(* Properties                                                               *)

\* What can be reached from ep by links of layer l: what is in every set of nodes
\* that holds ep and is not left by a link.
Closed(C, l)  == \A m \in C : links[m][l] \subseteq C
Reach(ep, l) == {n \in Nodes : \A C \in SUBSET Nodes : ep \in C /\ Closed(C, l) => n \in C}

\* No neighbour of the first result is nearer to the query than the result itself,
\* with whatever ef: the search never stops short of a local minimum.  (A beam that
\* is wider than the index is the same as one that is as wide as the index.)
ResultIsLocalMinimum ==
    \A q \in Vectors, ef \in 1..Len(vectors) :
        \A found \in SearchIndex(q, 1, ef) : \A best \in found :
            \A n \in links[best][0] : DistTo(q, best) <= DistTo(q, n)

\* With ef no less than the number of nodes the beam search is a breadth-first
\* search: the TopK results are the nearest of all nodes that can be reached.
WideSearchIsExact ==
    \A q \in Vectors, k \in 1..2 : Nodes # {} =>
        SearchIndex(q, k, Len(vectors)) \subseteq
            UNION {Closest(q, Reach(ep, 0), k) : ep \in Descend(q, 1)}
=============================================================================
