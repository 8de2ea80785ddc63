------------------------------- MODULE Search -------------------------------
(***************************************************************************)
(* ShardManager::search: one asynchronous task per shard, a gather in the  *)
(* order of the shards, a merge; and the health flag that a failed task    *)
(* clears for every later search.  Searches (gRPC handlers) run side by    *)
(* side with each other and with inserts.                                  *)
(*                                                                         *)
(* A vector is known by its distance to the query, the same in all         *)
(* searches.  A partial or merged result is the SET of its hits: the order *)
(* that partial_sort gives them is left out.  What one index finds is any  *)
(* non-empty set of at most TopK of its nodes: HNSW promises no more.      *)
(* Calls turned away before the search (gate, top_k, the size of the       *)
(* query) change nothing here and are left out.                            *)
(***************************************************************************)
EXTENDS Naturals, FiniteSets, Sequences

CONSTANTS
    ShardCount,   \* shard_count_
    Vectors,      \* vectors that clients insert
    Owner,        \* [Vectors -> Shards]: ring_.get_shard of the vector's id
    Dist,         \* [Vectors -> Nat]: distance to the query
    TopK,         \* top_k
    Searches      \* calls of search; each is made once

Shards == 0..(ShardCount - 1)

ASSUME SearchAssumption ==
    /\ ShardCount \in Nat \ {0} /\ TopK \in Nat \ {0}
    /\ Owner \in [Vectors -> Shards] /\ Dist \in [Vectors -> Nat]

VARIABLES
    contents,  \* the vectors of each shard's index, by node id (from 1 here)
    healthy,   \* ShardState::healthy
    task,      \* each search's task on each shard
    found,     \* the hits its index gave it
    gathered,  \* futures the search has asked for their result, from shard 0 on
    tally,     \* shards_ok, shards_err and degraded of ShardSearchResult
    results,   \* ShardSearchResult::results
    returned,  \* searches that have answered
    present    \* HISTORY: the hits there were when the search began

searchVars == <<task, found, gathered, tally, results, returned, present>>
vars       == <<contents, healthy, searchVars>>

TaskStates == {"idle", "launched", "searching", "skipped", "found", "threw"}

\* A vector in an index.
Hits(s)     == {[shard |-> s, node |-> n] : n \in DOMAIN contents[s]}
AllHits     == UNION {Hits(s) : s \in Shards}
DistanceOf(h) == Dist[contents[h.shard][h.node]]

TypeOK ==
    /\ contents \in [Shards -> Seq(Vectors)]
    /\ healthy \in [Shards -> BOOLEAN]
    /\ task \in [Searches -> [Shards -> TaskStates]]
    /\ found \in [Searches -> [Shards -> SUBSET AllHits]]
    /\ \A q \in Searches, s \in Shards : found[q][s] \subseteq Hits(s)
    /\ gathered \in [Searches -> 0..ShardCount]
    /\ tally \in [Searches -> [ok : Nat, err : Nat, degraded : BOOLEAN]]
    /\ \A q \in Searches : tally[q].ok + tally[q].err = gathered[q]
    /\ results \in [Searches -> SUBSET AllHits]
    /\ returned \subseteq Searches
    /\ present \in [Searches -> SUBSET AllHits]

Init ==
    /\ contents = [s \in Shards |-> <<>>]
    /\ healthy = [s \in Shards |-> TRUE]
    /\ task = [q \in Searches |-> [s \in Shards |-> "idle"]]
    /\ found = [q \in Searches |-> [s \in Shards |-> {}]]
    /\ gathered = [q \in Searches |-> 0]
    /\ tally = [q \in Searches |-> [ok |-> 0, err |-> 0, degraded |-> FALSE]]
    /\ results = [q \in Searches |-> {}]
    /\ returned = {}
    /\ present = [q \in Searches |-> {}]

-----------------------------------------------------------------------------

\* insert: the index gives the vector the next node id, under its lock.
\* BOUND: each vector is inserted once.
Insert(v) ==
    /\ \A n \in DOMAIN contents[Owner[v]] : contents[Owner[v]][n] # v
    /\ contents' = [contents EXCEPT ![Owner[v]] = Append(@, v)]
    /\ UNCHANGED <<healthy, searchVars>>

\* search: the loop that launches a task for every shard.
Scatter(q) ==
    /\ \A s \in Shards : task[q][s] = "idle"
    /\ task' = [task EXCEPT ![q] = [s \in Shards |-> "launched"]]
    /\ present' = [present EXCEPT ![q] = AllHits]
    /\ UNCHANGED <<contents, healthy, found, gathered, tally, results, returned>>

\* The task reads the health flag, and returns nothing for a shard that lost it.
TaskChecks(q, s) ==
    /\ task[q][s] = "launched"
    /\ task' = [task EXCEPT ![q][s] = IF healthy[s] THEN "searching" ELSE "skipped"]
    /\ UNCHANGED <<contents, healthy, found, gathered, tally, results, returned, present>>

\* The task's search of the index, under the shared lock.
TaskSearches(q, s) ==
    /\ task[q][s] = "searching"
    /\ task' = [task EXCEPT ![q][s] = "found"]
    /\ \E F \in SUBSET Hits(s) :
         /\ F = {} <=> contents[s] = <<>>
         /\ Cardinality(F) <= TopK
         /\ found' = [found EXCEPT ![q][s] = F]
    /\ UNCHANGED <<contents, healthy, gathered, tally, results, returned, present>>

\* An exception in the task (out of memory, say); the future holds it.
TaskThrows(q, s) ==
    /\ task[q][s] = "searching"
    /\ task' = [task EXCEPT ![q][s] = "threw"]
    /\ UNCHANGED <<contents, healthy, found, gathered, tally, results, returned, present>>

-----------------------------------------------------------------------------

Answered(q, s) == task[q][s] \in {"skipped", "found", "threw"}

\* MUTANT: the same future is asked again after an exception.
GatherRetries(q) ==
    /\ gathered[q] < ShardCount
    /\ Answered(q, gathered[q])
    /\ IF task[q][gathered[q]] = "threw"
         THEN /\ healthy' = [healthy EXCEPT ![gathered[q]] = FALSE]
              /\ UNCHANGED <<gathered, tally>>
         ELSE /\ gathered' = [gathered EXCEPT ![q] = @ + 1]
              /\ tally' = [tally EXCEPT ![q].ok = @ + 1]
              /\ UNCHANGED healthy
    /\ UNCHANGED <<contents, task, found, results, returned, present>>

\* futures[s].get(): it waits for the task; an exception costs the shard its flag.
Gather(q) ==
    /\ gathered[q] < ShardCount
    /\ Answered(q, gathered[q])
    /\ gathered' = [gathered EXCEPT ![q] = @ + 1]
    /\ IF task[q][gathered[q]] = "threw"
         THEN /\ healthy' = [healthy EXCEPT ![gathered[q]] = FALSE]
              /\ tally' = [tally EXCEPT ![q].err = @ + 1, ![q].degraded = TRUE]
         ELSE /\ tally' = [tally EXCEPT ![q].ok = @ + 1]
              /\ UNCHANGED healthy
    /\ UNCHANGED <<contents, task, found, results, returned, present>>

\* MUTANT: resize without the sort before it.
NearestUnsorted(N, S) ==
    N \subseteq S /\ Cardinality(N) = IF Cardinality(S) < TopK THEN Cardinality(S) ELSE TopK

\* partial_sort and resize: N is a choice of the TopK nearest hits of S.
Nearest(N, S) ==
    /\ N \subseteq S
    /\ Cardinality(N) = IF Cardinality(S) < TopK THEN Cardinality(S) ELSE TopK
    /\ \A n \in N, h \in S \ N : DistanceOf(n) <= DistanceOf(h)

\* The partial results, empty for a shard that threw.
Partials(q) == UNION {found[q][s] : s \in Shards}

\* merge_results, and the answer to the client.
Merge(q) ==
    /\ gathered[q] = ShardCount
    /\ q \notin returned
    /\ \E N \in SUBSET Partials(q) :
         /\ Nearest(N, Partials(q))
         /\ results' = [results EXCEPT ![q] = N]
    /\ returned' = returned \cup {q}
    /\ UNCHANGED <<contents, healthy, task, found, gathered, tally, present>>

Task(q, s) == TaskChecks(q, s) \/ TaskSearches(q, s) \/ TaskThrows(q, s)

Next ==
    \/ \E v \in Vectors : Insert(v)
    \/ \E q \in Searches : Scatter(q) \/ Gather(q) \/ Merge(q)
    \/ \E q \in Searches, s \in Shards : Task(q, s)

Spec == Init /\ [][Next]_vars

\* Threads run: a search goes on, and so does each of its tasks.
Fairness ==
    /\ \A q \in Searches : WF_vars(Gather(q) \/ Merge(q))
    /\ \A q \in Searches, s \in Shards : WF_vars(Task(q, s))

FairSpec == Spec /\ Fairness

-----------------------------------------------------------------------------
(* Properties                                                               *)

Threw(q, s) == task[q][s] = "threw" /\ gathered[q] > s

\* A vector that was in an index when a search began and is not among its results
\* is missing for one of four reasons: TopK results are as near; the index did not
\* find it; the shard threw, and the answer says degraded; or another search
\* found the shard failing, and that one's answer says degraded.  (Order of check, gather and merge.)
MissingIsExplained ==
    TypeOK /\ \A q \in returned : \A h \in present[q] \ results[q] :
        \/ /\ Cardinality(results[q]) = TopK
           /\ \A n \in results[q] : DistanceOf(n) <= DistanceOf(h)
        \/ task[q][h.shard] = "found" /\ h \notin found[q][h.shard]
        \/ task[q][h.shard] = "threw" /\ tally[q].degraded
        \/ /\ task[q][h.shard] = "skipped"
           /\ \E p \in Searches \ {q} : Threw(p, h.shard) /\ tally[p].degraded

\* A search that has begun answers.  (No task waits for another, the gather asks
\* every future once.)
SearchReturns ==
    \A q \in Searches : task[q] # [s \in Shards |-> "idle"] ~> q \in returned
=============================================================================
