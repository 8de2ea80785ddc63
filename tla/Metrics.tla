------------------------------- MODULE Metrics -------------------------------
(***************************************************************************)
(* MetricsStore (server/http_api.cpp): counters that the serving thread    *)
(* adds to and the ticker thread reads and resets, each an atomic of its   *)
(* own and with no lock over several of them.  Every access is a step.     *)
(* The sums of latencies, which nothing reads, are left out.               *)
(***************************************************************************)
EXTENDS Integers, FiniteSetsExt, Functions

CONSTANT NBuckets   \* N_BUCKETS

ASSUME MetricsAssumption == NBuckets \in Nat \ {0}

Kinds     == {"insert", "search"}
Buckets   == 1..NBuckets
Quantiles == <<50, 95, 99>>

VARIABLES
    total,     \* total_inserts, total_searches
    window,    \* inserts_window, searches_window
    buckets,   \* latency_buckets
    pct,       \* search_p50_us, _p95_us, _p99_us: the bucket each one stands for, 0 before
    rec,       \* the record_* call under way: its kind, bucket and next step
    tick,      \* the ticker's next step
    at,        \* ... its loop index
    counts,    \* ... its copy of the buckets
    published  \* HISTORY: the sum of what inserts_last_sec, searches_last_sec were set to

recordVars  == <<total, rec>>
tickerVars  == <<tick, at, counts>>
metricsVars == <<total, window, buckets, pct, rec, tick, at, counts, published>>

NoRecord == [pc |-> "idle", kind |-> "insert", bucket |-> 1]
NoCounts == [b \in Buckets |-> 0]

MetricsTypeOK ==
    /\ total \in [Kinds -> Nat] /\ window \in [Kinds -> Nat] /\ published \in [Kinds -> Nat]
    /\ buckets \in [Buckets -> Nat] /\ counts \in [Buckets -> Nat]
    /\ pct \in [1..3 -> 0..NBuckets]
    /\ rec \in [pc : {"idle", "total", "window", "bucket"}, kind : Kinds, bucket : Buckets]
    /\ tick \in {"none", "check", "sleep", "count", "store", "swap", "ended"}
    /\ at \in Nat

MetricsInit ==
    /\ total = [k \in Kinds |-> 0] /\ window = total /\ published = total
    /\ buckets = NoCounts /\ counts = NoCounts
    /\ pct = <<0, 0, 0>>
    /\ rec = NoRecord /\ tick = "none" /\ at = 1

-----------------------------------------------------------------------------
(* record_insert and record_search, on the serving thread                   *)

StartRecord(kind, bucket) ==
    rec' = [pc |-> "total", kind |-> kind, bucket |-> bucket]

RecordTotal ==
    /\ rec.pc = "total"
    /\ total' = [total EXCEPT ![rec.kind] = @ + 1]
    /\ rec' = [rec EXCEPT !.pc = "window"]
    /\ UNCHANGED <<window, buckets, pct, published, tickerVars>>

RecordWindow ==
    /\ rec.pc = "window"
    /\ window' = [window EXCEPT ![rec.kind] = @ + 1]
    /\ rec' = IF rec.kind = "search" THEN [rec EXCEPT !.pc = "bucket"] ELSE NoRecord
    /\ UNCHANGED <<total, buckets, pct, published, tickerVars>>

\* The first bucket whose bound is above the latency.
RecordBucket ==
    /\ rec.pc = "bucket"
    /\ buckets' = [buckets EXCEPT ![rec.bucket] = @ + 1]
    /\ rec' = NoRecord
    /\ UNCHANGED <<total, window, pct, published, tickerVars>>

Record == RecordTotal \/ RecordWindow \/ RecordBucket

-----------------------------------------------------------------------------
(* compute_percentiles, on the ticker                                       *)

\* The first bucket that brings the sum of c to q percent of all.
Percentile(c, q) ==
    Min({b \in Buckets : 100 * SumFunctionOnSet(c, 1..b) >= q * SumFunction(c)})

StartCompute ==
    /\ tick = "sleep"
    /\ tick' = "count" /\ at' = 1 /\ counts' = NoCounts
    /\ UNCHANGED <<window, buckets, pct, published, recordVars>>

CountBucket ==
    /\ tick = "count"
    /\ counts' = [counts EXCEPT ![at] = buckets[at]]
    /\ IF at < NBuckets THEN at' = at + 1 /\ UNCHANGED tick
       ELSE at' = 1 /\ tick' = IF SumFunction(counts') > 0 THEN "store" ELSE "swap"
    /\ UNCHANGED <<window, buckets, pct, published, recordVars>>

\* MUTANT: the shares are of total_searches, which is ahead of the buckets.
StorePercentileOfTotal ==
    /\ tick = "store"
    /\ LET reached == {b \in Buckets : 100 * SumFunctionOnSet(counts, 1..b)
                                          >= Quantiles[at] * total["search"]}
       IN  pct' = IF reached = {} THEN pct ELSE [pct EXCEPT ![at] = Min(reached)]
    /\ IF at < 3 THEN at' = at + 1 /\ UNCHANGED tick ELSE at' = 1 /\ tick' = "swap"
    /\ UNCHANGED <<window, buckets, counts, published, recordVars>>

StorePercentile ==
    /\ tick = "store"
    /\ pct' = [pct EXCEPT ![at] = Percentile(counts, Quantiles[at])]
    /\ IF at < 3 THEN at' = at + 1 /\ UNCHANGED tick ELSE at' = 1 /\ tick' = "swap"
    /\ UNCHANGED <<window, buckets, counts, published, recordVars>>

\* MUTANT: load in place of exchange.
SwapWindowLoads ==
    /\ tick = "swap"
    /\ LET k == IF at = 1 THEN "insert" ELSE "search"
       IN  /\ published' = [published EXCEPT ![k] = @ + window[k]]
           /\ UNCHANGED window
    /\ IF at = 1 THEN at' = 2 /\ UNCHANGED tick ELSE at' = 1 /\ tick' = "check"
    /\ UNCHANGED <<buckets, pct, counts, recordVars>>

\* inserts_window.exchange(0), then searches_window.exchange(0).
SwapWindow ==
    /\ tick = "swap"
    /\ LET k == IF at = 1 THEN "insert" ELSE "search"
       IN  /\ published' = [published EXCEPT ![k] = @ + window[k]]
           /\ window' = [window EXCEPT ![k] = 0]
    /\ IF at = 1 THEN at' = 2 /\ UNCHANGED tick ELSE at' = 1 /\ tick' = "check"
    /\ UNCHANGED <<buckets, pct, counts, recordVars>>

Compute == StartCompute \/ CountBucket \/ StorePercentile \/ SwapWindow

-----------------------------------------------------------------------------
(* Properties                                                               *)

\* No request is counted twice or not at all in the rates, whichever thread is ahead:
\* what the ticker has published and what is left in the window add up to the total,
\* and every search has its bucket, but for the one that is being recorded.
CountsAddUp ==
    /\ \A k \in Kinds :
         total[k] = published[k] + window[k]
                    + (IF rec.kind = k /\ rec.pc = "window" THEN 1 ELSE 0)
    /\ total["search"] = SumFunction(buckets)
         + (IF rec.kind = "search" /\ rec.pc \in {"window", "bucket"} THEN 1 ELSE 0)

\* Between two computations the three percentiles are in order, and each stands for
\* a bucket in which a search really fell, although the buckets are read one by one
\* while searches are added to them.
PercentilesSound ==
    tick # "store" /\ pct[1] # 0 =>
        /\ pct[1] <= pct[2] /\ pct[2] <= pct[3]
        /\ \A i \in 1..3 : buckets[pct[i]] > 0
=============================================================================
