---------------------------- MODULE RateLimiter ----------------------------
(***************************************************************************)
(* The token bucket of server/rate_limiter.cpp.  check() runs under one    *)
(* mutex, so a call is one step; the clock moves between calls.            *)
(*                                                                         *)
(* The code counts tokens and seconds in doubles.  Here both are integers: *)
(* Cost parts make a token, and a tick of the clock is the time in which   *)
(* Refill parts flow in.  Rounding of the doubles is not modelled.         *)
(***************************************************************************)
EXTENDS Naturals

CONSTANTS
    Clients,   \* keys of buckets_; the gRPC service uses ctx->peer()
    Cost,      \* parts of one token
    Capacity,  \* capacity_, in parts
    Refill,    \* refill_per_sec_, in parts per tick
    MaxTime    \* BOUND: the clock stops here

\* A bucket of less than one token would admit a new client all the same.
ASSUME RateAssumption ==
    /\ Cost \in Nat \ {0} /\ Capacity \in Nat /\ Refill \in Nat /\ MaxTime \in Nat
    /\ Cost <= Capacity

VARIABLES
    now,          \* steady_clock
    clients,      \* the keys of buckets_
    tokens,       \* Bucket::tokens, for the keys of buckets_
    last_refill,  \* Bucket::last_refill
    since,        \* HISTORY: the start of a window of time, any time at all
    used,         \* HISTORY: calls admitted in that window
    ideal         \* HISTORY: tokens of a bucket that loses nothing, at last_refill

bucketVars == <<clients, tokens, last_refill>>
rateVars   == <<now, bucketVars, since, used, ideal>>

Smaller(a, b) == IF a <= b THEN a ELSE b

RateTypeOK ==
    /\ now \in Nat
    /\ clients \subseteq Clients
    /\ tokens \in [Clients -> 0..Capacity]
    /\ last_refill \in [Clients -> Nat]
    /\ since \in [Clients -> Nat]
    /\ used \in [Clients -> Nat]
    /\ ideal \in [Clients -> 0..Capacity]

RateInit ==
    /\ now = 0
    /\ clients = {}
    /\ tokens = [c \in Clients |-> Capacity]
    /\ last_refill = [c \in Clients |-> 0]
    /\ since = [c \in Clients |-> 0]
    /\ used = [c \in Clients |-> 0]
    /\ ideal = [c \in Clients |-> Capacity]

-----------------------------------------------------------------------------

\* MUTANT: the refill may exceed the capacity.
FilledNoCap(amount, c) == amount + (now - last_refill[c]) * Refill

\* What `amount' at last_refill has grown to by now; a new client's is full.
Filled(amount, c) ==
    IF c \in clients THEN Smaller(Capacity, amount + (now - last_refill[c]) * Refill)
                     ELSE Capacity

\* check: a new client, or a bucket that holds a token by now.
CheckAdmits(c) ==
    /\ Filled(tokens[c], c) >= Cost
    /\ clients' = clients \cup {c}
    /\ tokens' = [tokens EXCEPT ![c] = Filled(tokens[c], c) - Cost]
    /\ last_refill' = [last_refill EXCEPT ![c] = now]
    /\ used' = [used EXCEPT ![c] = @ + 1]
    /\ ideal' = [ideal EXCEPT ![c] = Filled(@, c) - Cost]
    /\ UNCHANGED <<now, since>>

\* MUTANT: no clamp, so a rejected call is paid for later.
CheckRejectsUnclamped(c) ==
    /\ Filled(tokens[c], c) < Cost
    /\ tokens' = [tokens EXCEPT ![c] = Filled(tokens[c], c) - Cost]
    /\ last_refill' = [last_refill EXCEPT ![c] = now]
    /\ ideal' = [ideal EXCEPT ![c] = Filled(@, c)]
    /\ UNCHANGED <<now, clients, since, used>>

\* check: less than a token; the clamp to 0 throws away what there was.
CheckRejects(c) ==
    /\ Filled(tokens[c], c) < Cost
    /\ tokens' = [tokens EXCEPT ![c] = 0]
    /\ last_refill' = [last_refill EXCEPT ![c] = now]
    /\ ideal' = [ideal EXCEPT ![c] = Filled(@, c)]
    /\ UNCHANGED <<now, clients, since, used>>

Tick ==
    /\ now < MaxTime
    /\ now' = now + 1
    /\ UNCHANGED <<bucketVars, since, used, ideal>>

\* An observer starts to count a client's admitted calls.
OpenWindow(c) ==
    /\ since' = [since EXCEPT ![c] = now]
    /\ used' = [used EXCEPT ![c] = 0]
    /\ UNCHANGED <<now, bucketVars, ideal>>

RateNext ==
    \/ \E c \in Clients : CheckAdmits(c) \/ CheckRejects(c) \/ OpenWindow(c)
    \/ Tick

RateSpec == RateInit /\ [][RateNext]_rateVars

-----------------------------------------------------------------------------
(* Properties                                                               *)

\* In every window of time a client is admitted at most capacity_ times plus
\* refill_per_sec_ times the window's length.  (min, the clamp, the time stamp.)
AdmissionBound ==
    \A c \in Clients : used[c] * Cost <= Capacity + (now - since[c]) * Refill

\* The code's bucket is never fuller than the bucket of the textbook, so every
\* call it admits that one admits too.
NeverMoreGenerous == \A c \in Clients : tokens[c] <= ideal[c]

\* Rejected calls are not a debt: a client that has waited for one token's refill
\* since its last call, whatever became of it, is not rejected.  (The clamp.)
AdmittedAfterPause ==
    [][\A c \in Clients :
         CheckRejects(c) => c \in clients /\ (now - last_refill[c]) * Refill < Cost]_rateVars
=============================================================================
