----------------------------- MODULE DurableLog -----------------------------
(***************************************************************************)
(* What a write-ahead log promises its caller, without files, headers,     *)
(* LSN fields or checksums.  `entries' is what a replay would deliver at   *)
(* this moment and `acked' how many of them the caller knows to be in the  *)
(* log.  A crash appears only by what it must not do: it loses nothing and *)
(* adds at most the one entry whose append was under way.  The exception   *)
(* is a crash inside a truncation that keeps entries: it breaks the        *)
(* promise until a truncation empties the log.                             *)
(***************************************************************************)
EXTENDS Naturals, Sequences

CONSTANTS Entries,    \* what can be logged: a vector id with its vector
          MaxKept     \* the most entries a truncation keeps

VARIABLES entries, acked, broken

vars == <<entries, acked, broken>>

Init == entries = <<>> /\ acked = 0 /\ broken = FALSE

\* An entry becomes durable as a whole, after all the earlier ones, and at
\* most one entry is ever durable without being acknowledged.
Write(e) ==
    /\ ~broken /\ acked = Len(entries)
    /\ entries' = Append(entries, e)
    /\ UNCHANGED <<acked, broken>>

\* The append returns, or a restart counts the entry among those it found.
Acknowledge ==
    /\ ~broken /\ acked < Len(entries)
    /\ acked' = Len(entries)
    /\ UNCHANGED <<entries, broken>>

\* A truncation drops the oldest k entries, in one step as seen by a replay.
Discard(k) ==
    /\ ~broken /\ acked = Len(entries)
    /\ Len(entries) - k <= MaxKept
    /\ entries' = SubSeq(entries, k + 1, Len(entries))
    /\ acked' = Len(entries) - k
    /\ UNCHANGED broken

\* A crash among entries that are being kept, and what may follow it.
Break ==
    /\ MaxKept > 0 /\ ~broken /\ acked = Len(entries) /\ acked > 0
    /\ broken' = TRUE
    /\ entries' \in Seq(Entries) /\ acked' \in Nat

Unreliable ==
    /\ broken /\ UNCHANGED broken
    /\ entries' \in Seq(Entries) /\ acked' \in Nat

\* The next truncation that keeps nothing.
Emptied ==
    /\ broken /\ broken' = FALSE
    /\ entries' = <<>> /\ acked' = 0

Next ==
    \/ \E e \in Entries : Write(e)
    \/ Acknowledge
    \/ \E k \in 1..Len(entries) : Discard(k)
    \/ Break \/ Unreliable \/ Emptied

Spec == Init /\ [][Next]_vars
=============================================================================
