------------------------------- MODULE MCHNSW -------------------------------
(***************************************************************************)
(* Small instances of HNSW for TLC: points on a line.  Tens stand for      *)
(* another copy of a point: 1 and 11 are the same vector, inserted twice.  *)
(*                                                                         *)
(* For the kernels a vector has up to 33 components of both signs, so that *)
(* blocks of 8 and of 16 floats come out even, with a rest, or not at all. *)
(***************************************************************************)
EXTENDS HNSW, Kernels

Place(v) == v % 10

MCDist == [p \in Vectors \X Vectors |->
              (Place(p[1]) - Place(p[2])) * (Place(p[1]) - Place(p[2]))]

Components(v, dim) == [i \in 0..(dim - 1) |-> (((v + 1) * (i * i + 1)) % 11) - 5]

Agreeing == UNION {IF \A dim \in 1..33 : Agree(Components(v, dim), Components(w, dim))
                     THEN {<<v, w>>} ELSE {} : v \in Vectors, w \in Vectors}

\* Every distance a search asks for is the sum over all components, each once, of
\* whatever dimension and from whichever kernel (lanes, reductions, rests); and the
\* kernel that init chooses keeps its sums in registers that the system saves.
\* (Whether the processor has the instructions the file is compiled to is not said.)
DistancesComputed ==
    /\ \A n \in DOMAIN vectors, q \in Vectors : <<q, vectors[n]>> \in Agreeing
    /\ RegistersSaved
=============================================================================
