------------------------------- MODULE Kernels -------------------------------
(***************************************************************************)
(* The distance kernels of simd/distance.cpp and the choice among them.    *)
(*                                                                         *)
(* Floats are integers here, so what a kernel adds up is exact and only    *)
(* which terms it adds is seen, not how they are rounded: the kernels add  *)
(* in different orders and their floats may differ in the last bits.       *)
(* A cosine is the three sums that it is computed from.  Vectors begin at  *)
(* index 0, and an index outside of them is an error of the evaluation.    *)
(***************************************************************************)
EXTENDS Integers, FiniteSets

Kinds == {"scalar", "avx2", "avx512"}

-----------------------------------------------------------------------------
(* Sums                                                                     *)

\* The terms from index `from' up to `to', one after the other.
SumRange(term, from, to) ==
    LET acc[k \in from..to] == IF k = from THEN 0 ELSE acc[k - 1] + term[k - 1]
    IN  IF from < to THEN acc[to] ELSE 0

Dimension(a) == Cardinality(DOMAIN a)

\* The lanes after the loop over whole blocks of `width' floats.
LanesOf(term, dim, width) ==
    [j \in 0..(width - 1) |->
        LET block == [k \in 0..(dim \div width - 1) |-> term[k * width + j]]
        IN  SumRange(block, 0, dim \div width)]

\* The low and the high half are added, then neighbours twice.
Reduce8(lane) ==
    LET half == [j \in 0..3 |-> lane[j] + lane[j + 4]]
        quarter == [j \in 0..1 |-> half[2 * j] + half[2 * j + 1]]
    IN  quarter[0] + quarter[1]

\* MUTANT: the second reduction is left out.
Reduce8Once(lane) ==
    LET half == [j \in 0..3 |-> lane[j] + lane[j + 4]] IN half[0] + half[1]

Reduce16(lane) == SumRange(lane, 0, 16)

\* MUTANT: the rest that does not fill a block is forgotten.
RestForgotten(term, dim, width) == 0

Rest(term, dim, width) == SumRange(term, (dim \div width) * width, dim)

Sum(kernel, term) ==
    LET dim == Dimension(term)
    IN  CASE kernel = "scalar" -> SumRange(term, 0, dim)
          [] kernel = "avx2"   -> Reduce8(LanesOf(term, dim, 8)) + Rest(term, dim, 8)
          [] kernel = "avx512" -> Reduce16(LanesOf(term, dim, 16)) + Rest(term, dim, 16)

L2Sq(kernel, a, b) == Sum(kernel, [i \in DOMAIN a |-> (a[i] - b[i]) * (a[i] - b[i])])

Cosine(kernel, a, b) ==
    [dot |-> Sum(kernel, [i \in DOMAIN a |-> a[i] * b[i]]),
     na  |-> Sum(kernel, [i \in DOMAIN a |-> a[i] * a[i]]),
     nb  |-> Sum(kernel, [i \in DOMAIN a |-> b[i] * b[i]])]

-----------------------------------------------------------------------------
(* The processor: what CPUID and XGETBV say of it                           *)

\* leaf1 and leaf7 are whether CPUID has them; xcr0 the registers whose state the
\* operating system saves.  detect_cpu asks for no more than this: not for AVX512DQ,
\* for which the AVX-512 kernels are compiled, and nothing asks whether the processor
\* can run a file that is compiled with all the wide instructions allowed.  So which
\* instructions a processor has is outside of this module, and only its registers are in.
Processors ==
    [leaf1 : BOOLEAN, leaf7 : BOOLEAN, fma : BOOLEAN, osxsave : BOOLEAN,
     avx2 : BOOLEAN, avx512f : BOOLEAN,
     xcr0 : SUBSET {"sse", "avx", "opmask", "zmm_hi256", "hi16_zmm"}]

OsSavesYmm(cpu) == cpu.leaf1 /\ cpu.osxsave /\ {"sse", "avx"} \subseteq cpu.xcr0
OsSavesZmm(cpu) == OsSavesYmm(cpu) /\ {"opmask", "zmm_hi256", "hi16_zmm"} \subseteq cpu.xcr0

\* MUTANT: the processor alone is asked, not the operating system.
DetectCpuNoOs(cpu) ==
    [fma    |-> cpu.leaf1 /\ cpu.fma,
     avx2   |-> cpu.leaf7 /\ cpu.avx2,
     avx512 |-> cpu.leaf7 /\ cpu.avx512f]

DetectCpu(cpu) ==
    [fma    |-> cpu.leaf1 /\ cpu.fma,
     avx2   |-> cpu.leaf7 /\ cpu.avx2 /\ OsSavesYmm(cpu),
     avx512 |-> cpu.leaf7 /\ cpu.avx512f /\ OsSavesZmm(cpu)]

Supports(cpu, kernel) ==
    CASE kernel = "avx512" -> DetectCpu(cpu).avx512 /\ DetectCpu(cpu).fma
      [] kernel = "avx2"   -> DetectCpu(cpu).avx2 /\ DetectCpu(cpu).fma
      [] kernel = "scalar" -> TRUE

\* init: l2_sq, cosine and g_isa are set to the widest kernel that is supported.
Dispatched(cpu) ==
    IF Supports(cpu, "avx512") THEN "avx512"
    ELSE IF Supports(cpu, "avx2") THEN "avx2" ELSE "scalar"

\* What runs when a kernel is called by its name: the AVX-512 ones test for
\* themselves, the AVX2 ones do not.
Runs(cpu, kernel) ==
    CASE kernel = "avx512" -> Dispatched(cpu)
      [] OTHER -> kernel

\* The registers a kernel works in, by the names of their parts in XCR0.
WideRegisters(kernel) ==
    CASE kernel = "avx512" -> {"sse", "avx", "opmask", "zmm_hi256", "hi16_zmm"}
      [] kernel = "avx2"   -> {"sse", "avx"}
      [] kernel = "scalar" -> {}

-----------------------------------------------------------------------------
(* What the kernels owe                                                     *)

\* Whichever kernel computes it, a distance is the sum over all components, each once.
Agree(a, b) ==
    \A k \in Kinds : /\ L2Sq(k, a, b) = L2Sq("scalar", a, b)
                     /\ Cosine(k, a, b) = Cosine("scalar", a, b)

\* init, or an AVX-512 kernel called by its name, never runs a kernel whose registers
\* the operating system does not save over a context switch.
RegistersSaved ==
    \A cpu \in Processors : \A kernel \in {Dispatched(cpu), Runs(cpu, "avx512")} :
        WideRegisters(kernel) \subseteq cpu.xcr0
=============================================================================
