-------------------------------- MODULE Slot --------------------------------
(***************************************************************************)
(* Slot arithmetic of crates/protocol/src/slot.rs: the 3SF-mini rule that  *)
(* says which slots may be justified after a finalized slot, and the       *)
(* integer square root it is computed with.  Slots are naturals; the code  *)
(* argues that no u64 operation here can overflow.                         *)
(***************************************************************************)
EXTENDS Integers

\* u64::BITS - n.leading_zeros()
BitLength[n \in Nat] == IF n = 0 THEN 0 ELSE 1 + BitLength[n \div 2]

\* 1 << k
PowerOfTwo[k \in Nat] == IF k = 0 THEN 1 ELSE 2 * PowerOfTwo[k - 1]

\* The first guess of isqrt_u64: a power of two above the square root of n.
IsqrtSeed(n) == PowerOfTwo[(BitLength[n] + 1) \div 2]

\* One Newton iteration of isqrt_u64.
NewtonStep(n, x) == (x + (n \div x)) \div 2

Isqrt(n) ==
    LET loop[x \in Nat \ {0}] ==
            LET next == NewtonStep(n, x)
            IN  IF next >= x THEN x ELSE loop[next]
    IN  IF n < 2 THEN n ELSE loop[IsqrtSeed(n)]

IsJustifiableAfter(candidate, finalized) ==
    /\ candidate >= finalized
    /\ LET delta == candidate - finalized
       IN  \/ delta <= 5
           \/ delta = Isqrt(delta) * Isqrt(delta)
           \/ delta = Isqrt(delta) * (Isqrt(delta) + 1)
=============================================================================
