----------------------------- MODULE IsqrtLoop -----------------------------
(***************************************************************************)
(* isqrt_u64 of crates/protocol/src/slot.rs, one step per iteration of its *)
(* loop, for every distance delta that is_justifiable_after may hand to    *)
(* it.                                                                     *)
(***************************************************************************)
EXTENDS Slot

CONSTANT Deltas     \* the distances from the finalized slot considered

ASSUME IsqrtAssumption == Deltas \subseteq Nat

VARIABLES radicand, guess, pc

isqrt_vars == <<radicand, guess, pc>>

IsqrtInit == radicand \in Deltas /\ guess = 0 /\ pc = "entry"

Small ==
    /\ pc = "entry" /\ radicand < 2
    /\ guess' = radicand
    /\ pc' = "returned"
    /\ UNCHANGED radicand

Seed ==
    /\ pc = "entry" /\ radicand >= 2
    /\ guess' = IsqrtSeed(radicand)
    /\ pc' = "loop"
    /\ UNCHANGED radicand

Iterate ==
    /\ pc = "loop" /\ NewtonStep(radicand, guess) < guess
    /\ guess' = NewtonStep(radicand, guess)
    /\ UNCHANGED <<radicand, pc>>

\* MUTANT of Return: the loop returns the last guess it computed.
ReturnNext ==
    /\ pc = "loop" /\ NewtonStep(radicand, guess) >= guess
    /\ guess' = NewtonStep(radicand, guess)
    /\ pc' = "returned"
    /\ UNCHANGED radicand

\* MUTANT of Return: the loop stops only when the guess grows.
ReturnWhenGrowing ==
    /\ pc = "loop" /\ NewtonStep(radicand, guess) > guess
    /\ pc' = "returned"
    /\ UNCHANGED <<radicand, guess>>

Return ==
    /\ pc = "loop" /\ NewtonStep(radicand, guess) >= guess
    /\ pc' = "returned"
    /\ UNCHANGED <<radicand, guess>>

IsqrtNext == Small \/ Seed \/ Iterate \/ Return

IsqrtSpec == IsqrtInit /\ [][IsqrtNext]_isqrt_vars /\ WF_isqrt_vars(IsqrtNext)
-----------------------------------------------------------------------------
(* Properties *)

\* The guess is a natural number and never 0 inside the loop, where it is the
\* divisor.
IsqrtTypeOK ==
    /\ radicand \in Deltas
    /\ guess \in Nat
    /\ pc \in {"entry", "loop", "returned"}
    /\ pc = "loop" => guess # 0

IsFloorSqrt(r, m) == r * r <= m /\ m < (r + 1) * (r + 1)

\* isqrt_u64 returns the floor of the square root.
ReturnsFloorSqrt == pc = "returned" => IsFloorSqrt(guess, radicand)

\* Perfect squares and pronic numbers, as the doc of is_justifiable_after
\* defines them.
Square(m) == \E k \in Nat : m = k * k
Pronic(m) == \E k \in Nat : m = k * (k + 1)

\* The two comparisons that is_justifiable_after makes with the returned root
\* recognise exactly the squares and the pronic numbers.
ComparisonsExact ==
    pc = "returned" => /\ radicand = guess * guess <=> Square(radicand)
                       /\ radicand = guess * (guess + 1) <=> Pronic(radicand)

\* The loop ends: the guesses fall until they reach the root.
Terminates == <>(pc = "returned")
=============================================================================
