------------------------------ MODULE Finality ------------------------------
(***************************************************************************)
(* What a chain's state promises about finality, without saying how votes  *)
(* are counted: the chain only grows, a justified slot stays justified,    *)
(* and the finalized checkpoint names a justified slot of the chain and    *)
(* never moves to an earlier slot.                                         *)
(***************************************************************************)
EXTENDS Integers

VARIABLES
    chain,      \* chain[i] is the root recorded for slot i
    justified,  \* the justified slots
    finalized   \* the finalized checkpoint, [root, slot]

finalityVars == <<chain, justified, finalized>>

OnChain(c, j, f) ==
    /\ f.slot \in DOMAIN c
    /\ c[f.slot] = f.root
    /\ f.slot \in j

Init == DOMAIN chain = {} /\ justified = {} /\ finalized.slot = 0

Grow ==
    /\ DOMAIN chain \subseteq DOMAIN chain'
    /\ \A i \in DOMAIN chain : chain'[i] = chain[i]
    /\ justified \subseteq justified'
    /\ finalized'.slot >= finalized.slot
    /\ OnChain(chain', justified', finalized')

Spec == Init /\ [][Grow]_finalityVars
=============================================================================
