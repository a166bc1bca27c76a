------------------------- MODULE MCStateTransition -------------------------
(* Small instances of StateTransitionLoop.  The block of slot s has root s,  *)
(* the anchor root 0, and the all-zero root is -1.                           *)
EXTENDS StateTransitionLoop

CONSTANTS
    BlockSlots,     \* the slots blocks are proposed for
    VoteSlots       \* the slots votes name

MCZeroRoot == -1
MCGenesisRoot == 0
MCRoots == {-1, 0} \cup BlockSlots

MCBlocks ==
    [slot: BlockSlots, root: BlockSlots, parent_root: {0} \cup BlockSlots,
     proposer_index: Validators]
OwnRoot(b) == b.root = b.slot

\* The checkpoints a vote may name: a block at its own slot, an empty slot,
\* and one block at a slot that is not its own.
VoteCheckpoints ==
    {cp \in [root: MCRoots, slot: VoteSlots] :
        cp.root \in {cp.slot, -1} \/ (cp.root = 0 /\ cp.slot = 1)}

MCBlocksOffered == {b \in MCBlocks : OwnRoot(b)}
MCAttestations ==
    [validator_id: 0 .. NumValidators, source: VoteCheckpoints, target: VoteCheckpoints]
=============================================================================
