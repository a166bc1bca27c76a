--------------------------- MODULE MCChainService ---------------------------
(* Small instances of ChainService.  Root 0 is the all-zero root, root 2 the *)
(* genesis block; larger roots are blocks.                                   *)
EXTENDS ChainService, Sequences

CONSTANTS
    BlockSlots,     \* the slots of the offered blocks: root 2 + i has slot BlockSlots[i]
    VoteHeads       \* the roots that votes name as head

SlotOf == [r \in 3 .. 2 + Len(BlockSlots) |-> BlockSlots[r - 2]]

MCBlocks ==
    {b \in [root: DOMAIN SlotOf, slot: {SlotOf[r] : r \in DOMAIN SlotOf},
            parent_root: {AnchorRoot} \cup DOMAIN SlotOf] :
        b.slot = SlotOf[b.root]}

\* A chain: the parent of a block is the one before it.
ChainBlocks == {b \in MCBlocks : b.parent_root = b.root - 1}

\* Every tree in which the newest block extends the oldest.
TreeBlocks == {b \in MCBlocks : b.root = 6 => b.parent_root = 5}

\* Votes of slot 1 for a block, with the genesis block as source.
MCVotes ==
    {[slot |-> 1, head |-> Checkpoint(r, SlotOf[r]), target |-> Checkpoint(r, SlotOf[r]),
      source |-> Checkpoint(AnchorRoot, 0)] : r \in VoteHeads}

Fork == <<1, 1>>
Tree == <<2, 3, 1, 4>>
Line == <<1, 2, 3, 4, 5>>
=============================================================================
