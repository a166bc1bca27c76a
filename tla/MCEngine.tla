------------------------------ MODULE MCEngine ------------------------------
(* Small instances of Engine.  Root 0 is the all-zero root, root 2 the       *)
(* anchor, root 1 a block below a trusted anchor; larger roots are blocks.   *)
EXTENDS Engine, Sequences

CONSTANTS
    BlockSlots,     \* the slots of the offered blocks: root 2 + i has slot BlockSlots[i]
    VoteSlots,      \* the slots of the offered votes
    VoteHeads,      \* the roots they name as head
    MaxBody         \* bound on the votes in a body

SlotOf == [r \in 3 .. 2 + Len(BlockSlots) |-> BlockSlots[r - 2]]

MCBlocks ==
    {b \in [root: DOMAIN SlotOf, slot: {SlotOf[r] : r \in DOMAIN SlotOf},
            parent_root: {AnchorRoot} \cup DOMAIN SlotOf] :
        b.slot = SlotOf[b.root]}

AnchorCps == {Checkpoint(AnchorRoot, 0), Checkpoint(AnchorRoot, ResumeSlot)}
BlockCps == {Checkpoint(r, SlotOf[r]) : r \in DOMAIN SlotOf}

\* Votes whose target is their head and whose source is the anchor; and one
\* with the genesis placeholder as source.
MCVotes ==
    {vote \in [slot: VoteSlots, head: AnchorCps \cup BlockCps,
               target: AnchorCps \cup BlockCps, source: AnchorCps] :
        vote.target = vote.head /\ vote.head.root \in VoteHeads}
    \cup {[slot |-> 0, head |-> Checkpoint(AnchorRoot, 0),
           target |-> Checkpoint(AnchorRoot, 0), source |-> Zero]}

MCBodies ==
    {body \in [Validators -> MCVotes \cup {NoVote}] :
        Cardinality({v \in Validators : body[v] # NoVote}) <= MaxBody}

Fork == <<2, 2>>
Tree == <<7, 8, 9, 10>>
Chain == <<1, 2, 3>>
Gap == <<1, 3, 4>>
=============================================================================
