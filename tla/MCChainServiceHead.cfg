SPECIFICATION Spec
CONSTANTS
    NumValidators = 1
    ZeroRoot = 0
    PrunedRoot = 1
    AnchorRoot = 2
    ResumeSlot = 1
    EmptySlots = {}
    NoVote = NoVote
    NoPlan = NoPlan
    NoHead = NoHead
    Blocks <- MCBlocks
    Votes <- MCVotes
    Writers = {loop, sync}
    Loop = loop
    BlockSlots <- Fork
    VoteHeads = {3}
INVARIANTS
    HeadNotStranded
