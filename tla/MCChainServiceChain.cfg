SPECIFICATION Spec
CONSTANTS
    NumValidators = 1
    ZeroRoot = 0
    PrunedRoot = 1
    AnchorRoot = 2
    ResumeSlot = 1
    EmptySlots = {}
    NoVote = NoVote
    NoPlan = NoPlan
    NoHead = NoHead
    Blocks <- ChainBlocks
    Votes <- MCVotes
    Writers = {loop}
    Loop = loop
    BlockSlots <- Line
    VoteHeads = {5}
PROPERTIES
    FinalizedMonotone
