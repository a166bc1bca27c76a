SPECIFICATION Spec
CONSTANTS
    NumValidators = 1
    ZeroRoot = 0
    PrunedRoot = 1
    AnchorRoot = 2
    ResumeSlot = 1
    EmptySlots = {}
    NoVote = NoVote
    Blocks <- MCBlocks
    Votes <- MCVotes
    Bodies <- MCBodies
    MaxTicks = 3
    Local = {}
    BlockSlots <- Fork
    VoteSlots = {0, 1}
    VoteHeads = {3, 4}
    MaxBody = 1
PROPERTY
    FutureVotesInert
CHECK_DEADLOCK FALSE
