SPECIFICATION Spec
CONSTANTS
    NumValidators = 1
    ZeroRoot = 0
    PrunedRoot = 1
    AnchorRoot = 2
    ResumeSlot = 1
    EmptySlots = {2}
    NoVote = NoVote
    Blocks <- MCBlocks
    Votes <- MCVotes
    Bodies <- MCBodies
    MaxTicks = 3
    Local = {}
    BlockSlots <- Gap
    VoteSlots = {0, 1}
    VoteHeads = {3}
    MaxBody = 1
INVARIANT
    FinalizedNotAboveJustified
CHECK_DEADLOCK FALSE
