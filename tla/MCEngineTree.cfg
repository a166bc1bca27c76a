SPECIFICATION Spec
CONSTANTS
    NumValidators = 1
    ZeroRoot = 0
    PrunedRoot = 1
    AnchorRoot = 2
    ResumeSlot = 1
    EmptySlots = {}
    NoVote = NoVote
    Blocks <- MCBlocks
    Votes <- MCVotes
    Bodies <- MCBodies
    MaxTicks = 3
    Local = {}
    BlockSlots <- Tree
    VoteSlots = {1}
    VoteHeads = {3}
    MaxBody = 0
INVARIANTS
    FinalizedNotAboveJustified
    HeadOnJustifiedBranch
    TargetJustifiable
PROPERTIES
    CheckpointsMonotone
CHECK_DEADLOCK FALSE
