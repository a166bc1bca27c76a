SPECIFICATION Spec
CONSTANTS
    NumValidators = 2
    ZeroRoot = 0
    PrunedRoot = 1
    AnchorRoot = 2
    ResumeSlot = 1
    EmptySlots = {2}
    NoVote = NoVote
    Blocks <- MCBlocks
    Votes <- MCVotes
    Bodies <- MCBodies
    MaxTicks = 11
    Local = {1}
    BlockSlots <- Gap
    VoteSlots = {1}
    VoteHeads = {3}
    MaxBody = 1
INVARIANTS
    HeadWalkNeverFails
    CheckpointsTracked
    OwnVoteValid
    MajorityDecidesHead
PROPERTIES
    SafeTargetSupported
CHECK_DEADLOCK FALSE
