SPECIFICATION Spec
CONSTANTS
    NumValidators = 1
    ZeroRoot = 0
    PrunedRoot = 1
    AnchorRoot = 2
    ResumeSlot = 1
    EmptySlots = {}
    NoVote = NoVote
    NoPlan = NoPlan
    NoHead = NoHead
    Blocks <- TreeBlocks
    Votes <- MCVotes
    Writers = {loop, sync}
    Loop = loop
    BlockSlots <- Tree
    VoteHeads = {5}
INVARIANTS
    HeadDecodes
    HeadPayloadPresent
PROPERTIES
    RecordedFinalizedMonotone
