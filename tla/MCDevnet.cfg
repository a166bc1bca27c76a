SPECIFICATION Spec
CONSTANTS
    NumValidators = 3
    ZeroRoot = 0
    AnchorRoot = 1
    PrunedRoot = 100
    ResumeSlot = 1
    EmptySlots = {}
    NoVote = NoVote
    MaxSlot = 24
    Bounds <- MCBounds
    Recovery = 7
    QuorumRecovery = 15
    Hashes <- MCHashes
CHECK_DEADLOCK FALSE
INVARIANTS
    Agreement
    HeadKeepsFinalized
    ProductionSucceeds
    HeadsConverge
    FinalityResumes
PROPERTY
    WalkRestoresFinality
