SPECIFICATION Spec
CONSTANTS
    NumValidators = 3
    Roots <- MCRoots
    ZeroRoot <- MCZeroRoot
    GenesisRoot <- MCGenesisRoot
    HistoricalRootsLimit = 5
    Blocks <- MCBlocksOffered
    Attestations <- MCAttestations
    MaxAttestations = 3
    BlockSlots = {1, 2, 3, 4, 5, 6}
    VoteSlots = {0, 1, 2, 3, 4}
INVARIANTS
    CheckpointsOnChain
    FinalizedNotAboveJustified
    NoQuorumLeftInTally
PROPERTY
    ImplementsFinality
CHECK_DEADLOCK FALSE
