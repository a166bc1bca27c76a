SPECIFICATION Spec
CONSTANTS
    ByteBits = 4
    U64Len = 1
    OffsetLen = 2
    Bytes32Len = 2
    PublicKeyLen = 3
    SignatureLen = 3
    MaxAttestations = 3
    HistoricalRootsLimit = 4
    ValidatorRegistryLimit = 3
    MaxRequestBlocks = 2
    Samples <- MCSamples
    Published <- MCPublished
    MaxStream = 150
    MaxDecoded = 50
    MaxBlock = 16
    MaxIterations = 6
    UvarintMaxLen = 4
    CacheCap = 2
INVARIANTS
    ReadsBack
    AcceptsOnlyCanonical
    NoPanic
    RootIsExact
