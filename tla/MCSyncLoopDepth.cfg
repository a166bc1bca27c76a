SPECIFICATION SyncSpec
CONSTANTS
    p = p
    q = q
    Peers = {p, q}
    Height <- Level
    FinalityLag = 3
    MaxSyncDepth = 2
    MaxWalks = 1
    ChannelBound = 1
    Initial = Initial
    NoPeer = NoPeer
    NoWalk = NoWalk
    NoStatus = NoStatus
    MaxClock = 0
    MaxLead = 1
    MaxFaults = 0
    Starts <- Fresh
PROPERTIES
    CatchesUp
