SPECIFICATION SyncSpec
CONSTANTS
    p = p
    q = q
    Peers = {p, q}
    Height <- Uneven
    FinalityLag = 3
    MaxSyncDepth = 3
    MaxWalks = 1
    ChannelBound = 1
    Initial = Initial
    NoPeer = NoPeer
    NoWalk = NoWalk
    NoStatus = NoStatus
    MaxClock = 3
    MaxLead = 1
    MaxFaults = 0
    Starts <- Fresh
PROPERTIES
    SkipsOnlyWhenLevel
