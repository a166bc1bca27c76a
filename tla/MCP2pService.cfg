SPECIFICATION Spec
CONSTANTS
    Peers = {p1, p2}
    Walks = {w1}
    Capacity = 1
    GossipCapacity = 1
    InFlightCap = 1
    MaxConns = 2
    MaxRequests = 1
    MaxConnects = 2
    MaxGossip = 2
    Publish = Publish
    NoCall = NoCall
    NoPeer = NoPeer
INVARIANTS
    NoStrandedRequest
    AdmissionExact
PROPERTY
    CallsReturn
