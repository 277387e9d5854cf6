CONSTANTS
    A = A
    B = B
    C = C
    Nodes = {A, B, C}
    InitLinks <- MCBootLinks
    Boot = A
    PKs = {A}
    GenPK = A
    InitSbsdy = 3
    NoHash = NoHash
    PeerLimit = 200
    AddrLimit = 1000
    Stamps = {1, 2}
    MaxEvents = 1
    HasMnr = FALSE
    PeerChain <- MCPeerChain

SPECIFICATION Spec

INVARIANT
    FetchFromResponder
