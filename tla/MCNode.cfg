CONSTANTS
    A = A
    B = B
    C = C
    Nodes = {A, B, C}
    InitLinks <- MCInitLinks
    Boot = A
    PKs = {A}
    GenPK = A
    InitSbsdy = 3
    NoHash = NoHash
    PeerLimit = 200
    AddrLimit = 1000
    Stamps = {1, 2}
    MaxEvents = 2
    HasMnr = FALSE
    PeerChain <- MCPeerChain

SPECIFICATION FairSpec

INVARIANTS
    TypeOK
    HandshakeMutual

PROPERTY
    NetworkQuiesces
