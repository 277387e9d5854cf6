CONSTANTS
    W = W
    P = P
    Prr = Prr
    PKs = {W, P, Prr}
    GenPK = W
    InitSbsdy = 3
    NoHash = NoHash
    Reqs <- MCReqs
    TxRplyThresh = 3
    SafeBlkAmt = 5
    AmtBits = 4
    MaxReqs = 1
    PeerBlocks <- MCPeerBlocks
    MaxLen = 12

SPECIFICATION Spec

INVARIANTS
    ReplayQueueSound
