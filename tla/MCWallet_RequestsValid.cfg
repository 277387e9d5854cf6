CONSTANTS
    W = W
    P = P
    Prr = Prr
    PKs = {W, P, Prr}
    GenPK = W
    InitSbsdy = 3
    NoHash = NoHash
    Reqs <- MCAllReqs
    TxRplyThresh = 1
    SafeBlkAmt = 2
    AmtBits = 4
    MaxReqs = 3
    PeerBlocks <- MCPeerBlocks
    MaxLen = 5

SPECIFICATION Spec

INVARIANTS
    RequestsValid
