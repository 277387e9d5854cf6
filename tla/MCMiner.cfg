CONSTANTS
    G = G
    X = X
    Prr = Prr
    Miner = Mnr
    PKs = {G, X, Prr, Mnr}
    GenPK = G
    InitSbsdy = 3
    NoHash = NoHash
    TxPCap = 1
    PriLim = 1
    Txs <- MCTxs
    Removers = {}
    BlkSz = 250
    InitSubsdy = 4
    SubsdyHlvRt = 1
    MxHlvgs = 2
    PeerBlocks <- MCPeerBlocks
    MaxEvents = 2
    MaxBlocks = 3

SPECIFICATION FairSpec

INVARIANTS
    TypeOK
    OwnBlockHasParent
PROPERTY
    MinerSettles
