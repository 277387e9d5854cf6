CONSTANTS
    PKs = {g, m}
    GenPK = g
    InitSbsdy = 2
    NoHash = NoHash
    UnseenHash = UnseenHash
    Miners = {m}
    Rewards = {1, 2}
    MaxBlocks = 4
    Amounts = {1, 2, 3}
    Incoming <- MCIncoming

SPECIFICATION Spec

INVARIANTS
    TypeOK
    NoDoubleSpendOnBranch
    SliceMatchesMainChain
    SelectionCoversAmount
PROPERTY
    ImplementsMainChain
