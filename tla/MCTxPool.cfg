CONSTANTS
    A = A
    B = B
    C = C
    D = D
    Miner = Miner
    TxPCap = 4
    PriLim = 10
    Txs <- MCTxs
    Removers <- MCRemovers

SPECIFICATION PoolSpec

INVARIANTS
    TypeOK
    HeapOrdered

PROPERTIES
    ImplementsMempool
