------------------------------ MODULE MainChain -------------------------------
(***************************************************************************)
(* What the block tree promises the node's other parts (the wallet, the    *)
(* miner, GetBlocks): a main chain that only ever grows at its end, and    *)
(* the unspent outputs of that chain, read as a ledger.  A process that    *)
(* dies loses it; started again it has the genesis block alone.            *)
(*   main     the main chain, genesis first (Blockchain.List)              *)
(*   utxo     the outputs of the main chain spendable by the next block    *)
(*   down     the process has died                                         *)
(***************************************************************************)
EXTENDS BlockTree

VARIABLES main, utxo, down

\* The ledger of a chain: an output is unspent when a block creates it and
\* no later block of the chain consumes it.
Unspent(m) ==
    LET live == { loc \in UNION { Produced(m[i]) : i \in DOMAIN m } :
                    \E i \in DOMAIN m : loc \in Produced(m[i])
                                     /\ \A k \in i + 1 .. Len(m) : loc \notin Consumed(m[k]) }
    IN  [loc \in live |-> OutAt(loc)]

CInit ==
    /\ main = <<GenesisBlock>>
    /\ utxo = Unspent(main)
    /\ down = FALSE

\* One block, a child of the chain's last block, is appended to the chain.
CExtend ==
    /\ ~down
    /\ Len(main') = Len(main) + 1
    /\ SubSeq(main', 1, Len(main)) = main
    /\ main'[Len(main')].prev = BlockHash(main[Len(main)])
    /\ utxo' = Unspent(main')
    /\ UNCHANGED down

CCrash ==
    /\ ~down
    /\ down' = TRUE
    /\ UNCHANGED <<main, utxo>>

CRestart ==
    /\ down
    /\ main' = <<GenesisBlock>>
    /\ utxo' = Unspent(main')
    /\ down' = FALSE

CNext == CExtend \/ CCrash \/ CRestart

CSpec == CInit /\ [][CNext]_<<main, utxo, down>>

=============================================================================
