------------------------------- MODULE MCMiner --------------------------------
(***************************************************************************)
(* A mining node whose peers forward two chained transactions (t1 spends   *)
(* the genesis output, t2 spends t1's) or conflicting ones (t1, t1b and    *)
(* tinfl all spend the genesis output; tinfl claims more than it holds),   *)
(* and blocks mined on any block of its tree, each with a peer coinbase    *)
(* and at most one of the transactions.                                    *)
(***************************************************************************)
EXTENDS Miner, TLC

CONSTANTS
    G, X,        \* wallets: the genesis owner and a payee
    Prr,         \* the key peers' coinbases pay
    MaxBlocks    \* bound on the blocks in the tree for peers to extend

GenLoc == MkTXOLoc(TxHash(GenTx), 0)

\* A wallet's spend of the output at loc, of amount a, paying a - 1 to p.
SpendOf(loc, out, p) ==
    [ins  |-> <<[h |-> loc[1], i |-> loc[2], sig |-> Sig(out.pk, out), amt |-> out.amt]>>,
     outs |-> <<Output(out.amt - 1, p)>>,
     lock |-> 0]

T1 == SpendOf(GenLoc, GenTx.outs[1], X)
T2 == SpendOf(MkTXOLoc(TxHash(T1), 0), T1.outs[1], G)

MCTxs == {T1, T2}

\* A second spend of the genesis output, paying its owner: the wallet's
\* replay or a second request can put two such transactions on the
\* network, and each one passes ChkTx on its own.
T1b == SpendOf(GenLoc, GenTx.outs[1], G)

\* A spend of the genesis output whose input claims twice the output's
\* amount and that pays out one more than the output holds: ChkTx sums
\* the claimed amounts, so the node forwards it and the miner mines it.
TInfl ==
    [ins  |-> <<[h |-> GenLoc[1], i |-> GenLoc[2], sig |-> Sig(G, GenTx.outs[1]),
                 amt |-> 2 * GenTx.outs[1].amt]>>,
     outs |-> <<Output(GenTx.outs[1].amt + 1, X)>>,
     lock |-> 0]

ConflictTxs == {T1, T1b, TInfl}

PeerCB == [ins |-> <<>>, outs |-> <<Output(1, Prr)>>, lock |-> 0]

MCPeerBlocks(c) ==
    IF Cardinality(DOMAIN c.blocks) >= MaxBlocks THEN {}
    ELSE UNION { { [prev |-> h, txs |-> <<PeerCB>>] } \cup
                 { [prev |-> h, txs |-> <<PeerCB, t>>] : t \in MCTxs }
                 : h \in DOMAIN c.blocks }

-----------------------------------------------------------------------------
Kinds == {"mine", "hblk", "htx", "fblk", "ftx", "sig"}

TypeOK ==
    /\ IsABag(procs)
    /\ \A p \in DOMAIN procs : p.k \in Kinds /\ p.f \in BOOLEAN
    /\ loop = NoBlk \/ loop.txs # <<>>
    /\ chain.last \in DOMAIN chain.blocks
    /\ PrvHsh.txs # <<>>
    /\ ChnLen \in Nat /\ Active \in BOOLEAN /\ panicked \in BOOLEAN
    /\ writing \in {"none", "loop", "fblk"}
    /\ MiningPool \in Seq(Txs)
    /\ Ct \in 0 .. TxPCap /\ Len(TxQ) = Ct
    /\ \A h \in BlockMap : h.txs # <<>>
    /\ TxMap \subseteq Txs
    /\ events \in 0 .. MaxEvents

\* The blocks from the genesis block to h, following PrevNode.
RECURSIVE PathTo(_, _)
PathTo(c, h) == IF h = GenesisHash THEN <<h>> ELSE PathTo(c, h.prev) \o <<h>>

\* A block the node loop hands to Chain.Add in HndlMnrBlk always has its
\* parent in the tree: a worker mines on PrvHsh, which HndlBlk sets only
\* after the block has gone through SendBlk, and the node loop handles
\* blocks from SendBlk one at a time, in the order they were mined on.
OwnBlockHasParent == loop # NoBlk => loop.prev \in DOMAIN chain.blocks

\* The miner never crashes the node: in particular a worker that saw
\* PriMet() never finds an empty mining pool, so GenCBTx never returns nil.
NoPanic == ~panicked

\* The blocks of the main chain after the genesis block.
MainBlocks == ToSet(PathTo(chain, chain.last)) \ {GenesisHash}

\* The output the i-th input of the k-th transaction of block h names.
InLoc(h, k, i) == MkTXOLoc(h.txs[k].ins[i].h, h.txs[k].ins[i].i)

\* Every input of h names an output of its parent's snapshot, and no two
\* inputs of h name the same one.
InputsValid(h) ==
    LET locs == UNION { { <<k, i>> : i \in DOMAIN h.txs[k].ins } : k \in DOMAIN h.txs }
    IN  \A ki \in locs :
           /\ InLoc(h, ki[1], ki[2]) \in DOMAIN chain.blocks[h.prev].utxo
           /\ \A kj \in locs : InLoc(h, kj[1], kj[2]) = InLoc(h, ki[1], ki[2]) => kj = ki

\* What the k-th transaction of h really spends: the amounts of the
\* outputs its inputs name, not the amounts the inputs claim.
Spent(h, k) ==
    SumFunction([i \in DOMAIN h.txs[k].ins |-> chain.blocks[h.prev].utxo[InLoc(h, k, i)].amt])

\* No transaction of h but the coinbase pays out more than it spends.
SpendsCovered(h) == \A k \in 2 .. Len(h.txs) : SumOutputs(h.txs[k]) <= Spent(h, k)

\* The coinbase of h pays at most the minting reward for h's height
\* (spec 4.4) plus the fees h's own transactions really leave.
CoinbaseCovered(h) ==
    SumOutputs(h.txs[1]) <=
        MintingReward(Depth(chain, h))
        + SumFunction([k \in 2 .. Len(h.txs) |-> Spent(h, k) - SumOutputs(h.txs[k])])

\* The total amount a snapshot holds.
Holdings(u) == MapThenSumSet(LAMBDA l : u[l].amt, DOMAIN u)

\* h's snapshot holds its parent's, less what h's transactions spend,
\* plus every output they create.
SnapshotAccounts(h) ==
    Holdings(chain.blocks[h].utxo)
      = Holdings(chain.blocks[h.prev].utxo)
        - SumFunction([k \in 2 .. Len(h.txs) |-> Spent(h, k)])
        + SumFunction([k \in DOMAIN h.txs |-> SumOutputs(h.txs[k])])

\* The main chain is a valid ledger: the inputs of its blocks name
\* distinct outputs of the parent's snapshot, no transaction creates value
\* (spec 3: an input's amount is advisory, the output's authoritative),
\* no coinbase pays more than the reward and the block's real fees, and
\* every snapshot accounts for its block.  HndlMnrBlk adds the miner's
\* blocks without ChkBlk, ChkTx trusts the claimed amounts, and
\* Blockchain.Add keys outputs by transaction hash.
MainChainValid ==
    \A h \in MainBlocks :
        InputsValid(h) /\ SpendsCovered(h) /\ CoinbaseCovered(h) /\ SnapshotAccounts(h)

\* The coinbase part alone, for blocks whose inputs are valid: GenCBTx's
\* reads of ChnLen and MiningPool and block.New's read of PrvHsh, which
\* race with HndlBlk and with other workers, never make a coinbase
\* overpay.
MainCoinbasesCovered ==
    \A h \in MainBlocks : InputsValid(h) => CoinbaseCovered(h)

\* Once every goroutine has finished, the miner mines on the main leaf.
PrvHshTracksMainLeaf == (Quiescent /\ ~panicked) => PrvHsh = chain.last

\* The miner stays able to extend the main chain: the node never panics
\* (GenCBTx's nil coinbase), and once every goroutine has finished it
\* mines on the main leaf (ForwardBlock's mnChn, read before Add, and the
\* HndlBlk goroutines' SetHash calls, in whatever order they run).
MinerExtendsMain == NoPanic /\ PrvHshTracksMainLeaf

\* Nothing waits for ever: every mining goroutine, HndlBlk and HndlTx
\* goroutine and gRPC handler finishes, no sender stays blocked on
\* PoolUpdated or SendBlk, and the node loop ends up idle, whatever peers
\* did.
MinerSettles == <>[]Quiescent

=============================================================================
