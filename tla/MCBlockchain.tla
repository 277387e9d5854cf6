----------------------------- MODULE MCBlockchain -----------------------------
(***************************************************************************)
(* One node's tree fed by the blocks its handlers pass to Add: blocks      *)
(* that pass ChkBlk, mined by peers on any block of the tree or on a block *)
(* this node has not received (UnseenHash), each with a coinbase paying a  *)
(* miner and at most one transaction signed by the owner of the output it  *)
(* spends.                                                                 *)
(***************************************************************************)
EXTENDS Blockchain, Validation, TLC

CONSTANTS
    Miners,       \* public keys the peers' miners pay their coinbase to
    Rewards,      \* coinbase amounts (subsidy plus fees)
    MaxBlocks,    \* bound on the number of blocks in the tree
    UnseenHash    \* hash of a block the node has not received

Coinbases == { [ins |-> <<>>, outs |-> <<Output(r, m)>>, lock |-> 0] : m \in Miners, r \in Rewards }

\* A wallet's transaction: one output spent whole to some key.  Peers build
\* blocks from pool transactions checked against their own main chain, so
\* a block may spend any output of any snapshot the network has seen.
Spend(u, loc, p) ==
    [ins  |-> <<[h |-> loc[1], i |-> loc[2], sig |-> Sig(u[loc].pk, u[loc]), amt |-> u[loc].amt]>>,
     outs |-> <<Output(u[loc].amt, p)>>,
     lock |-> 0]

Spends(c) ==
    UNION { { Spend(c.blocks[h].utxo, loc, p) : loc \in DOMAIN c.blocks[h].utxo, p \in PKs }
            : h \in DOMAIN c.blocks }

Candidates(c) ==
    UNION { { [prev |-> h, txs |-> <<cb>>] : cb \in Coinbases } \cup
            { [prev |-> h, txs |-> <<cb, t>>] : cb \in Coinbases, t \in Spends(c) }
            : h \in DOMAIN c.blocks \cup {UnseenHash} }

MCIncoming(c) ==
    IF Cardinality(DOMAIN c.blocks) >= MaxBlocks THEN {}
    ELSE { b \in Candidates(c) : ChkBlk(c, b) }

-----------------------------------------------------------------------------
Outputs == [amt : 0 .. InitSbsdy + 2 * MaxBlocks, pk : PKs]

TypeOK ==
    /\ crashed \in BOOLEAN
    /\ chain.last \in DOMAIN chain.blocks
    /\ \A h \in DOMAIN chain.blocks :
          /\ chain.blocks[h].depth \in 0 .. MaxBlocks
          /\ \A loc \in DOMAIN chain.blocks[h].utxo : chain.blocks[h].utxo[loc] \in Outputs
    /\ chain.liminal \subseteq UNION { DOMAIN chain.blocks[h].utxo : h \in DOMAIN chain.blocks }

\* The blocks from the genesis block to h, following PrevNode.
RECURSIVE PathTo(_, _)
PathTo(c, h) == IF h = GenesisHash THEN <<h>> ELSE PathTo(c, h.prev) \o <<h>>

\* Every output a block of a branch spends was created earlier on that
\* branch more often than it was spent there: the per-node snapshots that
\* Add copies from the parent and ChkChainsUTXO consults (the parent's, not
\* LastBlock's) never let a branch spend an output twice or spend one it
\* does not have.
NoDoubleSpendOnBranch ==
    \A h \in DOMAIN chain.blocks :
        LET p == PathTo(chain, h) IN
        \A j \in DOMAIN p : \A loc \in Consumed(p[j]) :
            Cardinality({i \in 1 .. j - 1 : loc \in Produced(p[i])})
              > Cardinality({i \in 1 .. j - 1 : loc \in Consumed(p[i])})

\* Blockchain.Slice (used by GetBlocks and by the wallet's safe-block
\* lookup) returns exactly the main-chain blocks of depth s .. e-1, oldest
\* first, for every window, including windows reaching below the genesis.
SliceMatchesMainChain ==
    \A s, e \in -2 .. MaxBlocks :
        Slice(chain, s, e) =
            SelectSeq(PathTo(chain, chain.last),
                      LAMBDA h : s <= Depth(chain, h) /\ Depth(chain, h) < e)

\* GetUTXOForAmt, in every visiting order: a successful selection takes
\* distinct spendable outputs of the key, stops at the first output that
\* covers the rest (all but the last fall short), and its total is the
\* amount plus the change it reports.
SelectionCoversAmount ==
    \A amt \in Amounts, pk \in PKs : \A r \in GetUTXOForAmt(chain, amt, pk) :
        r.ok =>
            /\ ToSet(r.sel) \subseteq Spendable(chain, pk)
            /\ Len(r.sel) = Cardinality(ToSet(r.sel))
            /\ SumFunction([i \in DOMAIN r.sel |-> MainUTXO(chain)[r.sel[i]].amt]) = amt + r.change
            /\ SumFunction([i \in 1 .. Len(r.sel) - 1 |-> MainUTXO(chain)[r.sel[i]].amt]) < amt

\* Spec 3 and 8: "Main-leaf always has maximum depth among all nodes."
\* Checked against Add, which moves LastBlock only onto a child of itself.
MainLeafDeepest ==
    \A h \in DOMAIN chain.blocks : Depth(chain, h) <= Depth(chain, chain.last)

\* Spec 3: utxo(n) = utxo(parent(n)) - consumed(block(n)) \cup produced(block(n)),
\* "disjoint union at each step": no output a block creates is already
\* unspent on its branch.  Checked against Add's map writes.
UTXODisjointUnion ==
    \A h \in DOMAIN chain.blocks \ {GenesisHash} :
        Produced(h) \cap (DOMAIN chain.blocks[h.prev].utxo \ Consumed(h)) = {}

\* Spec 4.2: "Blocks with unknown parent ... are dropped silently": handing
\* Add a block whose parent it lacks never brings the node down.
OrphanDropped == ~crashed

\* The tree implements MainChain: List(chain) only ever grows by one child
\* of its last block (Add moves LastBlock onto a child of itself and
\* nowhere else), LastBlock's snapshot, built by copying the parent's map
\* and deleting and writing entries, is the ledger of the main chain
\* computed from scratch, and a panic in Add loses the chain until
\* blockchain.New starts it again from the genesis block.
C == INSTANCE MainChain WITH main <- List(chain), utxo <- MainUTXO(chain), down <- crashed
ImplementsMainChain == C!CSpec

=============================================================================
