------------------------------- MODULE MCTxPool -------------------------------
(***************************************************************************)
(* The pool fed with four transactions whose fees give priorities 1, 1, 2 *)
(* and 4, and with the transaction lists of blocks: a coinbase followed by *)
(* up to two of them.  The same transaction may be added twice: two        *)
(* ForwardTransaction handlers can both find it missing from TxMap before  *)
(* either records it (server.go), and both hand it to HndlTx.              *)
(***************************************************************************)
EXTENDS TxPool, TLC

CONSTANTS A, B, C, D, Miner

\* A one-input, one-output transaction paying fee.
MkTx(src, fee) ==
    [ins  |-> <<[h |-> src, i |-> 0, sig |-> Sig(src, Output(fee + 1, src)), amt |-> fee + 1]>>,
     outs |-> <<Output(1, src)>>,
     lock |-> 0]

Coinbase == [ins |-> <<>>, outs |-> <<Output(10, Miner)>>, lock |-> 0]

MCTxs == {MkTx(A, 0), MkTx(B, 1), MkTx(C, 2), MkTx(D, 3)}
MCRemovers == { <<Coinbase>> \o ts : ts \in BoundedSeq(MCTxs, 2) }

HeapTxs == [k \in DOMAIN TxQ |-> TxQ[k].T]
HeapBag == [t \in ToSet(HeapTxs) |-> Cardinality({k \in DOMAIN TxQ : TxQ[k].T = t})]

-----------------------------------------------------------------------------
TypeOK ==
    /\ TxQ \in Seq([P : Nat, T : MCTxs])
    /\ CurPri \in Nat
    /\ Ct \in 0 .. TxPCap

\* After every Add (heap.Push) and every ChkTxs (swap-with-last removals
\* followed by heap.Init) the slice is in heap order, so its first node has
\* the highest priority.
HeapOrdered == IsHeap(TxQ)

\* The pool implements the bounded multiset of Mempool: the heap's
\* transactions are the multiset, Ct its size and CurPri its priority,
\* across adds, partial matches, duplicates and misses in ChkTxs.
M == INSTANCE Mempool WITH pool <- HeapBag, count <- Ct, priority <- CurPri,
                           Cap <- TxPCap, Pri <- CalcPri
ImplementsMempool == M!MSpec

\* Spec 8: "After mempool.check_txs(txs), the mempool contains no tx whose
\* hash appears in txs."  Checked against ChkTxs, whose Heap.Rmv removes
\* the first match of each listed transaction only.
ChkTxsClearsMatches ==
    [][\A ts \in MCRemovers :
         ChkTxs(ts) => \A k \in DOMAIN TxQ' : TxQ'[k].T \notin ToSet(ts)]_pvars

=============================================================================
