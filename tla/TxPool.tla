-------------------------------- MODULE TxPool --------------------------------
(***************************************************************************)
(* miner.TxPool (pkg/miner/tx_pool.go): the heap of pending transactions,  *)
(* the cumulative priority CurPri and the count Ct, both atomics, updated  *)
(* under the pool's mutex.  The callers (HndlTx with a transaction,        *)
(* HndlChkBlk with a block's transactions) are the environment: Txs are    *)
(* the transactions that may be added, Removers the transaction lists of   *)
(* blocks.                                                                 *)
(***************************************************************************)
EXTENDS TxHeap, Tx

CONSTANTS
    TxPCap,     \* Config.TxPCap, TxPool.Cap
    PriLim,     \* Config.PriLim
    Txs,        \* transactions handed to Add
    Removers    \* transaction lists handed to ChkTxs

VARIABLES TxQ, CurPri, Ct

pvars == <<TxQ, CurPri, Ct>>

\* CalcPri: fees times 100 over the size, at least 1.  The pool's callers
\* hand it only transactions whose inputs cover their outputs, so the
\* uint32 subtraction does not wrap.
CalcPri(t) ==
    LET pri == ((SumInputs(t) - SumOutputs(t)) * 100) \div Sz(t)
    IN  IF pri = 0 THEN 1 ELSE pri

\* The priority of a list of transactions.
SumPri(ts) == SumFunction([k \in DOMAIN ts |-> CalcPri(ts[k])])

\* TxPool.PriMet
PriMet(curPri) == curPri >= PriLim

\* NewTxPool
PoolInit ==
    /\ TxQ = <<>>
    /\ CurPri = 0
    /\ Ct = 0

\* Faulty variant of PoolAdd: the capacity check is missing.
PoolAddNoCap(t) ==
    /\ TxQ' = HeapAdd(TxQ, CalcPri(t), t)
    /\ CurPri' = CurPri + CalcPri(t)
    /\ Ct' = Ct + 1

\* TxPool.Add: nothing when Ct has reached Cap; otherwise the transaction
\* goes into the heap with its priority and both counters grow.
PoolAdd(t) ==
    /\ Ct < TxPCap
    /\ TxQ' = HeapAdd(TxQ, CalcPri(t), t)
    /\ CurPri' = CurPri + CalcPri(t)
    /\ Ct' = Ct + 1

\* Faulty variant of ChkTxs: CurPri is not lowered.
ChkTxsKeepsPri(remover) ==
    LET res == Rmv(TxQ, remover) IN
    /\ TxQ' = res.heap
    /\ CurPri' = CurPri
    /\ Ct' = Ct - Len(res.removed)

\* TxPool.ChkTxs: Heap.Rmv of the list, then both counters lowered by what
\* Rmv reports as removed.
ChkTxs(remover) ==
    LET res == Rmv(TxQ, remover) IN
    /\ TxQ' = res.heap
    /\ CurPri' = CurPri - SumPri(res.removed)
    /\ Ct' = Ct - Len(res.removed)

PoolNext ==
    \/ \E t \in Txs : PoolAdd(t)
    \/ \E ts \in Removers : ChkTxs(ts)

PoolSpec == PoolInit /\ [][PoolNext]_pvars

=============================================================================
