------------------------------ MODULE Validation ------------------------------
(***************************************************************************)
(* Node.ChkBlk and Node.ChkTx (pkg/validation.go) over a node's tree.      *)
(* Block and transaction sizes (at most a few hundred bytes in the model,  *)
(* against MxBlkSz = 10,000,000) always pass, and every block the model    *)
(* builds carries a nonce solving its own difficulty target.               *)
(***************************************************************************)
EXTENDS BlockTree

\* ChkBlk: non-empty; the first transaction a coinbase with outputs summing
\* above 0, no later one a coinbase; the later transactions' inputs found in
\* the snapshot ChkChainsUTXO picks.  Nothing else of a later transaction
\* is checked: not its signatures, not its amounts.
ChkBlkSyn(b) ==
    /\ b.txs # <<>>
    /\ IsCoinbase(b.txs[1])
    /\ b.txs[1].outs # <<>>
    /\ SumOutputs(b.txs[1]) > 0
    /\ \A i \in 2 .. Len(b.txs) : ~IsCoinbase(b.txs[i])

\* ChkBlkSyn is what ChkBlk checks before ChkChainsUTXO reads the tree.
ChkBlk(c, b) == ChkBlkSyn(b) /\ ChkChainsUTXO(c, Tail(b.txs), b.prev)

\* ChkTx: every input found in LastBlock's snapshot and unlocked by its
\* script; inputs and outputs non-empty, both sums positive and the
\* inputs' (claimed) amounts covering the outputs.
ChkTx(c, t) ==
    /\ \A i \in DOMAIN t.ins :
          /\ ~IsInvalidInput(c, t.ins[i])
          /\ IsUnlckd(MainUTXO(c)[MkTXOLoc(t.ins[i].h, t.ins[i].i)], t.ins[i].sig)
    /\ t.ins # <<>>
    /\ t.outs # <<>>
    /\ SumOutputs(t) > 0
    /\ SumInputs(t) > 0
    /\ SumInputs(t) >= SumOutputs(t)

=============================================================================
