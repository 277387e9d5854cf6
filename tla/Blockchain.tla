------------------------------ MODULE Blockchain ------------------------------
(***************************************************************************)
(* One node's Blockchain on its own: the blocks its handlers pass to Add,  *)
(* the wallet's requests for outputs, and the process dying of a panic in  *)
(* Add and being started again.                                            *)
(***************************************************************************)
EXTENDS BlockTree

(* The tree on its own: callers hand it blocks and the wallet asks it for  *)
(* outputs.  Incoming(c) is the set of blocks the node's handlers may pass *)
(* to Add in state c; Amounts the amounts the wallet may ask for.          *)

CONSTANTS Incoming(_), Amounts

VARIABLES
    chain,     \* the node's Blockchain
    crashed    \* the process died of a panic in Add

vars == <<chain, crashed>>

Init ==
    /\ chain = NewChain
    /\ crashed = FALSE

\* Add(b) for a block whose parent is known.
Add(b) ==
    /\ ~crashed
    /\ b.txs # <<>>
    /\ ~AddPanics(chain, b)
    /\ chain' = AddBlock(chain, b)
    /\ UNCHANGED crashed

\* Add(b) for a block whose parent is unknown: nil dereference of prevNode.
AddOrphan(b) ==
    /\ ~crashed
    /\ b.txs # <<>>
    /\ AddPanics(chain, b)
    /\ crashed' = TRUE
    /\ UNCHANGED chain

\* The wallet's request (HndlTxReq asks for Amt+Fee > 0).
SelectUTXO(amt, pk) ==
    /\ ~crashed
    /\ \E r \in GetUTXOForAmt(chain, amt, pk) : chain' = [chain EXCEPT !.liminal = r.liminal]
    /\ UNCHANGED crashed

\* The process is started again: nothing is persisted, blockchain.New
\* rebuilds the tree from the genesis block.
Restart ==
    /\ crashed
    /\ chain' = NewChain
    /\ crashed' = FALSE

Next ==
    \/ \E b \in Incoming(chain) : Add(b)
    \/ \E b \in Incoming(chain) : AddOrphan(b)
    \/ \E amt \in Amounts, pk \in PKs : SelectUTXO(amt, pk)
    \/ Restart

Spec == Init /\ [][Next]_vars

=============================================================================
