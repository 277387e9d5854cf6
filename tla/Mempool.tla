------------------------------- MODULE Mempool --------------------------------
(***************************************************************************)
(* What the transaction pool promises its callers (the miner's HndlTx and  *)
(* HndlChkBlk): a bounded multiset of transactions.  Add puts one copy in  *)
(* while there is room; ChkTxs(ts) takes out, for each listed transaction, *)
(* one copy of it if there is one (multiset difference); the count and the *)
(* cumulative priority are those of the multiset.                          *)
(***************************************************************************)
EXTENDS Integers, FiniteSets, FiniteSetsExt, Bags, BagsExt

CONSTANTS
    Cap,          \* the pool's capacity
    Pri(_),       \* the priority of a transaction
    Txs,          \* transactions handed to Add
    Removers      \* transaction lists handed to ChkTxs

VARIABLES pool, count, priority

\* The multiset of a sequence's elements.
BagOfSeq(s) == [x \in {s[k] : k \in DOMAIN s} |-> Cardinality({k \in DOMAIN s : s[k] = x})]

\* The total priority of a multiset.
BagPri(B) == MapThenSumSet(LAMBDA x : CopiesIn(x, B) * Pri(x), BagToSet(B))

MInit ==
    /\ pool = EmptyBag
    /\ count = 0
    /\ priority = 0

MAdd(t) ==
    /\ BagCardinality(pool) < Cap
    /\ pool' = BagAdd(pool, t)
    /\ count' = count + 1
    /\ priority' = priority + Pri(t)

MChkTxs(ts) ==
    /\ pool' = pool (-) BagOfSeq(ts)
    /\ count' = BagCardinality(pool')
    /\ priority' = BagPri(pool')

MNext ==
    \/ \E t \in Txs : MAdd(t)
    \/ \E ts \in Removers : MChkTxs(ts)

MSpec == MInit /\ [][MNext]_<<pool, count, priority>>

=============================================================================
