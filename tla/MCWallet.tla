------------------------------- MODULE MCWallet -------------------------------
(***************************************************************************)
(* A wallet node whose requests pay P and whose peers mine, on its main    *)
(* chain, blocks with a coinbase and at most one of the transactions the   *)
(* node has sent that passes their ChkTx.                                  *)
(***************************************************************************)
EXTENDS Wallet, Validation, TLC

CONSTANTS
    P,          \* the payee of the requests
    Prr,        \* the key peers' coinbases pay
    MaxLen      \* bound on the length of the main chain

\* A peer's coinbase; its amount is the height, so that no two collide
\* (that collision is UTXODisjointUnion's counterexample in MCBlockchain).
PeerCB(c) == [ins |-> <<>>, outs |-> <<Output(Length(c), Prr)>>, lock |-> 0]

MCPeerBlocks(c, sent) ==
    IF Length(c) >= MaxLen THEN {}
    ELSE { [prev |-> c.last, txs |-> <<PeerCB(c)>> \o s] :
           s \in {<< >>} \cup { <<t>> : t \in { u \in sent : ChkTx(c, u) } } }

\* One request pays 1 with a fee of 1, the other 1 with no fee.
MCReqs == { [amt |-> 1, fee |-> 1, to |-> P], [amt |-> 1, fee |-> 0, to |-> P] }

\* A request whose Amt+Fee is 2^AmtBits, the uint32 wrap to 0.
MCWrapReqs == { [amt |-> 2 ^ AmtBits - 1, fee |-> 1, to |-> P] }

\* Both kinds of request.
MCAllReqs == MCReqs \cup MCWrapReqs

-----------------------------------------------------------------------------
TypeOK ==
    /\ IsABag(wprocs)
    /\ \A p \in DOMAIN wprocs :
          /\ p.k \in {"req", "blk"} /\ p.pc \in {"send", "chk", "add"}
          /\ p.pc # "chk" => p.id \in DOMAIN obj
    /\ \A k \in DOMAIN LmnlTxs : LmnlTxs[k].T \in DOMAIN obj /\ LmnlTxs[k].P \in Nat
    /\ \A i \in DOMAIN obj : obj[i].ins # << >>
    /\ DOMAIN made = DOMAIN obj
    /\ nreq \in 0 .. MaxReqs
    /\ \A t \in TxMap : \E i \in DOMAIN obj :
          t.lock <= obj[i].lock /\ [t EXCEPT !.lock = obj[i].lock] = obj[i]

\* The places a HndlBlk goroutine holds objects: the one being sent or
\* added, and those its loop has yet to replay.
Held(p) == IF p.k = "blk" /\ p.pc # "chk" THEN <<p.id>> \o p.rest ELSE << >>

\* Every transaction the wallet waits for in LmnlTxs, in its current form
\* (LockTime included), has reached the node loop through SendTx or is
\* held by a goroutine blocked on that send.  HndlTxReq adds before it
\* sends; HndlBlk bumps LockTime, sends and only then adds.
QueuedWasSent ==
    \A k \in DOMAIN LmnlTxs :
        LET id == LmnlTxs[k].T IN
        \/ obj[id] \in TxMap
        \/ \E p \in DOMAIN wprocs : p.pc = "send" /\ p.id = id

\* The number of times id occurs in a sequence.
Occ(s, id) == Cardinality({ j \in DOMAIN s : s[j] = id })

\* No transaction object is pending twice: across the heap and the replay
\* loops of all HndlBlk goroutines, each object appears at most once, so a
\* block that contains it clears it (Rmv removes only the first match).
\* RemAbv removes the entries above the threshold by hash, first match
\* first, so it is about value-equal objects: two requests that select the
\* same outputs once a failed selection has cleared their flags.
ObjectQueuedOnce ==
    \A id \in DOMAIN obj :
        Occ([k \in DOMAIN LmnlTxs |-> LmnlTxs[k].T], id)
          + MapThenSumSet(LAMBDA p : wprocs[p] * Occ(Held(p), id), DOMAIN wprocs)
        <= 1

\* The locations a transaction's inputs spend.
Spent(t) == { MkTXOLoc(t.ins[i].h, t.ins[i].i) : i \in DOMAIN t.ins }

\* Two transactions HndlTxReq made never spend the same output: while one
\* is pending, GetUTXOForAmt skips its inputs because they are Liminal
\* (spec section 8, scenario 3: a second request before the first is mined
\* leaves only one transaction on the network).
RequestsSpendDisjoint ==
    \A i, j \in DOMAIN obj : i # j => Spent(obj[i]) \cap Spent(obj[j]) = {}

\* Every transaction HndlTxReq made spends exactly Amt + Fee more than the
\* payment: its inputs cover the payment, the fee and the change it pays
\* back to the wallet.
RequestBalanced ==
    \A i \in DOMAIN obj : SumInputs(obj[i]) = SumOutputs(obj[i]) + made[i].fee

\* Every transaction HndlTxReq made is one the network can take together
\* with the others it made: it is balanced, and it spends no output
\* another one spends.  The uint32 sum Amt+Fee and the Liminal flags that
\* a failed selection clears are what each part is about.
RequestsValid == RequestBalanced /\ RequestsSpendDisjoint

\* The main-chain blocks at most Length - SafeBlkAmt deep: those already
\* handed to HndlBlk.
RECURSIVE MainPath(_, _)
MainPath(c, h) == IF h = GenesisHash THEN {h} ELSE {h} \cup MainPath(c, h.prev)
SafeBlocks(c) ==
    { h \in MainPath(c, c.last) : Depth(c, h) <= Length(c) - SafeBlkAmt }

\* Once every HndlBlk goroutine has run, the wallet waits for no
\* transaction that conflicts with one of a safe block: an entry leaves
\* LiminalTxs when it is matched in a safe block (spec section 4.5), so it
\* is not replayed after its payment is confirmed.
ConfirmedLeavesQueue ==
    (\A p \in DOMAIN wprocs : p.k # "blk") =>
        \A k \in DOMAIN LmnlTxs, h \in SafeBlocks(chain) :
            \A j \in DOMAIN h.txs : Spent(h.txs[j]) \cap Spent(obj[LmnlTxs[k].T]) = {}

\* The replay queue is sound: LiminalTxs.ChkTxs and HndlBlk's replay loop
\* leave waiting exactly the transactions still unconfirmed, each once.
ReplayQueueSound == ConfirmedLeavesQueue /\ ObjectQueuedOnce

=============================================================================
