-------------------------------- MODULE Wallet --------------------------------
(***************************************************************************)
(* The wallet of a node (pkg/wallet) and the parts of the node that drive  *)
(* it: Node.SendTx starting HndlTxReq, the node loop taking transactions   *)
(* from the unbuffered SendTx channel (HndlWtTx), and ForwardBlock handing *)
(* the block SafeBlkAmt deep to a new HndlBlk goroutine each time a block  *)
(* extends the main chain.                                                 *)
(*                                                                         *)
(* A *Transaction made by HndlTxReq is an object: obj[id] is its current   *)
(* value.  HndlBlk's replay increments LockTime on that same object, so    *)
(* every holder of the pointer (the liminal heap, a goroutine about to     *)
(* send it) sees the new value and the new hash.  A heap node is [P, T]    *)
(* with T the object's id; Heap.GetIndex compares T.Hash(), that is the    *)
(* object's current value.                                                 *)
(***************************************************************************)
EXTENDS BlockTree, TxHeap, Bags, BagsExt

CONSTANTS
    W,              \* hex of the wallet's public key (w.Id)
    Reqs,           \* requests [amt, fee, to] Node.SendTx may receive
    TxRplyThresh,   \* Config.TxRplyThresh
    SafeBlkAmt,     \* Config.SafeBlkAmt
    AmtBits,        \* width of the uint32 amounts, scaled down for TLC
    MaxReqs,        \* bound on the requests made
    PeerBlocks(_, _) \* blocks peers may mine on LastBlock, given the
                     \* chain and the transactions the node has sent

ASSUME W \in PKs /\ TxRplyThresh \in Nat /\ SafeBlkAmt \in Nat \ {0}

VARIABLES
    chain,      \* the node's Blockchain
    LmnlTxs,    \* LmnlTxs.TxQ, the heap of [P, T |-> object id]
    obj,        \* the transaction objects HndlTxReq made: id -> value
    made,       \* the request each object was made for (history)
    nreq,       \* requests received so far
    wprocs,     \* bag of running wallet goroutines
    TxMap       \* the values the node loop received from SendTx

vars == <<chain, LmnlTxs, obj, made, nreq, wprocs, TxMap>>

NoBlk == [prev |-> NoHash, txs |-> <<>>]

\* A wallet goroutine: kind "req" (HndlTxReq) or "blk" (HndlBlk), program
\* counter, the block it handles, the object it holds and the objects its
\* loop has still to replay.
WProc(k, pc, b, id, rest) == [k |-> k, pc |-> pc, b |-> b, id |-> id, rest |-> rest]

Go(p, q) == wprocs' = BagAdd(BagRemove(wprocs, p), q)
Exit(p)  == wprocs' = BagRemove(wprocs, p)

\* Amt+Fee in uint32 arithmetic.
AddU32(a, b) == (a + b) % (2 ^ AmtBits)

\* The heap seen through the objects: T is the current value, id the object.
View(h) == [k \in DOMAIN h |-> [P |-> h[k].P, T |-> obj[h[k].T], id |-> h[k].T]]
Unview(v) == [k \in DOMAIN v |-> [P |-> v[k].P, T |-> v[k].id]]

\* LiminalTxs.ChkTxs: IncAll, Rmv of the block's transactions, RemAbv of
\* the threshold; returns the heap left and the objects RemAbv returned.
ChkTxs(h, txs) ==
    LET v   == Rmv(IncAll(View(h)), txs).heap
        abv == SelectSeq(v, LAMBDA n : n.P >= TxRplyThresh)
    IN  [q   |-> Unview(Rmv(v, [k \in DOMAIN abv |-> abv[k].T]).heap),
         abv |-> [k \in DOMAIN abv |-> abv[k].id]]

\* abvThreshold[i].LockTime += 1 on the shared object.
Bump(o, id) == [o EXCEPT ![id].lock = @ + 1]

\* The transaction HndlTxReq builds from a selection: one input per
\* selected output signed by the wallet, Amt to the payee, change (if any)
\* back to the wallet, DefLckTm 0.
ReqTx(c, r, sel, change) ==
    LET u == MainUTXO(c) IN
    [ins  |-> [k \in DOMAIN sel |->
                 [h |-> sel[k][1], i |-> sel[k][2],
                  sig |-> Sig(W, u[sel[k]]), amt |-> u[sel[k]].amt]],
     outs |-> <<Output(r.amt, r.to)>> \o
              (IF change > 0 THEN <<Output(change, W)>> ELSE <<>>),
     lock |-> 0]

-----------------------------------------------------------------------------
Init ==
    /\ chain = NewChain
    /\ LmnlTxs = <<>>
    /\ obj = << >>
    /\ made = << >>
    /\ nreq = 0
    /\ wprocs = EmptyBag
    /\ TxMap = {}

\* Node.SendTx returns on a zero amount (amt is a uint32) or a nil key
\* (never nil here); HndlTxReq returns on Amt == 0 again.
SendTxOk(r) == r.amt > 0

\* Faulty variant of Request: no return when the selection is not enough.
RequestNoEnoughCheck(r) ==
    /\ nreq < MaxReqs
    /\ nreq' = nreq + 1
    /\ SendTxOk(r)
    /\ \E s \in GetUTXOForAmt(chain, AddU32(r.amt, r.fee), W) :
          LET id == Len(obj) + 1 IN
          /\ chain' = [chain EXCEPT !.liminal = s.liminal]
          /\ obj' = Append(obj, ReqTx(chain, r, s.sel, s.change))
          /\ made' = Append(made, r)
          /\ LmnlTxs' = HeapAdd(LmnlTxs, 0, id)
          /\ wprocs' = BagAdd(wprocs, WProc("req", "send", NoBlk, id, <<>>))
    /\ UNCHANGED TxMap

\* Node.SendTx(amt, fee, pubK) and the HndlTxReq goroutine up to the send:
\* GetUTXOForAmt(Amt+Fee) under the chain lock; on failure return; else
\* build the transaction and LmnlTxs.Add(Tx).  (GetUTXOForAmt and Add take
\* different locks, but the only steps of others between them that touch
\* the heap or the flags commute with them.)
Request(r) ==
    /\ nreq < MaxReqs
    /\ nreq' = nreq + 1
    /\ SendTxOk(r)
    /\ \E s \in GetUTXOForAmt(chain, AddU32(r.amt, r.fee), W) :
          /\ chain' = [chain EXCEPT !.liminal = s.liminal]
          /\ IF ~s.ok
             THEN UNCHANGED <<LmnlTxs, obj, made, wprocs>>
             ELSE LET id == Len(obj) + 1 IN
                  /\ obj' = Append(obj, ReqTx(chain, r, s.sel, s.change))
                  /\ made' = Append(made, r)
                  /\ LmnlTxs' = HeapAdd(LmnlTxs, 0, id)
                  /\ wprocs' = BagAdd(wprocs, WProc("req", "send", NoBlk, id, <<>>))
    /\ UNCHANGED TxMap

\* w.SendTx <- tx: the node loop takes it (HndlWtTx records its hash).
\* HndlTxReq then returns; HndlBlk goes on to Add.
Send(p) ==
    /\ p.pc = "send"
    /\ TxMap' = TxMap \cup {obj[p.id]}
    /\ IF p.k = "req" THEN Exit(p) ELSE Go(p, [p EXCEPT !.pc = "add"])
    /\ UNCHANGED <<chain, LmnlTxs, obj, made, nreq>>

\* HndlBlk: ChkTxs(b.Transactions); return if nothing is above the
\* threshold; otherwise bump the first one and send it.
HndlBlkChk(p) ==
    /\ p.k = "blk" /\ p.pc = "chk"
    /\ LET r == ChkTxs(LmnlTxs, p.b.txs) IN
       /\ LmnlTxs' = r.q
       /\ IF r.abv = <<>>
          THEN Exit(p) /\ UNCHANGED obj
          ELSE /\ obj' = Bump(obj, Head(r.abv))
               /\ Go(p, WProc("blk", "send", p.b, Head(r.abv), Tail(r.abv)))
    /\ UNCHANGED <<chain, made, nreq, TxMap>>

\* Faulty variant of HndlBlkAdd: LockTime is incremented after the send.
HndlBlkAddBumpAfterSend(p) ==
    /\ p.k = "blk" /\ p.pc = "add"
    /\ LmnlTxs' = HeapAdd(LmnlTxs, 0, p.id)
    /\ IF p.rest = <<>>
       THEN Exit(p) /\ obj' = Bump(obj, p.id)
       ELSE /\ obj' = Bump(obj, p.id)
            /\ Go(p, WProc("blk", "send", p.b, Head(p.rest), Tail(p.rest)))
    /\ UNCHANGED <<chain, made, nreq, TxMap>>

\* HndlBlk: LmnlTxs.Add of the object just sent, then the next one is
\* bumped and sent, or the loop ends.
HndlBlkAdd(p) ==
    /\ p.k = "blk" /\ p.pc = "add"
    /\ LmnlTxs' = HeapAdd(LmnlTxs, 0, p.id)
    /\ IF p.rest = <<>>
       THEN Exit(p) /\ UNCHANGED obj
       ELSE /\ obj' = Bump(obj, Head(p.rest))
            /\ Go(p, WProc("blk", "send", p.b, Head(p.rest), Tail(p.rest)))
    /\ UNCHANGED <<chain, made, nreq, TxMap>>

\* ForwardBlock for a valid block b extending the main chain: Chain.Add(b)
\* and, once the chain has SafeBlkAmt blocks, go Wallet.HndlBlk(blks[0]).
NetBlock(b) ==
    /\ chain' = AddBlock(chain, b)
    /\ LET blks == Slice(chain', Length(chain') - SafeBlkAmt, Length(chain')) IN
       IF Len(blks) = SafeBlkAmt
       THEN wprocs' = BagAdd(wprocs, WProc("blk", "chk", blks[1], 0, <<>>))
       ELSE UNCHANGED wprocs
    /\ UNCHANGED <<LmnlTxs, obj, made, nreq, TxMap>>

\* Every goroutine has returned and no more input comes.
Terminating == wprocs = EmptyBag /\ UNCHANGED vars

SomeSend == \E p \in DOMAIN wprocs : Send(p)
SomeHndlBlkChk == \E p \in DOMAIN wprocs : HndlBlkChk(p)
SomeHndlBlkAdd == \E p \in DOMAIN wprocs : HndlBlkAdd(p)

Next ==
    \/ \E r \in Reqs : Request(r)
    \/ \E b \in PeerBlocks(chain, TxMap) : NetBlock(b)
    \/ SomeSend
    \/ SomeHndlBlkChk
    \/ SomeHndlBlkAdd
    \/ Terminating

Spec == Init /\ [][Next]_vars

=============================================================================
