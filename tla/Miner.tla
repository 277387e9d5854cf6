-------------------------------- MODULE Miner ---------------------------------
(***************************************************************************)
(* One mining node (pkg/miner with the parts of pkg/node.go and            *)
(* pkg/server.go that drive it): the Mine loop and its mining goroutines,  *)
(* the unbuffered channels PoolUpdated and SendBlk, the HndlBlk and HndlTx *)
(* goroutines, the node loop's HndlMnrBlk, and the gRPC handlers           *)
(* ForwardBlock and ForwardTransaction on the node's tree and pool.        *)
(*                                                                         *)
(* Every goroutine that is not a long-lived loop is a record in the bag    *)
(* procs; its pc is the point it has reached.  The Mine loop and the node  *)
(* loop are always at their receive, so a goroutine blocked on a send      *)
(* (kind "sig" on PoolUpdated, a worker at "send" on SendBlk) is the       *)
(* channel's content.  The node has no wallet and no peers of its own:     *)
(* peers are the environment that calls the gRPC handlers.                 *)
(***************************************************************************)
EXTENDS BlockTree, Validation, TxPool, Bags, BagsExt

CONSTANTS
    Miner,          \* the miner's public key, paid by its coinbases
    BlkSz,          \* Config.BlkSz
    InitSubsdy,     \* Config.InitSubsdy
    SubsdyHlvRt,    \* Config.SubsdyHlvRt
    MxHlvgs,        \* Config.MxHlvgs
    PeerBlocks(_),  \* the blocks peers may forward when the tree is c
    MaxEvents       \* bound on the calls peers make

(* TxQ, CurPri and Ct, declared by TxPool, are Miner.TxP. *)
VARIABLES
    chain,      \* Node.Chain
    PrvHsh,     \* Miner.PrvHsh
    ChnLen,     \* Miner.ChnLen
    MiningPool, \* Miner.MiningPool, written and read by every worker
    Active,     \* Miner.Active
    procs,      \* the bag of running goroutines
    loop,       \* the block the node loop is handling, or NoBlk
    BlockMap,   \* Node.BlockMap, hashes of blocks seen
    TxMap,      \* Node.TxMap, hashes of transactions seen
    writing,    \* which Add is storing its node in bc.blocks: "none", "loop", "fblk"
    panicked,   \* the process died of a panic
    events      \* calls made by peers so far

vars == <<chain, TxQ, CurPri, Ct, PrvHsh, ChnLen, MiningPool, Active, procs, loop,
          BlockMap, TxMap, writing, panicked, events>>

NoBlk == [prev |-> NoHash, txs |-> <<>>]
NoTx == [ins |-> <<>>, outs |-> <<>>, lock |-> 0]

\* A goroutine: its kind, where it is, the block or transaction it holds,
\* and a flag (a worker's context cancelled; ForwardBlock's mnChn).
Proc(k, pc, b, t, f) == [k |-> k, pc |-> pc, b |-> b, t |-> t, f |-> f]
Signal == Proc("sig", "send", NoBlk, NoTx, FALSE)
HndlBlkProc(b) == Proc("hblk", "set", b, NoTx, FALSE)

\* The goroutine p takes a step and becomes q, or ends.
Go(p, q) == procs' = BagAdd(BagRemove(procs, p), q)
Exit(p) == procs' = BagRemove(procs, p)

\* HndlChkBlk and HndlTx end by signalling PoolUpdated if the miner is
\* Active; the send blocks until the Mine loop receives it.
SignalOrExit(p) == IF Active THEN Go(p, Signal) ELSE Exit(p)

-----------------------------------------------------------------------------
(* Block construction.                                                     *)

\* NewMiningPool: the heap's slice in slice order (not priority order),
\* as long as 100 bytes for the coinbase plus the sizes stay below BlkSz.
NewMiningPool(q) ==
    LET fits(k) == 100 + SumFunction([i \in 1 .. k |-> Sz(q[i].T)]) < BlkSz
        n == Max({k \in 0 .. Len(q) : \A j \in 1 .. k : fits(j)})
    IN  [i \in 1 .. n |-> q[i].T]

\* GenCBTx's minting reward: InitSubsdy halved ChnLen / SubsdyHlvRt times,
\* 0 beyond MxHlvgs halvings.
MintingReward(chnLen) ==
    LET divisor == chnLen \div SubsdyHlvRt
    IN  IF divisor > MxHlvgs THEN 0 ELSE InitSubsdy \div (2 ^ divisor)

\* GenCBTx for a non-empty pool: one output paying the minting reward plus
\* the pool's fees to the miner, no inputs, lock time DefLckTm = 0.
GenCBTx(txs, chnLen) ==
    LET fee == SumFunction([i \in DOMAIN txs |-> SumInputs(txs[i])])
               - SumFunction([i \in DOMAIN txs |-> SumOutputs(txs[i])])
    IN  [ins |-> <<>>, outs |-> <<Output(MintingReward(chnLen) + fee, Miner)>>, lock |-> 0]

-----------------------------------------------------------------------------
Init ==
    /\ chain = NewChain
    /\ PoolInit
    /\ PrvHsh = GenesisHash
    /\ ChnLen = 1
    /\ MiningPool = <<>>
    /\ Active = FALSE
    /\ procs = EmptyBag
    /\ loop = NoBlk
    /\ BlockMap = {}
    /\ TxMap = {}
    /\ writing = "none"
    /\ panicked = FALSE
    /\ events = 0

\* Node.StartMiner -> Miner.StartMiner: Active set, the Mine loop started,
\* and a first PoolUpdated signal sent.
StartMiner ==
    /\ ~Active
    /\ Active' = TRUE
    /\ procs' = BagAdd(procs, Signal)
    /\ UNCHANGED <<chain, TxQ, CurPri, Ct, PrvHsh, ChnLen, MiningPool, loop, BlockMap, TxMap, writing, panicked, events>>

\* The Mine loop receives a signal: cancel() ends the context of every
\* earlier worker; if Active a new worker starts.
CancelWorker(p) == IF p.k = "mine" THEN [p EXCEPT !.f = TRUE] ELSE p
MineRecv ==
    /\ BagIn(Signal, procs)
    /\ LET rest == BagRemove(procs, Signal)
           cancelled == [q \in {CancelWorker(p) : p \in DOMAIN rest} |->
                           MapThenSumSet(LAMBDA p : rest[p], {p \in DOMAIN rest : CancelWorker(p) = q})]
       IN  procs' = IF Active THEN BagAdd(cancelled, Proc("mine", "start", NoBlk, NoTx, FALSE))
                    ELSE cancelled
    /\ UNCHANGED <<chain, TxQ, CurPri, Ct, PrvHsh, ChnLen, MiningPool, Active, loop, BlockMap, TxMap, writing, panicked, events>>

\* Everything but the pool and procs.
nvars == <<chain, PrvHsh, ChnLen, MiningPool, Active, loop, BlockMap, TxMap, writing, panicked, events>>

\* The mining goroutine, first statement: return unless TxP.PriMet().
MineStart(p) ==
    /\ ~panicked
    /\ p.k = "mine" /\ p.pc = "start"
    /\ IF PriMet(CurPri) THEN Go(p, [p EXCEPT !.pc = "build"]) ELSE Exit(p)
    /\ UNCHANGED <<pvars, nvars>>

\* The mining goroutine, m.MiningPool = m.NewMiningPool() and the
\* GenCBTx(m.MiningPool) call: NewMiningPool reads the heap (without the
\* pool's lock) into the shared field, and GenCBTx reads the field back
\* and ChnLen.  For an empty mining pool GenCBTx returns nil, which
\* block.New dereferences.  The worker keeps the coinbase in p.t.
MineBuild(p) ==
    LET mp == NewMiningPool(TxQ)
    IN
    /\ ~panicked
    /\ p.k = "mine" /\ p.pc = "build"
    /\ MiningPool' = mp
    /\ \/ /\ mp = <<>>
          /\ panicked' = TRUE
          /\ UNCHANGED procs
       \/ /\ mp # <<>>
          /\ Go(p, [p EXCEPT !.pc = "new", !.t = GenCBTx(mp, ChnLen)])
          /\ UNCHANGED panicked
    /\ UNCHANGED <<pvars, chain, PrvHsh, ChnLen, Active, loop, BlockMap, TxMap, writing, events>>

\* The rest of the statement, m.MiningPool... read again (another worker
\* may have written the field since), and block.New(m.PrvHsh, txs).
\* CalcNonce then finds the context done at nonce 0 if it was cancelled;
\* otherwise the search begins.
MineNew(p) ==
    LET b == [prev |-> PrvHsh, txs |-> <<p.t>> \o MiningPool]
    IN
    /\ ~panicked
    /\ p.k = "mine" /\ p.pc = "new"
    /\ IF p.f THEN Exit(p) ELSE Go(p, [p EXCEPT !.pc = "pow", !.b = b, !.t = NoTx])
    /\ UNCHANGED <<pvars, nvars>>

\* CalcNonce returns true: a nonce below the target was found.  The
\* context is checked once per nonce, so a worker cancelled during its
\* last iteration still succeeds.
MineFound(p) ==
    /\ ~panicked
    /\ p.k = "mine" /\ p.pc = "pow"
    /\ Go(p, [p EXCEPT !.pc = "send"])
    /\ UNCHANGED <<pvars, nvars>>

\* Faulty variant of MineGiveUp: a failed search starts over.
MineGiveUpRetry(p) ==
    /\ ~panicked
    /\ p.k = "mine" /\ p.pc = "pow"
    /\ Go(p, [p EXCEPT !.pc = "start"])
    /\ UNCHANGED <<pvars, nvars>>

\* CalcNonce returns false: NncLim nonces tried, or the cancellation seen.
MineGiveUp(p) ==
    /\ ~panicked
    /\ p.k = "mine" /\ p.pc = "pow"
    /\ Exit(p)
    /\ UNCHANGED <<pvars, nvars>>

\* m.SendBlk <- b: the node loop takes the block; the worker goes on with
\* m.HndlBlk(b).
MineSend(p) ==
    /\ ~panicked
    /\ p.k = "mine" /\ p.pc = "send"
    /\ loop = NoBlk
    /\ loop' = p.b
    /\ Go(p, HndlBlkProc(p.b))
    /\ UNCHANGED <<pvars, chain, PrvHsh, ChnLen, MiningPool, Active, BlockMap, TxMap, writing, panicked, events>>

\* Node.HndlMnrBlk on the node loop: mark the block seen and Chain.Add it,
\* with no ChkBlk.  (Gossip to peers is fire-and-forget.)  Add holds
\* bc.Lock, so it waits for another Add to finish; it ends storing the new
\* node in bc.blocks, the write HndlMnrBlkStored completes.
HndlMnrBlk ==
    /\ ~panicked
    /\ loop # NoBlk /\ writing = "none"
    /\ BlockMap' = BlockMap \cup {BlockHash(loop)}
    /\ IF AddPanics(chain, loop)
       THEN panicked' = TRUE /\ UNCHANGED <<chain, loop, writing>>
       ELSE /\ chain' = AddBlock(chain, loop) /\ writing' = "loop"
            /\ UNCHANGED <<panicked, loop>>
    /\ UNCHANGED <<pvars, procs, PrvHsh, ChnLen, MiningPool, Active, TxMap, events>>

\* The map assignment bc.blocks[newNode.Hash()] = newNode completes,
\* bc.Unlock(), and the node loop returns to its receive.
HndlMnrBlkStored ==
    /\ ~panicked
    /\ writing = "loop"
    /\ writing' = "none" /\ loop' = NoBlk
    /\ UNCHANGED <<pvars, procs, chain, PrvHsh, ChnLen, MiningPool, Active, BlockMap, TxMap, panicked, events>>

\* Miner.HndlBlk(b), three steps: SetHash(b.Hash()), IncChnLen(), then
\* HndlChkBlk(b): TxP.ChkTxs(b.Transactions) and the signal if Active.
HndlBlkSetHash(p) ==
    /\ ~panicked
    /\ p.k = "hblk" /\ p.pc = "set"
    /\ PrvHsh' = BlockHash(p.b)
    /\ Go(p, [p EXCEPT !.pc = "inc"])
    /\ UNCHANGED <<pvars, chain, ChnLen, MiningPool, Active, loop, BlockMap, TxMap, writing, panicked, events>>

HndlBlkIncChnLen(p) ==
    /\ ~panicked
    /\ p.k = "hblk" /\ p.pc = "inc"
    /\ ChnLen' = ChnLen + 1
    /\ Go(p, [p EXCEPT !.pc = "chk"])
    /\ UNCHANGED <<pvars, chain, PrvHsh, MiningPool, Active, loop, BlockMap, TxMap, writing, panicked, events>>

HndlChkBlk(p) ==
    /\ ~panicked
    /\ p.k = "hblk" /\ p.pc = "chk"
    /\ ChkTxs(p.b.txs)
    /\ SignalOrExit(p)
    /\ UNCHANGED nvars

\* Faulty variant of HndlTx: TxP.Add without its capacity check.
HndlTxNoCap(p) ==
    /\ ~panicked
    /\ p.k = "htx"
    /\ PoolAddNoCap(p.t)
    /\ SignalOrExit(p)
    /\ UNCHANGED nvars

\* Miner.HndlTx(t): TxP.Add(t) (nothing at capacity), then the signal.
HndlTx(p) ==
    /\ ~panicked
    /\ p.k = "htx"
    /\ \/ PoolAdd(p.t)
       \/ Ct >= TxPCap /\ UNCHANGED pvars
    /\ SignalOrExit(p)
    /\ UNCHANGED nvars

\* Faulty variant of ForwardBlock: go Mnr.HndlBlk(b) before Chain.Add(b).
ForwardBlockHndlFirst(b) ==
    /\ ~panicked
    /\ events < MaxEvents
    /\ events' = events + 1
    /\ IF BlockHash(b) \in BlockMap
       THEN UNCHANGED <<BlockMap, procs>>
       ELSE /\ BlockMap' = BlockMap \cup {BlockHash(b)}
            /\ IF ChkBlk(chain, b)
               THEN LET added == BagAdd(procs, Proc("fblk", "add", b, NoTx, FALSE))
                    IN  procs' = IF IsEndMainChain(chain, b) THEN BagAdd(added, HndlBlkProc(b)) ELSE added
               ELSE UNCHANGED procs
    /\ UNCHANGED <<pvars, chain, PrvHsh, ChnLen, MiningPool, Active, loop, TxMap, writing, panicked>>

\* Node.ForwardBlock, up to Chain.Add: ignore a block already in BlockMap,
\* mark it seen, drop it unless ChkBlk holds, and read mnChn =
\* IsEndMainChain(b) (outside the tree's lock).  ChkChainsUTXO reads
\* bc.blocks without bc.Lock: a read during an Add's map assignment is a
\* data race the Go runtime may catch ("concurrent map read and map
\* write"), a fatal error that ends the process.
MapReadRaces(b) == writing # "none" /\ ChkBlkSyn(b)
ForwardBlock(b) ==
    /\ ~panicked
    /\ events < MaxEvents
    /\ events' = events + 1
    /\ IF BlockHash(b) \in BlockMap
       THEN UNCHANGED <<BlockMap, procs, panicked>>
       ELSE /\ BlockMap' = BlockMap \cup {BlockHash(b)}
            /\ \/ /\ IF ChkBlk(chain, b)
                     THEN procs' = BagAdd(procs, Proc("fblk", "add", b, NoTx, IsEndMainChain(chain, b)))
                     ELSE UNCHANGED procs
                  /\ UNCHANGED panicked
               \/ /\ MapReadRaces(b)
                  /\ panicked' = TRUE
                  /\ UNCHANGED procs
    /\ UNCHANGED <<pvars, chain, PrvHsh, ChnLen, MiningPool, Active, loop, TxMap, writing>>

\* The rest of ForwardBlock: Chain.Add(b) (waiting for bc.Lock), up to
\* its map assignment.
ForwardBlockAdd(p) ==
    /\ ~panicked
    /\ p.k = "fblk" /\ p.pc = "add" /\ writing = "none"
    /\ IF AddPanics(chain, p.b)
       THEN panicked' = TRUE /\ UNCHANGED <<chain, procs, writing>>
       ELSE /\ chain' = AddBlock(chain, p.b) /\ writing' = "fblk"
            /\ Go(p, [p EXCEPT !.pc = "stored"])
            /\ UNCHANGED panicked
    /\ UNCHANGED <<pvars, PrvHsh, ChnLen, MiningPool, Active, loop, BlockMap, TxMap, events>>

\* The assignment completes and Add unlocks; go Mnr.HndlBlk(b) if mnChn.
ForwardBlockStored(p) ==
    /\ ~panicked
    /\ p.k = "fblk" /\ p.pc = "stored"
    /\ writing' = "none"
    /\ IF p.f THEN Go(p, HndlBlkProc(p.b)) ELSE Exit(p)
    /\ UNCHANGED <<pvars, chain, PrvHsh, ChnLen, MiningPool, Active, loop, BlockMap, TxMap, panicked, events>>

\* Node.ForwardTransaction, up to the miner: ignore a transaction in TxMap
\* (read without a lock), drop it unless ChkTx holds.
ForwardTransaction(t) ==
    /\ ~panicked
    /\ events < MaxEvents
    /\ events' = events + 1
    /\ IF TxHash(t) \notin TxMap /\ ChkTx(chain, t)
       THEN procs' = BagAdd(procs, Proc("ftx", "rec", NoBlk, t, FALSE))
       ELSE UNCHANGED procs
    /\ UNCHANGED <<pvars, chain, PrvHsh, ChnLen, MiningPool, Active, loop, BlockMap, TxMap, writing, panicked>>

\* The rest of ForwardTransaction: go Mnr.HndlTx(t), then TxMap[t] = true.
ForwardTransactionRec(p) ==
    /\ ~panicked
    /\ p.k = "ftx"
    /\ Go(p, Proc("htx", "add", NoBlk, p.t, FALSE))
    /\ TxMap' = TxMap \cup {TxHash(p.t)}
    /\ UNCHANGED <<pvars, chain, PrvHsh, ChnLen, MiningPool, Active, loop, BlockMap, writing, panicked, events>>

\* The process is dead, or every goroutine has finished and the two loops
\* wait on their channels.
Quiescent == panicked \/ (procs = EmptyBag /\ loop = NoBlk)
Terminating == Quiescent /\ UNCHANGED vars

\* Some goroutine takes the step.
SomeMineStart == \E p \in DOMAIN procs : MineStart(p)
SomeMineBuild == \E p \in DOMAIN procs : MineBuild(p)
SomeMineNew == \E p \in DOMAIN procs : MineNew(p)
SomeMineFound == \E p \in DOMAIN procs : MineFound(p)
SomeMineGiveUp == \E p \in DOMAIN procs : MineGiveUp(p)
SomeMineSend == \E p \in DOMAIN procs : MineSend(p)
SomeHndlBlkSetHash == \E p \in DOMAIN procs : HndlBlkSetHash(p)
SomeHndlBlkIncChnLen == \E p \in DOMAIN procs : HndlBlkIncChnLen(p)
SomeHndlChkBlk == \E p \in DOMAIN procs : HndlChkBlk(p)
SomeHndlTx == \E p \in DOMAIN procs : HndlTx(p)
SomeForwardBlockAdd == \E p \in DOMAIN procs : ForwardBlockAdd(p)
SomeForwardBlockStored == \E p \in DOMAIN procs : ForwardBlockStored(p)
SomeForwardTransactionRec == \E p \in DOMAIN procs : ForwardTransactionRec(p)

Next ==
    \/ StartMiner
    \/ MineRecv
    \/ HndlMnrBlk
    \/ HndlMnrBlkStored
    \/ \E b \in PeerBlocks(chain) : ForwardBlock(b)
    \/ \E t \in Txs : ForwardTransaction(t)
    \/ SomeMineStart
    \/ SomeMineBuild
    \/ SomeMineNew
    \/ SomeMineFound
    \/ SomeMineGiveUp
    \/ SomeMineSend
    \/ SomeHndlBlkSetHash
    \/ SomeHndlBlkIncChnLen
    \/ SomeHndlChkBlk
    \/ SomeHndlTx
    \/ SomeForwardBlockAdd
    \/ SomeForwardBlockStored
    \/ SomeForwardTransactionRec
    \/ Terminating

Spec == Init /\ [][Next]_vars

\* The steps the code always takes once they can: the Mine loop and the
\* node loop receive whenever a sender waits, and
\* every goroutine runs on (Go's scheduler is fair to runnable
\* goroutines).  Peers' calls and the user's StartMiner get no fairness.
MinerStep ==
    \/ MineRecv \/ HndlMnrBlk \/ HndlMnrBlkStored
    \/ SomeMineStart \/ SomeMineBuild \/ SomeMineNew \/ SomeMineFound \/ SomeMineGiveUp
    \/ SomeMineSend
    \/ SomeHndlBlkSetHash \/ SomeHndlBlkIncChnLen \/ SomeHndlChkBlk \/ SomeHndlTx
    \/ SomeForwardBlockAdd \/ SomeForwardBlockStored \/ SomeForwardTransactionRec
FairSpec == Spec /\ WF_vars(MinerStep)

=============================================================================
