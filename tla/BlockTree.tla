------------------------------ MODULE BlockTree -------------------------------
(***************************************************************************)
(* The block tree and UTXO engine of one node (pkg/blockchain), as         *)
(* operators over a tree value, so that a node, a network of nodes or a    *)
(* specification of the tree alone can hold one:                           *)
(*   c.blocks   the map Blockchain.blocks, from a block's hash to its      *)
(*              BlockchainNode [depth, utxo]; PrevNode is the node stored  *)
(*              under the block's PrvBlkHsh;                               *)
(*   c.last     the hash of Blockchain.LastBlock;                          *)
(*   c.liminal  the UTXO locations whose *TransactionOutput has its        *)
(*              Liminal flag set.                                          *)
(***************************************************************************)
EXTENDS Tx

CONSTANTS
    PKs,          \* locking scripts (hex public keys) of the participants
    GenPK,        \* Config.GenPK, the owner of the genesis output
    InitSbsdy,    \* Config.InitSbsdy, the amount of the genesis output
    NoHash        \* the empty PrevBlockHash of the genesis header

ASSUME GenPK \in PKs /\ InitSbsdy \in Nat

GenTx == [ins |-> <<>>, outs |-> <<Output(InitSbsdy, GenPK)>>, lock |-> 0]
GenesisBlock == [prev |-> NoHash, txs |-> <<GenTx>>]
GenesisHash == BlockHash(GenesisBlock)

-----------------------------------------------------------------------------
(* The tree.                                                               *)

\* Blockchain.New: the genesis node alone, its single output unspent.
NewChain ==
    [blocks  |-> GenesisHash :> [depth |-> 0,
                                 utxo  |-> MkTXOLoc(TxHash(GenTx), 0) :> GenTx.outs[1]],
     last    |-> GenesisHash,
     liminal |-> {}]

Depth(c, h) == c.blocks[h].depth
MainUTXO(c) == c.blocks[c.last].utxo

\* The locations a block's inputs consume and its outputs create.
Consumed(b) ==
    UNION { { MkTXOLoc(t.ins[i].h, t.ins[i].i) : i \in DOMAIN t.ins } : t \in ToSet(b.txs) }
Produced(b) ==
    UNION { { MkTXOLoc(TxHash(t), y) : y \in 0 .. Len(t.outs) - 1 } : t \in ToSet(b.txs) }

\* The snapshot Add builds: a copy of the parent's map, every consumed
\* location deleted, then every produced location (re)written.
NewUTXO(u, b) ==
    [loc \in (DOMAIN u \ Consumed(b)) \cup Produced(b) |->
        IF loc \in Produced(b) THEN OutAt(loc) ELSE u[loc]]

\* Blockchain.IsEndMainChain
IsEndMainChain(c, b) == c.last = b.prev

\* Faulty variant of AddBlock: the new node's depth skips a level.
AddBlockDepthSkip(c, b) ==
    LET prevNode == c.blocks[b.prev]
        newNode  == [depth |-> prevNode.depth + 2, utxo |-> NewUTXO(prevNode.utxo, b)]
        main     == IsEndMainChain(c, b)
    IN  [blocks  |-> (BlockHash(b) :> newNode) @@ c.blocks,
         last    |-> IF main THEN BlockHash(b) ELSE c.last,
         liminal |-> IF main THEN c.liminal \ Produced(b) ELSE c.liminal]

\* Faulty variant of AddBlock: LastBlock moves to every new block.
AddBlockAlwaysLast(c, b) ==
    LET prevNode == c.blocks[b.prev]
        newNode  == [depth |-> prevNode.depth + 1, utxo |-> NewUTXO(prevNode.utxo, b)]
    IN  [blocks  |-> (BlockHash(b) :> newNode) @@ c.blocks,
         last    |-> BlockHash(b),
         liminal |-> c.liminal \ Produced(b)]

\* Blockchain.Add, for a block whose parent is in the map.  The new node is
\* stored under the block's hash, and LastBlock moves to it only when its
\* parent is LastBlock.  A produced output is a new *TransactionOutput, so a
\* location it rewrites in the main snapshot loses its Liminal flag.
AddBlock(c, b) ==
    LET prevNode == c.blocks[b.prev]
        newNode  == [depth |-> prevNode.depth + 1, utxo |-> NewUTXO(prevNode.utxo, b)]
        main     == IsEndMainChain(c, b)
    IN  [blocks  |-> (BlockHash(b) :> newNode) @@ c.blocks,
         last    |-> IF main THEN BlockHash(b) ELSE c.last,
         liminal |-> IF main THEN c.liminal \ Produced(b) ELSE c.liminal]

\* Add dereferences prevNode without a nil check: a block whose parent is
\* not in the map panics the process.
AddPanics(c, b) == b.prev \notin DOMAIN c.blocks

\* Blockchain.Get: bc.blocks[hash].Block dereferences the nil node of an
\* unknown hash, so the caller's goroutine panics.
GetPanics(c, h) == h \notin DOMAIN c.blocks

\* Blockchain.Length and Blockchain.IndexOf
Length(c) == Depth(c, c.last) + 1
IndexOf(c, h) == IF h \in DOMAIN c.blocks THEN Depth(c, h) ELSE -1

\* Blockchain.List: depth+1 steps along PrevNode from LastBlock, each
\* block put in front of those already taken.
RECURSIVE ListFrom(_, _, _)
ListFrom(c, h, ct) == IF ct = 0 THEN << >> ELSE ListFrom(c, h.prev, ct - 1) \o <<h>>
List(c) == ListFrom(c, c.last, Depth(c, c.last) + 1)

\* Blockchain.Slice: walk PrevNode from LastBlock while depth >= s, keeping
\* the hashes of depth < e, oldest first; stop at the genesis node.
RECURSIVE SliceFrom(_, _, _, _, _)
SliceFrom(c, h, s, e, acc) ==
    IF Depth(c, h) >= s
    THEN LET kept == IF Depth(c, h) < e THEN <<h>> \o acc ELSE acc
         IN  IF h.prev = NoHash THEN kept ELSE SliceFrom(c, h.prev, s, e, kept)
    ELSE acc
\* Faulty variant of Slice: the walk's bound written depth > s.
SliceOffByOne(c, s, e) == SliceFrom(c, c.last, s + 1, e, <<>>)
Slice(c, s, e) == SliceFrom(c, c.last, s, e, <<>>)

\* Faulty variant of ChkChainsUTXO: always LastBlock's snapshot.
ChkChainsUTXOMainOnly(c, txs, prevHash) ==
    \A j \in DOMAIN txs : \A i \in DOMAIN txs[j].ins :
        MkTXOLoc(txs[j].ins[i].h, txs[j].ins[i].i) \in DOMAIN MainUTXO(c)

\* Blockchain.ChkChainsUTXO: every input names an entry of the snapshot of
\* the block's parent, or of LastBlock when the parent is unknown.
ChkChainsUTXO(c, txs, prevHash) ==
    LET node == IF prevHash \in DOMAIN c.blocks THEN c.blocks[prevHash] ELSE c.blocks[c.last]
    IN  \A j \in DOMAIN txs : \A i \in DOMAIN txs[j].ins :
            MkTXOLoc(txs[j].ins[i].h, txs[j].ins[i].i) \in DOMAIN node.utxo

\* Blockchain.GetUTXO / IsInvalidInput: lookups in LastBlock's snapshot.
IsInvalidInput(c, in) == MkTXOLoc(in.h, in.i) \notin DOMAIN MainUTXO(c)

\* Blockchain.GetBalance
GetBalance(c, pk) ==
    LET u == MainUTXO(c) IN
    MapThenSumSet(LAMBDA loc : u[loc].amt, {loc \in DOMAIN u : u[loc].pk = pk})

-----------------------------------------------------------------------------------------------------------------------------------------------------
(* Blockchain.GetUTXOForAmt.  The loop visits LastBlock's map in Go's      *)
(* random order, skipping entries that are Liminal or locked by another    *)
(* key; it marks each entry it takes Liminal, subtracts its amount from    *)
(* amtN until one entry covers what is left, and then returns the entries  *)
(* taken and that entry's surplus as change.  When the map runs out it     *)
(* clears the flag of every entry of the map.  Each result is              *)
(* [sel, change, ok, liminal], liminal being the flags afterwards.         *)

Spendable(c, pk) ==
    { loc \in DOMAIN MainUTXO(c) : loc \notin c.liminal /\ MainUTXO(c)[loc].pk = pk }

\* Faulty variant of UTXOLoop: an entry must exceed what is left (>).
RECURSIVE UTXOLoopStrict(_, _, _, _)
UTXOLoopStrict(u, order, amtN, taken) ==
    IF order = <<>>
    THEN [sel |-> taken, change |-> 0, ok |-> FALSE]
    ELSE LET loc == Head(order) IN
         IF u[loc].amt > amtN
         THEN [sel |-> Append(taken, loc), change |-> u[loc].amt - amtN, ok |-> TRUE]
         ELSE UTXOLoopStrict(u, Tail(order), amtN - u[loc].amt, Append(taken, loc))

RECURSIVE UTXOLoop(_, _, _, _)
UTXOLoop(u, order, amtN, taken) ==
    IF order = <<>>
    THEN [sel |-> taken, change |-> 0, ok |-> FALSE]
    ELSE LET loc == Head(order) IN
         IF u[loc].amt >= amtN
         THEN [sel |-> Append(taken, loc), change |-> u[loc].amt - amtN, ok |-> TRUE]
         ELSE UTXOLoop(u, Tail(order), amtN - u[loc].amt, Append(taken, loc))

GetUTXOForAmt(c, amt, pk) ==
    IF amt = 0
    THEN {[sel |-> <<>>, change |-> 0, ok |-> TRUE, liminal |-> c.liminal]}
    ELSE { LET r == UTXOLoop(MainUTXO(c), order, amt, <<>>) IN
           [sel |-> r.sel, change |-> r.change, ok |-> r.ok,
            liminal |-> IF r.ok THEN c.liminal \cup ToSet(r.sel)
                                ELSE c.liminal \ DOMAIN MainUTXO(c)] :
           order \in SetToSeqs(Spendable(c, pk)) }

=============================================================================
