# TLA+ models of BrunoCoin

This directory holds TLA+ models of the BrunoCoin node under `src/pkg`. BrunoCoin is a UTXO blockchain node with these parts:
- a block tree with per-block UTXO snapshots;
- a transaction pool and a miner;
- a wallet with a replay queue;
- a gRPC node that gossips blocks and transactions and bootstraps from peers.

The TLC model checker checks the models. Every definition is translated from the Go source. `PROJECT.json` maps each definition to the lines it models and lists every run, mutant, finding and hazard.

## 1. The system

| Part | Source | State | Operations that change it |
|---|---|---|---|
| Block tree / UTXO engine | `blockchain/blockchain.go` | `blocks` (hash → node with depth, parent and a full UTXO map), `LastBlock`, and the `Liminal` flag on every shared `*TransactionOutput` | `New`, `Add`, `GetUTXOForAmt` (sets and clears `Liminal`) |
| Data types | `block/block.go`, `block/tx/*.go` | values; the hashes cover every field (header timestamp 0, nonce from 0) | `CalcNonce` writes the nonce |
| Validation | `validation.go` | none | `ChkBlk`, `ChkTx` (pure) |
| Transaction pool | `miner/tx_pool.go`, `block/tx/tx_heap.go` | heap array of (priority, tx), `CurPri`, `Ct`, `Cap` | `Add`, `ChkTxs` (uses `Heap.Rmv`) |
| Miner | `miner/miner.go`, `mine.go`, `mining_pool.go` | `PrvHsh`, `ChnLen`, `Active`, `Mining`, `MiningPool`, channels `PoolUpdated` and `SendBlk` (unbuffered) | `Mine` loop, mining goroutines with cancellation, `HndlBlk`, `HndlChkBlk`, `HndlTx`, `Pause`, `Resume`, `Kill`, `GenCBTx` |
| Wallet | `wallet/wallet.go`, `liminal_txs.go` | liminal heap of (age, tx) | `HndlTxReq`, `HndlBlk` (replay with `LockTime+1`), `LiminalTxs.ChkTxs` and `Add` |
| Node | `node.go`, `server.go` | `TxMap`, `BlockMap` (seen-sets) | event loop (`SendTx` / `SendBlk`), `HndlMnrBlk`, `HndlWtTx`, `ForwardBlock`, `ForwardTransaction`, `Bootstrap`, `GetBlocks`, `GetData` |
| Peering | `peer/ephemeraldb.go`, `address/addressdb/ephemeraldb.go`, `server.go` | bounded peer and address maps | `Version`, `SendAddresses`, `Add`, `UpdateLastSeen`, `GetRandom` |

### How the parts interact

- A remote block arrives by `ForwardBlock`. The node checks it against `BlockMap`, then `ChkBlk`, then computes `mnChn = IsEndMainChain`, then calls `Chain.Add`. If `mnChn` held, it starts `go Mnr.HndlBlk`. It also starts `go Wallet.HndlBlk` on the block that is `SafeBlkAmt` deep, and forwards the block to every peer.
- The miner's `Mine` loop waits on `PoolUpdated`. Each signal cancels the running search and, if the miner is `Active`, starts a new goroutine. That goroutine:
  1. checks `PriMet`;
  2. builds the mining pool and the coinbase;
  3. searches for a nonce;
  4. sends the block on `SendBlk`, which blocks until the node loop takes it;
  5. calls `HndlBlk` on its own block.
- The node loop hands `SendBlk` blocks to `HndlMnrBlk`. That handler adds the block without `ChkBlk` and gossips it.
- The wallet's `HndlTxReq` selects outputs (`GetUTXOForAmt` marks them `Liminal`), signs them, enrolls the transaction in the liminal queue and sends it on `SendTx`.
- The node loop hands `SendTx` transactions to `HndlWtTx`, which starts `go Mnr.HndlTx` and gossips them without `ChkTx`.
- Every safe block ages the liminal queue. A transaction of age at least `TxRplyThresh` is replayed with `LockTime+1`.

### Hard behaviours in this code

- Concurrency:
  - gRPC handlers run concurrently with each other and with the node loop.
  - Miner handlers run as their own goroutines and race on `PrvHsh` and `ChnLen`.
  - A cancelled mining goroutine that has already found a nonce still delivers its block.
- Go map iteration order is random. `GetUTXOForAmt` therefore selects outputs in any order.
- Gossip is best effort: messages can be lost, duplicated and reordered, with no retry. A block can arrive before its parent.
- Nothing is persisted. A panic kills the process, and a restart rebuilds the tree from the genesis block.

## 2. Modules

| Module | Models | State and actions |
|---|---|---|
| `Tx` | `tx.go`, `txo.go`, `block.go`, `proto/constructors.go` | Data operators: outputs, signatures, hashes as the records themselves, sums, `MkTXOLoc` and `SzOfTx`. |
| `BlockTree` | `blockchain.go` | The tree is a record value `[blocks, last, liminal]`, so later modules can hold one per node. <ul><li>`chain.blocks[h]` is `BlockchainNode` (depth and UTXO map); `PrevNode` is `h.prev`.</li><li>`chain.last` is `LastBlock`.</li><li>`chain.liminal` is the set of UTXO locations whose output has `Liminal` set.</li></ul>Operators: `NewChain` (`New`), `AddBlock` and `AddPanics` (`Add`), `Slice`, `List`, `IndexOf`, `Length`, `ChkChainsUTXO`, `GetBalance`, and `GetUTXOForAmt` over every order of Go's map iteration. |
| `Blockchain` | the tree alone | **Actions:**<ul><li>`Add` is `Blockchain.Add` for a known parent.</li><li>`AddOrphan` is the same call when the parent is unknown (the nil `prevNode` panic), and the process goes down.</li><li>`SelectUTXO` is `GetUTXOForAmt`.</li><li>`Restart` is a new process running `blockchain.New`.</li></ul> |
| `MainChain` | abstract | What the tree promises: `main`, a sequence of blocks that only grows by a child of its last block (`CExtend`), `utxo`, the ledger of `main` computed from scratch (`Unspent`: an output is unspent when a block creates it and no later block consumes it), and `down` (`CCrash`, `CRestart` to the genesis block). `MCBlockchain` maps `main` to `List(chain)`, `utxo` to `LastBlock`'s snapshot and `down` to `crashed`, and checks `Blockchain` against it. |
| `Validation` | `validation.go` | `ChkBlk` and `ChkTx` as predicates over a tree. |
| `MCBlockchain` | model instance | The environment `Incoming` is every block that passes `ChkBlk`, as `ForwardBlock` would hand it to `Add`. Such a block has a coinbase paying a miner, and at most one spend of any output of any snapshot in the tree, built as a peer's wallet would (`HndlTxReq`). Its parent is any block of the tree, or a block this node has not received (`UnseenHash`). |
| `Merkle` | `block.go` | `CalcMrklRt` over an ideal hash (the hash of two hashes is the pair of them): `PadOdd` repeats the last hash of an odd level, `Level` pairs adjacent hashes, `MrklLoop` is the loop as a recursive operator, and `CalcMrklRt` first repeats the last transaction of an odd list of more than one. The code never leaves its loop on an empty list, so the operator is applied only to non-empty lists (block.New always has a coinbase). |
| `TxHeap` | `tx_heap.go` | The heap slice as a sequence of `[P, T]` nodes, with container/heap's `up`, `down` and `Init` as recursive operators, `Heap.Add`, `IncAll`, `GetIndex` (first match), `Rmv` (swap with the last node, shorten, re-heapify) and `RemAbv`. |
| `TxPool` | `tx_pool.go` | Variables `TxQ`, `CurPri`, `Ct`. Actions `PoolAdd` (`TxPool.Add`, nothing at `Cap`) and `ChkTxs` (`Heap.Rmv`, then both counters lowered by what was removed). `CalcPri` and `PriMet`. |
| `Mempool` | abstract | A bounded multiset of transactions with its size and total priority. `MCTxPool` maps the heap to the bag of its transactions and checks `TxPool` against it as a `PROPERTY`. |
| `Miner` | `mine.go`, `miner.go`, `mining_pool.go`, and `ForwardBlock`, `ForwardTransaction`, `HndlMnrBlk` | One mining node. Every goroutine is a record in the bag `procs` with a kind and a program point:<ul><li>`"mine"`: the mining goroutine, at `start` (`PriMet`), `build` (`m.MiningPool = NewMiningPool()` and `GenCBTx(m.MiningPool)`, which reads `ChnLen`; an empty pool panics), `new` (the second read of the shared `MiningPool` field and `block.New(m.PrvHsh, ...)`), `pow` (`CalcNonce`: found, or given up) and `send` (blocked on `SendBlk`);</li><li>`"hblk"`: `HndlBlk` at `set` (`SetHash`), `inc` (`IncChnLen`) and `chk` (`HndlChkBlk`);</li><li>`"htx"`: `HndlTx`;</li><li>`"sig"`: a goroutine blocked sending on `PoolUpdated`;</li><li>`"fblk"` and `"ftx"`: the second half of `ForwardBlock` (`add`: `Add` up to its map assignment; `stored`: the assignment done, then `go HndlBlk` if `mnChn`) and of `ForwardTransaction` (`go HndlTx`, then `TxMap`).</li></ul>`writing` says which `Add` (`"loop"` or `"fblk"`) is in the middle of `bc.blocks[newNode.Hash()] = newNode`. Another `Add` waits for it (`bc.Lock`). `ChkChainsUTXO`, which reads the map without the lock, may abort the process if it runs then (`MapReadRaces`).`MineRecv` is the `Mine` loop receiving a signal: it cancels every earlier worker and starts one if `Active`. `loop` is the block the node loop took from `SendBlk`; `HndlMnrBlk` adds it without `ChkBlk`, and `HndlMnrBlkStored` ends the map write and frees the loop. Peers' calls of `ForwardBlock` and `ForwardTransaction` are bounded by `MaxEvents`. |
| `MCMiner` | model instance | Peers forward `t1` (spends the genesis output) and `t2` (spends `t1`'s), and blocks with a peer coinbase and at most one of them, on any block of a tree of at most `MaxBlocks`. |
| `Wallet` | `wallet.go`, `liminal_txs.go`, and `Node.SendTx`, `HndlWtTx`, `ForwardBlock`'s `go Wallet.HndlBlk` | Variables `chain`, `LmnlTxs` (heap of `[P, T]` with `T` an object id), `obj` (the `*Transaction` objects: `HndlBlk` bumps `LockTime` on the shared object, so every holder sees the new hash), `made`, `nreq`, `wprocs` (bag of `HndlTxReq` and `HndlBlk` goroutines with a program point) and `TxMap` (what the node loop received). Actions: `Request` (`SendTx` and `HndlTxReq` up to the send: `GetUTXOForAmt(Amt+Fee)` with the uint32 sum, return on failure, `LmnlTxs.Add`), `Send` (the unbuffered `SendTx` rendezvous with the node loop), `HndlBlkChk` (`ChkTxs`: age, remove matches, `RemAbv`, bump the first), `HndlBlkAdd` (re-add, bump the next), `NetBlock` (`Chain.Add` and the `HndlBlk` goroutine for the block `SafeBlkAmt` deep). |
| `MCWallet` | model instance | Peers mine on `LastBlock` a coinbase and at most one transaction the node has sent that passes `ChkTx`; requests pay 1 with fee 0 or 1. |
| `Node` | `server.go` (`Version`, `SendAddresses`, `GetBlocks`, `GetData`), `node.go` (`ConnectToPeer`, `BroadcastAddr`, `Bootstrap`), `peer/ephemeraldb.go`, `address/addressdb/ephemeraldb.go` | Nodes start fresh (`node.New`) or already peered along `InitLinks`, each with a `LastSeen` from `Stamps`. `ConnectToPeer` may target the node's own address, as `node.go` allows. Network state: `addrDb[n]` (address → `LastSeen`), `peers[n]` (the PeerDb, whose entries point at the AddrDb's `*Address`), `sentVer[n]` (addresses with a pending `SentVer`), `msgs` (a bag of RPCs in flight), `lost`. The AddrDb's `Add` and `UpdateLastSeen` are the operators `AddrDbAddOk`, `AddrDbAdd` and `AddrDbUpdateLastSeen`. Actions: `ConnectToPeer`, `BroadcastAddr`, the handlers `Version` and `SendAddrs`, `Lose` (an RPC fails and is never retried) and `Expire` (`VerTimeout` passes). Bootstrap state at node `Boot`: `bpc` (one goroutine per peer), `bres`, the shared unlocked `longestRes` and `baddr`, `bstate`, `fetchQ`. Actions `BootStart`, `BootRpc`, `BootChk` (`longestRes == nil \|\| longer`), `BootSet`, `BootSetAddr` (the two writes as separate steps, because nothing orders them against the other goroutines), `BootWaited` (`wg.Wait`, the nil check, and the loop that ends at once on an empty hash list) and `BootFetch` (`GetDataRPC`, `Chain.Add`, `HndlChkBlk`; ends in `"panic"` on a lost RPC, an unknown hash at the peer, or a nil miner). |
| `MCNode` | model instance | Nodes A, B, C; A bootstraps. B's main chain has three blocks after the genesis, C has one on a fork, so the answers differ in length and content. |

### Abstractions, each justified by the code

- A hash is the record it hashes. `Transaction.Hash` covers version, lock time, inputs and outputs. `Block.Hash` covers only the header; the header's `MrklRt` is `CalcMrklRt` of the transactions when `block.New` builds the block, and timestamps are always 0 and the nonce search is deterministic from 0. For every block a miner builds from a pool that holds no transaction twice, equal hashes therefore mean equal contents (with an ideal hash this follows from the shape of `CalcMrklRt`, so no run checks it). This is what makes the coinbase collision (`UTXODisjointUnion`) real. `ChkBlk` never checks `MrklRt`, so a relay could put other transactions under an existing header; such blocks are outside the model (hazard at `block.go:192`).
- A signature is `[by, over]`. `MkSig` signs only the referenced output's hash, so the signature does not bind the spending transaction.
- Sizes and proof of work are not modelled. Model blocks are a few hundred bytes against `MxBlkSz = 10,000,000`, and every gossiped block carries a nonce that solves its own target, which is all `ChkBlk` checks.

## 3. Runs

| Run | Config | Expect | What it shows |
|---|---|---|---|
| `chain_tree` | `MCBlockchain.cfg` | pass | Checks four invariants and a refinement:<ul><li>`TypeOK`.</li><li>`NoDoubleSpendOnBranch`: no branch of the tree spends an output it has not created, or spends one twice. This holds because the per-node snapshots and `ChkChainsUTXO` use the parent's snapshot.</li><li>`SliceMatchesMainChain`: `Slice(s, e)` is exactly the main-chain blocks of depth `s..e-1` for every window from -2 to `MaxBlocks`.</li><li>`SelectionCoversAmount`: every selection `GetUTXOForAmt` can make, in every map order, takes distinct spendable outputs of the key, and no output is taken after the amount is covered.</li><li>`ImplementsMainChain` (a `PROPERTY`): the tree implements `MainChain`. `List(chain)` only grows by a child of its last block, `LastBlock`'s snapshot (built by copying, deleting and writing map entries) equals the from-scratch ledger of the main chain at every step, and an orphan's panic and the restart are the abstract crash and restart.</li></ul> |
| `chain_main_leaf` | `MCBlockchain_MainLeafDeepest.cfg` | violation | §8 of the spec says the main leaf has the maximum depth. `Add` moves `LastBlock` only onto its own child, so a longer fork is never adopted. |
| `chain_orphan_crash` | `MCBlockchain_OrphanDropped.cfg` | violation | §4.2 says orphans are dropped silently. Instead, `ChkChainsUTXO` falls back to `LastBlock`, the orphan passes `ChkBlk`, and `Add` dereferences the nil parent. |
| `pool_refines_mempool` | `MCTxPool.cfg` | pass | `TxPool.Add` and `ChkTxs` over the real heap keep heap order (`HeapOrdered`) and implement `Mempool` (`ImplementsMempool`): the bag of the heap's transactions, `Ct` and `CurPri` move exactly as a bounded multiset with its size and total priority. |
| `miner_node` | `MCMiner.cfg` | pass | `OwnBlockHasParent`: every block the node loop hands to `Add` from `SendBlk` has its parent in the tree, in every interleaving of workers, `HndlBlk`, `HndlTx` and the gRPC handlers. `MinerSettles` (`<>[]Quiescent`, under `FairSpec`): every goroutine finishes and nothing stays blocked on `PoolUpdated` or `SendBlk`, whatever peers do. Deadlock is checked as well. |
| `miner_loses_main` | `MCMiner_MinerExtendsMain.cfg` | violation | `MinerExtendsMain`: the node never panics (`NoPanic`), and once every goroutine has finished the miner mines on the main leaf (`PrvHshTracksMainLeaf`). TLC's trace is 4 states. A second `ForwardBlock`'s `ChkChainsUTXO` reads `bc.blocks` while the first block's `Add` writes it (`blockchain.go:278`, no lock), and Go aborts on the concurrent map read and write. `PrvHshTracksMainLeaf` alone fails in 13 states: peers forward two children of the genesis block, both `ForwardBlock` calls read `mnChn` before either `Add` (`server.go:198`), and the second block's `HndlBlk` points `PrvHsh` at the block that became a fork, with `ChnLen` incremented twice. With the map race left out, `NoPanic` fails in 14 states: a worker passes `PriMet`, a concurrent `HndlChkBlk` empties the pool, `GenCBTx` returns nil and `block.New` dereferences it. |
| `miner_invalid_ledger` | `MCMiner_MainChainValid.cfg` | violation | `MainChainValid`: the inputs of every main-chain block name distinct outputs of its parent's snapshot (`InputsValid`), no transaction but the coinbase pays out more than those outputs hold (`SpendsCovered`), the coinbase pays at most the minting reward for the block's height plus the real fees of the block's transactions (`CoinbaseCovered`), and each snapshot holds its parent's less what the block spends plus what it creates (`SnapshotAccounts`). TLC's trace is 6 states: peers forward two blocks on one branch whose coinbases both pay 1 to `Prr`; they share a hash, and the second overwrites the first's unspent output (`blockchain.go:106`). Each conjunct alone shows more. Peers forward three spends of the genesis output to a pool of two: `t1`, `t1b`, and `tinfl`, whose input claims 6 for an output of 3 and pays 4. `ChkTx` sums the claimed amounts (`validation.go:83`, against spec section 3), so `tinfl` is forwarded, mined and added in 12 states (`SpendsCovered`). With `InputsValid` and without `tinfl`, `t1` and `t1b` both pass `ChkTx` and enter the pool, and the miner mines them in one block that `HndlMnrBlk` adds without `ChkBlk` (15 states). The re-mining trace is also reachable: `t1b` is checked before a peer block holding `t1` is added, and it is mined on that block. The coinbase part alone (`MainCoinbasesCovered`) fails under `MCMiner.cfg`'s instance: a worker started between `HndlBlk`'s `SetHash` and `IncChnLen` pays the previous height's reward (spec section 4.4), and the shared `MiningPool` field, written by one worker and re-read after another's write, gives a coinbase for fees its block does not hold (the findings give the traces). |
| `wallet_replay` | `MCWallet.cfg` | pass | With concurrent `HndlTxReq` and `HndlBlk` goroutines on shared transaction objects: `QueuedWasSent` (every transaction the wallet waits for, in its current `LockTime` form, has reached the node loop or is held by a goroutine blocked on the send). With `TxRplyThresh` 1 every entry is replayed together, so `ObjectQueuedOnce` is not checked here; see `wallet_replays_confirmed`. |
| `wallet_invalid_request` | `MCWallet_RequestsValid.cfg` | violation | `RequestsValid`: every transaction `HndlTxReq` makes is balanced (`RequestBalanced`) and spends no output another one spends (`RequestsSpendDisjoint`). With amounts of `AmtBits = 4` bits, a request for 15 with a fee of 1 asks `GetUTXOForAmt` for `Amt+Fee`, which wraps to 0, and the wallet sends a transaction with no inputs (one step). With that request left out (`Reqs <- MCReqs`), a failed request clears every `Liminal` flag, including those of a pending transaction, and a third request spends the same output again. |
| `wallet_replays_confirmed` | `MCWallet_ConfirmedLeavesQueue.cfg` | violation | `ReplayQueueSound`: the queue holds no transaction confirmed in a safe block (`ConfirmedLeavesQueue`), and no object twice (`ObjectQueuedOnce`). With the default `SafeBlkAmt` 5 and `TxRplyThresh` 3, a transaction mined at once is replayed before its block is safe, and the replay stays queued after the original is confirmed. `ObjectQueuedOnce` alone fails in 12 states with one request kind, `TxRplyThresh` 3, `SafeBlkAmt` 1, `MaxReqs` 5 and `MaxLen` 4. Two failed requests clear the flags, so three requests make value-equal transactions o1, o2 and o3. At the third check the heap is `[o1 P3, o2 P3, o3 P2]`. `RemAbv`'s `Rmv` removes o1 by swapping it with o3, then removes o3 instead of o2 (first match by hash, `tx_heap.go:165`). The loop re-adds o2, which is still queued. |
| `node_peering` | `MCNode.cfg` | pass | Over any delivery order, lost RPCs and `SentVer` timeouts, with `Bootstrap` running: `HandshakeMutual` (once no `Version` is in flight and none was lost, peering is symmetric), `TypeOK` (a fetching `Bootstrap` has a response and an address), and `NetworkQuiesces` (`<>[]Quiet`, under `FairSpec`): the gossip always dies down and `Bootstrap` returns, so no pair of nodes exchanges `Version`s for ever after `VerTimeout` and no `SendAddresses` circulates for ever, even with wrapped `LastSeen` stamps. |
| `node_boot_race` | `MCNode_FetchFromResponder.cfg` | violation | A starts peered with B and with C (`MCBootLinks`), with `MaxEvents` 1. Bootstrap's goroutines both see `longestRes == nil`; their four unlocked writes interleave so that `addr` is C while `longestRes` is B's answer, and A asks C for B's blocks (C's `Chain.Get` then panics on the unknown hash). |

Some properties are stated but checked by no run, because a run is kept for each distinct question and the number of runs is kept small. Each is named in a hazard of `PROJECT.json` with the configuration that shows it: `UTXODisjointUnion` (two identical coinbases overwrite an unspent output; `MainChainValid` checks the same through `SnapshotAccounts`), `MainCoinbasesCovered` (`MCMiner.tla`, the coinbase part of `MainChainValid` alone), and `ChkTxsClearsMatches` (`MCTxPool.tla`).

### Bounds

- Two keys: the genesis owner `g` and a miner `m`.
- Rewards 1 and 2, and a genesis subsidy of 2.
- At most `MaxBlocks = 4` blocks in the tree, the genesis block included.
- Wallet requests for 1, 2 or 3.

Four blocks are the fewest that allow these cases:
- two children of the genesis block with a grandchild on the fork (the main-leaf trace);
- two identical coinbases on one branch;
- a spend on a fork of an output that the main chain already spent (the `ChkChainsUTXO` mutant).

The amounts give selections of one and two outputs, exact covers with no change, and selections that fail and clear the flags. The run reaches 50,044 distinct states in about 20 s, the refinement included.

`MCTxPool` has four transactions of priorities 1, 1, 2 and 4 (one input and one output each, fees 0 to 3), a capacity of 4 and removal lists of a coinbase plus up to two of them. That is enough for a full pool, duplicates, removal from the middle of the heap and re-heapifying (130 distinct states).

`MCMiner` uses `PriLim = 1` (one transaction wakes the miner), `TxPCap = 1` (a second copy of a transaction hits the cap; `miner_invalid_ledger` uses 2 and the conflicting spends `t1`, `t1b`, `tinfl`, so that one block can hold two of them), `BlkSz = 250` (room for the coinbase's 100 bytes and two 68-byte transactions), and a minting reward of 4 halved every block (`SubsdyHlvRt = 1`, `MxHlvgs = 2`), so a stale `ChnLen` changes the reward. Peers make at most `MaxEvents = 2` calls and extend a tree of at most `MaxBlocks = 3`. Two calls are the fewest for each trace above (a block and a transaction, or two sibling blocks). The miner's own blocks are bounded by the pool: each one removes the transactions it mined. The run reaches 750,843 distinct states in about 3.5 minutes, most of it the liveness check (50 seconds without it).

`MCWallet` has a genesis subsidy of 3 to the wallet, `MaxReqs = 2` requests (3 for the double-spend run: fail, clear, respend), `TxRplyThresh = 1` and `SafeBlkAmt = 2` so that replays happen within a chain of `MaxLen = 5`. The confirmed-replay run uses the code's defaults, 3 and 5, with a chain of 12. Amounts are 4-bit (`AmtBits`), the uint32 scaled down so that the wrap is reachable.

`MCNode` has three nodes (the fewest for `GetRandom` to choose, for a forwarded `SendAddresses` to come back to its origin, and for `Boot` to have two peers that race), `Stamps = {1, 2}` (a later and an earlier `LastSeen`), and `MaxEvents = 2` user calls of `ConnectToPeer`, `BroadcastAddr` or `Bootstrap`. The nodes start either fresh or with B and C already peered (`MCInitLinks`). From the linked start, one `ConnectToPeer` from A is enough for C to forward A's address to B, which forwards it on. So the circulation that `NetworkQuiesces` is about takes several hops within two calls. The code's limits (200 peers, 1000 addresses) are kept and never reached by three nodes, so the full-AddrDb branch of `Version` is in the model but unreached. The run reaches 637,947 distinct states in about a minute with the liveness check.

### Mutants

Every property of a passing run is shown to catch a plausible bug in the code it is about:

| Mutant | Property that catches it |
|---|---|
| `AddBlock` gives depth +2 | `TypeOK` |
| `ChkChainsUTXO` uses `LastBlock`'s snapshot for every block | `NoDoubleSpendOnBranch` |
| `Slice` walks with `depth > s` | `SliceMatchesMainChain` |
| `UTXOLoop` compares with `>` | `SelectionCoversAmount` |
| `Add` moves `LastBlock` to every new block | `ImplementsMainChain` |
| `TxPool.Add` without its capacity check | `TypeOK` (pool) |
| `Heap.Rmv` without the final `heap.Init` | `HeapOrdered` |
| `ChkTxs` does not lower `CurPri` | `ImplementsMempool` |
| `HndlTx` adds without the capacity check | `TypeOK` (miner) |
| `ForwardBlock` starts `HndlBlk` before `Chain.Add` | `OwnBlockHasParent` |
| A failed nonce search starts over instead of returning | `MinerSettles` |
| `Request` without the return on a failed selection | `TypeOK` (wallet) |
| `HndlBlk` bumps `LockTime` after the send | `QueuedWasSent` |
| `Bootstrap`'s goroutine leaves out `addr = p.Addr` | `TypeOK` (node) |
| `Version` sets `SentVer` before reading `pendingVer` | `HandshakeMutual` |
| `PeerDb.Add` returns true for an existing peer, as its comment says (two nodes then answer each other's `Version` for ever) | `NetworkQuiesces` |

## 4. Fairness

Every `Spec` is a safety specification (`Init /\ [][Next]_vars`). The two liveness properties are checked under a `FairSpec` that adds weak fairness on the steps the code always takes once they are enabled, and on nothing else:

- `Miner.FairSpec`: `WF_vars(MinerStep)`, where `MinerStep` is the `Mine` loop receiving on `PoolUpdated`, the node loop handling a block from `SendBlk`, and the next step of any goroutine (mining workers, `HndlBlk`, `HndlTx`, the second halves of `ForwardBlock` and `ForwardTransaction`). Go's scheduler runs a runnable goroutine eventually, and both loops do nothing but wait on their channels. Which way `CalcNonce` ends (found or given up) is not forced: `MineFound` and `MineGiveUp` are both steps of a worker at `pow`.
- `Node.FairSpec`: `WF_vars(SystemStep)`, where `SystemStep` is an RPC in flight completing (its handler runs, or the call fails and the caller logs it; gRPC calls end within the 2-second deadline of spec section 5), `VerTimeout` passing for a pending `SentVer`, and `Bootstrap`'s goroutines and its fetch loop moving on.

The users' calls (`ConnectToPeer`, `BroadcastAddr`, `StartMiner`) and the peers' calls (`ForwardBlock`, `ForwardTransaction`) get no fairness: nothing in the code makes them happen. A failed RPC is never retried, so no fairness says that a message is delivered rather than lost. One weak-fairness condition on the disjunction of the steps is weaker than one per step, so a property that holds under it holds under the scheduler's real guarantees.

Each module's `Terminating` step lets a state stutter once nothing is left to do: the process has panicked, or every goroutine has finished and the loops wait on empty channels (in `Node`: no RPC in flight and `Bootstrap` idle, finished or panicked). These are the states in which the real node waits for its next message. Any other state without a successor is reported as a deadlock.

## 5. Plan

The most important behaviour comes first.

1. **Done: `Blockchain` and `Validation`.** The tree, snapshots, selection and validation.
2. **Done: `TxPool`** with its refinement of `Mempool`.
3. **Done: `Miner`**, with the liveness property `MinerSettles` and the `MiningPool` field race (`mine.go:34`) as two worker steps.
4. **Done: `Wallet`.** Left: the miner's pool holding the same shared objects (a wallet and a miner on one node).
5. **Done (peering and bootstrap): `Node`.** Left: composing one node's tree, pool, miner and wallet with its event loop and the gossip fan-out of `ForwardBlock` and `ForwardTransaction`, with checks that every main-chain block passes `ChkBlk` against its parent (`HndlMnrBlk` skips it) and convergence of main chains. Value conservation per transaction is `MainChainValid`.
6. **Done: `MainChain`**, the abstract main chain and ledger that the tree refines. Left: a longest-chain selection specification, which the tree does not implement (`chain_main_leaf`).
7. **Done: `Merkle`**, `CalcMrklRt` as a recursive operator. Left: a property about it. A relayed block with other transactions under an existing header is the case that matters, and the models take a block's hash to be the block.
8. Liveness: that a pending wallet transaction is eventually mined or replayed, under the fairness of section 4.

## 6. Not modelled

- ECDSA and SHA-256: abstracted as described in section 2.
- Serialization and proto constructors: these are identity round trips with no control of their own.
- The gRPC transport: an RPC is a message in a bag, delivered in any order or lost. A handler runs as one atomic step, so the runtime abort on unlocked concurrent map writes (AddrDb, PeerDb, TxMap) is not reached. Only `bc.blocks` gets a write window (`Miner`'s `writing`). A second window for `TxMap` would roughly double the `miner_node` run, which already takes about 3.5 minutes.
- `GetAddresses`, `StartServer` and the persistent peer and address databases, which the node never constructs.
- `Miner.Pause`, `Resume`, `Kill` and `SetChnLen`, which nothing in the repository calls (not even the tests). `Kill` closes `SendBlk`; the node loop would then receive nil and `HndlMnrBlk(nil)` would panic.
- Blocks whose `MrklRt` does not match their transactions, which only a dishonest relay makes (see the abstractions in section 2).
- Logging, colour formatting and the CLI.
