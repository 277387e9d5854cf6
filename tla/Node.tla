--------------------------------- MODULE Node ---------------------------------
(***************************************************************************)
(* The peering and bootstrap side of a network of nodes (pkg/server.go,    *)
(* pkg/node.go, pkg/peer, pkg/address/addressdb).                          *)
(*                                                                         *)
(* Peering: ConnectToPeer and BroadcastAddr send Version and SendAddresses *)
(* RPCs; the handlers update each node's AddrDb and PeerDb and send RPCs   *)
(* of their own.  An RPC is a message in a bag, delivered in any order or  *)
(* lost (a failed RPC is logged and never retried).  A PeerDb entry points *)
(* at the *Address object of the AddrDb (peer.New(n.AddrDb.Get(...))), so *)
(* a peer's LastSeen is its AddrDb entry's.  LastSeen stamps are           *)
(* uint32(time.Now().UnixNano()), which wraps every 4.3 s: a stamp is any  *)
(* value of Stamps.                                                        *)
(*                                                                         *)
(* Bootstrap: node Boot asks each of its peers for GetBlocks from its top  *)
(* block, in one goroutine per peer that writes the shared longestRes and  *)
(* addr without a lock, then fetches every hash of longestRes from addr    *)
(* with GetData and adds it.  The other nodes' trees do not change.        *)
(***************************************************************************)
EXTENDS BlockTree, Bags, BagsExt

CONSTANTS
    Nodes,          \* the nodes' addresses
    PeerLimit,      \* limit of peer.NewDb (200)
    AddrLimit,      \* limit of addressdb.New (1000)
    Stamps,         \* truncated time.Now() values
    MaxEvents,      \* bound on the ConnectToPeer, BroadcastAddr and Bootstrap calls
    InitLinks,      \* pairs of nodes whose handshake may be done at the start
    Boot,           \* the node that bootstraps
    HasMnr,         \* Boot's MnrConf.HasMnr
    PeerChain(_)    \* the tree of each node other than Boot

ASSUME Boot \in Nodes
ASSUME \A l \in InitLinks : l \subseteq Nodes /\ Cardinality(l) = 2

VARIABLES
    addrDb,     \* addrDb[n]: AddrDb of n, address -> LastSeen
    peers,      \* peers[n]: the addresses in n's PeerDb
    sentVer,    \* sentVer[n]: addresses whose Address.SentVer is set and
                \* not older than VerTimeout
    msgs,       \* bag of RPCs in flight
    events,     \* calls made by the node's user
    lost,       \* some RPC has failed
    chain,      \* Boot's Blockchain
    bpc,        \* bpc[p]: program counter of Boot's goroutine for peer p
    bres,       \* bres[p]: the hashes p returned
    longestRes, \* Bootstrap's longestRes
    baddr,      \* Bootstrap's addr
    bstate,     \* "idle", "wait" (wg.Wait), "fetch", "done" or "panic"
    fetchQ      \* hashes of longestRes still to fetch

netVars  == <<addrDb, peers, sentVer, msgs, events, lost>>
bootVars == <<chain, bpc, bres, longestRes, baddr, bstate, fetchQ>>
vars == <<netVars, bootVars>>

\* A GetBlocksResponse, or nil.
NilRes == [nil |-> TRUE, hs |-> << >>]
Res(hs) == [nil |-> FALSE, hs |-> hs]
NoNode == "none"

\* An RPC: kind "ver" (Version, with the sender's AddrMe) or "addrs"
\* (SendAddresses of one address a with LastSeen ls).
Msg(k, to, me, a, ls) == [k |-> k, to |-> to, me |-> me, a |-> a, ls |-> ls]
VerMsg(to, me) == Msg("ver", to, me, NoNode, 0)

Send(ms) == msgs' = msgs (+) SetToBag(ms)

-----------------------------------------------------------------------------
(* Node.GetBlocks and Blockchain.Get on a peer's tree.                     *)

\* GetBlocks: the main-chain hashes after the requester's top block, at
\* most 500, or none when the peer does not know that block.
GetBlocks(c, top) ==
    LET ind == IndexOf(c, top)
        upperIndex == IF ind + 500 < Length(c) THEN ind + 500 ELSE Length(c)
    IN  IF ind # -1 /\ ind < Length(c) THEN Slice(c, ind + 1, upperIndex) ELSE << >>

\* peer.EphemeralPeerDb.GetRandom(n, exclude): all peers when n covers
\* them, else any n of those not excluded.
GetRandom(ps, n, exclude) ==
    IF n >= Cardinality(ps) THEN {ps}
    ELSE { s \in SUBSET (ps \ exclude) : Cardinality(s) = n }

\* EphemeralAddressDb.Add succeeds for an unknown address below the limit;
\* UpdateLastSeen overwrites a known address's LastSeen.
AddrDbAddOk(db, a) == a \notin DOMAIN db /\ Cardinality(DOMAIN db) < AddrLimit
AddrDbAdd(db, a, ls) == (a :> ls) @@ db
AddrDbUpdateLastSeen(db, a, ls) == [db EXCEPT ![a] = ls]

\* Faulty variant of PeerDbAdd: true for a peer that already exists, as
\* the comment on EphemeralPeerDb.Add reads.
PeerDbAddExisting(ps, a) == a \in ps \/ Cardinality(ps) < PeerLimit

\* EphemeralPeerDb.Add(p) for p = peer.New(AddrDb.Get(a)): a new address
\* is added below the limit.  For a known one the code compares the new
\* peer's Addr.LastSeen with the old one's, but both point at the same
\* AddrDb object, so that branch never holds.
PeerDbAdd(ps, a) == a \notin ps /\ Cardinality(ps) < PeerLimit

-----------------------------------------------------------------------------
\* The nodes linked to n by the pairs E.
LinkedTo(E, n) == {a \in Nodes : {n, a} \in E}

\* Fresh nodes (node.New: empty AddrDb and PeerDb), or nodes that have
\* already completed ConnectToPeer handshakes along InitLinks: each side
\* has the other in its AddrDb, with some stamp, and in its PeerDb, and
\* SentVer has timed out.
Init ==
    /\ \E E \in {{}, InitLinks} :
          /\ peers = [n \in Nodes |-> LinkedTo(E, n)]
          /\ \E ls \in [Nodes \X Nodes -> Stamps] :
                addrDb = [n \in Nodes |-> [a \in LinkedTo(E, n) |-> ls[n, a]]]
    /\ sentVer = [n \in Nodes |-> {}]
    /\ msgs = EmptyBag
    /\ events = 0
    /\ lost = FALSE
    /\ chain = NewChain
    /\ bpc = [p \in Nodes |-> "idle"]
    /\ bres = [p \in Nodes |-> << >>]
    /\ longestRes = NilRes
    /\ baddr = NoNode
    /\ bstate = "idle"
    /\ fetchQ = << >>

\* ConnectToPeer(a): a Version request to a with AddrMe n.  Nothing
\* stops a node from connecting to its own address.
ConnectToPeer(n, a) ==
    /\ events < MaxEvents /\ events' = events + 1
    /\ Send({VerMsg(a, n)})
    /\ UNCHANGED <<addrDb, peers, sentVer, lost, bootVars>>

\* BroadcastAddr: SendAddresses of n's own address to each peer.
BroadcastAddr(n) ==
    /\ events < MaxEvents /\ events' = events + 1
    /\ \E ls \in Stamps : Send({ Msg("addrs", p, n, n, ls) : p \in peers[n] })
    /\ UNCHANGED <<addrDb, peers, sentVer, lost, bootVars>>

\* Faulty variant of Version: SentVer is set before pendingVer is read.
VersionSentVerFirst(m) ==
    LET t == m.to
        me == m.me
        known == me \in DOMAIN addrDb[t]
        added == PeerDbAdd(peers[t], me)
        pendingVer == me \in sentVer[t] \cup {me}
    IN
    /\ m.k = "ver"
    /\ IF ~known /\ ~AddrDbAddOk(addrDb[t], me)
       THEN /\ msgs' = BagRemove(msgs, m)
            /\ UNCHANGED <<addrDb, peers, sentVer>>
       ELSE /\ \E s \in Stamps :
                 addrDb' = [addrDb EXCEPT ![t] = IF known THEN AddrDbUpdateLastSeen(@, me, s)
                                                           ELSE AddrDbAdd(@, me, s)]
            /\ peers' = [peers EXCEPT ![t] = IF added THEN @ \cup {me} ELSE @]
            /\ IF added /\ ~pendingVer
               THEN /\ sentVer' = [sentVer EXCEPT ![t] = @ \cup {me}]
                    /\ msgs' = BagRemove(msgs, m) (+) SetToBag({VerMsg(me, t)})
               ELSE /\ msgs' = BagRemove(msgs, m)
                    /\ UNCHANGED sentVer
    /\ UNCHANGED <<events, lost, bootVars>>

\* Node.Version at t: reject a full AddrDb; record the address (update its
\* LastSeen or add it); PeerDb.Add the peer, and when it was added and no
\* Version of t's to that address is pending, mark SentVer and reply with
\* a Version of t's own.
Version(m) ==
    LET t == m.to
        me == m.me
        known == me \in DOMAIN addrDb[t]
        added == PeerDbAdd(peers[t], me)
        pendingVer == me \in sentVer[t]
    IN
    /\ m.k = "ver"
    /\ IF ~known /\ ~AddrDbAddOk(addrDb[t], me)
       THEN /\ msgs' = BagRemove(msgs, m)
            /\ UNCHANGED <<addrDb, peers, sentVer>>
       ELSE /\ \E s \in Stamps :
                 addrDb' = [addrDb EXCEPT ![t] = IF known THEN AddrDbUpdateLastSeen(@, me, s)
                                                           ELSE AddrDbAdd(@, me, s)]
            /\ peers' = [peers EXCEPT ![t] = IF added THEN @ \cup {me} ELSE @]
            /\ IF added /\ ~pendingVer
               THEN /\ sentVer' = [sentVer EXCEPT ![t] = @ \cup {me}]
                    /\ msgs' = BagRemove(msgs, m) (+) SetToBag({VerMsg(me, t)})
               ELSE /\ msgs' = BagRemove(msgs, m)
                    /\ UNCHANGED sentVer
    /\ UNCHANGED <<events, lost, bootVars>>

\* Node.SendAddresses at t for the one address a it carries: skip t's own
\* address; a peer's or a known address's LastSeen is raised when the
\* message's is later (only a peer's counts as new); an unknown address is
\* added.  A Version goes to a in every case but the first, and a message
\* that brought something new goes on to GetRandom(2) of t's peers.
SendAddrs(m) ==
    LET t == m.to
        a == m.a
        isPeer == a \in peers[t]
        known == a \in DOMAIN addrDb[t]
        later == (isPeer \/ known) /\ addrDb[t][a] < m.ls
        foundNew == (isPeer /\ later) \/ (~isPeer /\ AddrDbAddOk(addrDb[t], a))
    IN
    /\ m.k = "addrs"
    /\ IF a = t
       THEN /\ msgs' = BagRemove(msgs, m)
            /\ UNCHANGED addrDb
       ELSE /\ addrDb' = CASE later -> [addrDb EXCEPT ![t] = AddrDbUpdateLastSeen(@, a, m.ls)]
                            [] AddrDbAddOk(addrDb[t], a) -> [addrDb EXCEPT ![t] = AddrDbAdd(@, a, m.ls)]
                            [] OTHER -> addrDb
            /\ \E fwd \in IF foundNew THEN GetRandom(peers[t], 2, {t}) ELSE {{}} :
                  msgs' = BagRemove(msgs, m) (+)
                          SetToBag({VerMsg(a, t)} \cup
                                   { Msg("addrs", p, t, a, m.ls) : p \in fwd })
    /\ UNCHANGED <<peers, sentVer, events, lost, bootVars>>

\* An RPC fails: the caller logs the error and goes on.
Lose(m) ==
    /\ msgs' = BagRemove(msgs, m)
    /\ lost' = TRUE
    /\ UNCHANGED <<addrDb, peers, sentVer, events, bootVars>>

\* VerTimeout passes: SentVer no longer counts as pending.
Expire(n, a) ==
    /\ a \in sentVer[n]
    /\ sentVer' = [sentVer EXCEPT ![n] = @ \ {a}]
    /\ UNCHANGED <<addrDb, peers, msgs, events, lost, bootVars>>

-----------------------------------------------------------------------------
(* Node.Bootstrap at Boot.                                                 *)

\* Bootstrap, called once: an error when Boot has no peers; otherwise one
\* goroutine per peer, and wg.Wait.
BootStart ==
    /\ bstate = "idle"
    /\ events < MaxEvents /\ events' = events + 1
    /\ IF peers[Boot] = {}
       THEN /\ bstate' = "done"
            /\ UNCHANGED <<chain, bpc, bres, longestRes, baddr, fetchQ>>
       ELSE /\ bpc' = [p \in Nodes |-> IF p \in peers[Boot] THEN "rpc" ELSE "idle"]
            /\ bstate' = "wait"
            /\ UNCHANGED <<chain, bres, longestRes, baddr, fetchQ>>
    /\ UNCHANGED <<addrDb, peers, sentVer, msgs, lost>>

\* The goroutine's GetBlocksRPC from Boot's top block: an error ends it.
BootRpc(p) ==
    /\ bpc[p] = "rpc"
    /\ \/ bpc' = [bpc EXCEPT ![p] = "done"] /\ UNCHANGED bres
       \/ /\ bres' = [bres EXCEPT ![p] = GetBlocks(PeerChain(p), chain.last)]
          /\ bpc' = [bpc EXCEPT ![p] = "chk"]
    /\ UNCHANGED <<netVars, chain, longestRes, baddr, bstate, fetchQ>>

\* if longestRes == nil || len(res.BlockHashes) > len(longestRes.BlockHashes)
BootChk(p) ==
    /\ bpc[p] = "chk"
    /\ bpc' = [bpc EXCEPT ![p] =
                 IF longestRes.nil \/ Len(bres[p]) > Len(longestRes.hs)
                 THEN "set" ELSE "done"]
    /\ UNCHANGED <<netVars, chain, bres, longestRes, baddr, bstate, fetchQ>>

\* longestRes = res
BootSet(p) ==
    /\ bpc[p] = "set"
    /\ longestRes' = Res(bres[p])
    /\ bpc' = [bpc EXCEPT ![p] = "addr"]
    /\ UNCHANGED <<netVars, chain, bres, baddr, bstate, fetchQ>>

\* Faulty variant of BootSetAddr: addr = p.Addr left out.
BootSetAddrDropped(p) ==
    /\ bpc[p] = "addr"
    /\ bpc' = [bpc EXCEPT ![p] = "done"]
    /\ UNCHANGED <<netVars, chain, bres, longestRes, baddr, bstate, fetchQ>>

\* addr = p.Addr; wg.Done()
BootSetAddr(p) ==
    /\ bpc[p] = "addr"
    /\ baddr' = p
    /\ bpc' = [bpc EXCEPT ![p] = "done"]
    /\ UNCHANGED <<netVars, chain, bres, longestRes, bstate, fetchQ>>

\* wg.Wait returns: an error when no peer answered, else the loop over
\* longestRes's hashes, which ends at once when there are none.
BootWaited ==
    /\ bstate = "wait"
    /\ \A p \in Nodes : bpc[p] \in {"idle", "done"}
    /\ IF longestRes.nil \/ longestRes.hs = << >>
       THEN bstate' = "done" /\ UNCHANGED fetchQ
       ELSE bstate' = "fetch" /\ fetchQ' = longestRes.hs
    /\ UNCHANGED <<netVars, chain, bpc, bres, longestRes, baddr>>

\* The GetData handler of node p for hash h fails: Chain.Get panics for a
\* hash p lacks, before the handler's own nil check is reached.
GetDataFails(p, h) == GetPanics(PeerChain(p), h)

\* One hash of longestRes: GetDataRPC to addr, whose Chain.Get dereferences
\* a nil node for a hash it lacks (its handler panics and the RPC fails);
\* on a failed RPC pb is nil and pb.Block panics Boot.  Otherwise
\* Chain.Add(b), which panics on an unknown parent, and HndlChkBlk when
\* longestRes has at most 2 hashes, a nil *Miner without a miner.
BootFetch ==
    /\ bstate = "fetch" /\ fetchQ # << >>
    /\ LET h == Head(fetchQ)
           chkOrf == Len(longestRes.hs) <= 2
       IN  \/ /\ GetDataFails(baddr, h) \/ AddPanics(chain, h)
                 \/ (chkOrf /\ ~HasMnr)
              /\ bstate' = "panic"
              /\ UNCHANGED <<chain, fetchQ>>
           \/ /\ ~GetDataFails(baddr, h)
              /\ ~AddPanics(chain, h)
              /\ ~(chkOrf /\ ~HasMnr)
              /\ chain' = AddBlock(chain, h)
              /\ fetchQ' = Tail(fetchQ)
              /\ bstate' = IF Tail(fetchQ) = << >> THEN "done" ELSE "fetch"
           \/ /\ bstate' = "panic"
              /\ UNCHANGED <<chain, fetchQ>>
    /\ UNCHANGED <<netVars, bpc, bres, longestRes, baddr>>

-----------------------------------------------------------------------------
SomeVersion == \E m \in DOMAIN msgs : Version(m)
SomeSendAddrs == \E m \in DOMAIN msgs : SendAddrs(m)
SomeLose == \E m \in DOMAIN msgs : Lose(m)
SomeBootRpc == \E p \in Nodes : BootRpc(p)
SomeBootChk == \E p \in Nodes : BootChk(p)
SomeBootSet == \E p \in Nodes : BootSet(p)
SomeBootSetAddr == \E p \in Nodes : BootSetAddr(p)

\* Nothing left to do: no RPC in flight and Bootstrap not running.
Quiet == msgs = EmptyBag /\ bstate \in {"idle", "done", "panic"}
Terminating == Quiet /\ UNCHANGED vars

Next ==
    \/ \E n, a \in Nodes : ConnectToPeer(n, a)
    \/ \E n \in Nodes : BroadcastAddr(n)
    \/ SomeVersion
    \/ SomeSendAddrs
    \/ SomeLose
    \/ \E n, a \in Nodes : Expire(n, a)
    \/ BootStart
    \/ SomeBootRpc
    \/ SomeBootChk
    \/ SomeBootSet
    \/ SomeBootSetAddr
    \/ BootWaited
    \/ BootFetch
    \/ Terminating

Spec == Init /\ [][Next]_vars

\* The steps the code always takes: an RPC returns (its handler runs or
\* gRPC reports the call failed), VerTimeout passes, and Boot's goroutines
\* and Bootstrap itself keep running.  The users' calls (ConnectToPeer,
\* BroadcastAddr) get no fairness.
SystemStep ==
    \/ \E m \in DOMAIN msgs : Version(m) \/ SendAddrs(m) \/ Lose(m)
    \/ \E n, a \in Nodes : Expire(n, a)
    \/ SomeBootRpc \/ SomeBootChk \/ SomeBootSet \/ SomeBootSetAddr
    \/ BootWaited \/ BootFetch
FairSpec == Spec /\ WF_vars(SystemStep)

====
