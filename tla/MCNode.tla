-------------------------------- MODULE MCNode --------------------------------
(***************************************************************************)
(* Three nodes A, B, C; A bootstraps.  B's main chain has three blocks     *)
(* after the genesis, C's one block on a fork of its own, so that the two  *)
(* answers to A's GetBlocks differ in length and in content.               *)
(***************************************************************************)
EXTENDS Node, TLC

CONSTANTS A, B, C

\* B and C may start as peers.  A's broadcast then travels further than
\* its first receiver: after A connects to C (or to B), C forwards A's
\* address to B, which forwards it on.
MCInitLinks == {{B, C}}

\* A may start peered with B and with C, so that Bootstrap has two peers
\* to race.
MCBootLinks == {{A, B}, {A, C}}

\* A block mined on prev whose coinbase pays amount k to the genesis key.
Blk(prev, k) == [prev |-> prev, txs |-> <<[ins |-> <<>>, outs |-> <<Output(k, GenPK)>>, lock |-> 0]>>]

B1 == Blk(GenesisHash, 1)
B2 == Blk(BlockHash(B1), 2)
B3 == Blk(BlockHash(B2), 3)
C1 == Blk(GenesisHash, 4)

MCPeerChain(p) ==
    CASE p = B -> AddBlock(AddBlock(AddBlock(NewChain, B1), B2), B3)
      [] p = C -> AddBlock(NewChain, C1)
      [] OTHER -> NewChain

-----------------------------------------------------------------------------
TypeOK ==
    /\ \A n \in Nodes : peers[n] \subseteq Nodes /\ sentVer[n] \subseteq peers[n]
                        /\ DOMAIN addrDb[n] \subseteq Nodes
    /\ IsABag(msgs)
    /\ events \in 0 .. MaxEvents
    /\ bstate \in {"idle", "wait", "fetch", "done", "panic"}
    /\ bpc \in [Nodes -> {"idle", "rpc", "chk", "set", "addr", "done"}]
    /\ bstate = "fetch" => baddr \in Nodes /\ fetchQ # << >> /\ ~longestRes.nil

\* The handshake is mutual: once no Version RPC is in flight and none has
\* failed, every node that took a as a peer is a peer of a.  Node.Version
\* replies with a Version of its own whenever PeerDb.Add added the sender
\* and no Version of its own is pending; the reply is what makes the
\* sender add it back.
HandshakeMutual ==
    (~lost /\ \A m \in DOMAIN msgs : m.k # "ver") =>
        \A n, a \in Nodes : a \in peers[n] => n \in peers[a]

\* The gossip dies down: once the users stop calling, every RPC chain
\* ends and Bootstrap returns.  A Version is answered only when PeerDb.Add
\* adds its sender, and SendAddresses is forwarded only when it brings a
\* new address or a later LastSeen, so no pair of nodes keeps exchanging
\* Versions after SentVer times out, and no SendAddresses circulates for
\* ever even though the wrapped LastSeen stamps can go back.
NetworkQuiesces == <>[]Quiet

\* When Bootstrap fetches, it fetches from the peer that gave longestRes:
\* addr and longestRes are set together.
FetchFromResponder ==
    bstate = "fetch" =>
        longestRes.hs = GetBlocks(PeerChain(baddr), GenesisHash)

====
