------------------------------- MODULE Merkle --------------------------------
(***************************************************************************)
(* block.CalcMrklRt (pkg/block/block.go), the Merkle root block.New puts   *)
(* in a header.  utils.Hash (SHA-256) is taken as an ideal hash: the hash  *)
(* of the concatenation of two hashes is the pair of them, so two roots are *)
(* equal exactly when the trees that produce them are equal.  A leaf is a  *)
(* transaction's hash, which in the model is the transaction (Tx.TxHash).  *)
(***************************************************************************)
EXTENDS Tx

RECURSIVE MrklLoop(_)

\* utils.Hash(append(byts1, byts2...)) of two decoded hex hashes.
HashPair(x, y) == [left |-> x, right |-> y]

\* The inner loop's padding: an odd level repeats its last hash.
PadOdd(hs) == IF Len(hs) % 2 # 0 THEN Append(hs, Last(hs)) ELSE hs

\* One pass of the for loop over i = 0, 2, 4, ...: the hashes of adjacent
\* pairs, in order.
Level(hs) == [i \in 1 .. Len(hs) \div 2 |-> HashPair(hs[2 * i - 1], hs[2 * i])]

\* for len(hshs) != 1 { pad; pair up }; return hshs[0].  The code never
\* leaves the loop on an empty list (len 0 stays 0), so the operator is
\* only applied to non-empty lists: block.New always has a coinbase.
MrklLoop(hs) == IF Len(hs) = 1 THEN hs[1] ELSE MrklLoop(Level(PadOdd(hs)))

\* CalcMrklRt: a list of more than one transaction and odd length first
\* repeats its last transaction, then the leaves are the transactions'
\* hashes.
CalcMrklRt(txs) ==
    LET padded == IF Len(txs) > 1 /\ Len(txs) % 2 # 0
                  THEN Append(txs, Last(txs)) ELSE txs
    IN  MrklLoop([i \in DOMAIN padded |-> TxHash(padded[i])])

=============================================================================
