---------------------------------- MODULE Tx ----------------------------------
(***************************************************************************)
(* Transactions, inputs, outputs and blocks (pkg/block, pkg/block/tx,      *)
(* txi, txo, pkg/proto/constructors.go).                                   *)
(*                                                                         *)
(* Hashes are content addresses: a transaction's hash covers all of its    *)
(* fields and a block's header hash covers the previous hash and the       *)
(* Merkle root of its transactions (its timestamp is always 0 and its      *)
(* nonce is the least one solving the target), so a transaction or block   *)
(* record stands for its own hash.                                         *)
(***************************************************************************)
EXTENDS Integers, Sequences, FiniteSets, SequencesExt

\* A TransactionOutput without its Liminal flag.
Output(a, pk) == [amt |-> a, pk |-> pk]

\* An unlocking script is an ECDSA signature by a key over the hash of the
\* referenced output; the model keeps who signed and what was signed.
Sig(signer, out) == [by |-> signer, over |-> out]

\* TransactionOutput.IsUnlckd: the signature verifies against the output's
\* locking script over the output's hash.
IsUnlckd(out, sig) == sig = Sig(out.pk, out)

TxHash(t) == t
BlockHash(b) == b

IsCoinbase(t) == t.ins = <<>>

SumInputs(t) == SumFunction([i \in DOMAIN t.ins |-> t.ins[i].amt])
SumOutputs(t) == SumFunction([i \in DOMAIN t.outs |-> t.outs[i].amt])

\* txo.MkTXOLoc: the "hash-index" key of an output in a UTXO map.
MkTXOLoc(h, i) == <<h, i>>

\* The output a location names (output indices are 0-based in the code).
OutAt(loc) == loc[1].outs[loc[2] + 1]

\* proto.SzOfTx: the fixed field widths of a 64-bit build, 40 bytes per
\* input (uint32, string, string, uint32), 20 per output (uint32, string)
\* and 8 for the version and lock time.
Sz(t) == 40 * Len(t.ins) + 20 * Len(t.outs) + 8

=============================================================================
