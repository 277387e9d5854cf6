-------------------------------- MODULE TxHeap --------------------------------
(***************************************************************************)
(* tx.Heap (pkg/block/tx/tx_heap.go): a slice of HeapNode [P, T] kept in   *)
(* heap order by container/heap with Less(i, j) == P_i > P_j, so the       *)
(* highest priority is at index 0.  The operators take and return the      *)
(* slice as a sequence; the comments use Go's 0-based indices, and At(h, k)*)
(* is the node at Go index k.  Two nodes match when their transactions     *)
(* have the same hash, that is when they are equal (see Tx).               *)
(***************************************************************************)
EXTENDS Integers, Sequences, FiniteSets, SequencesExt

At(h, k) == h[k + 1]

\* Heap.Less
Less(h, i, j) == At(h, i).P > At(h, j).P

\* Heap.Swap
SwapAt(h, i, j) == [h EXCEPT ![i + 1] = h[j + 1], ![j + 1] = h[i + 1]]

\* container/heap's up: move the node at j towards the root while it is
\* Less than its parent.
RECURSIVE Up(_, _)
Up(h, j) ==
    IF j <= 0 \/ ~Less(h, j, (j - 1) \div 2) THEN h
    ELSE Up(SwapAt(h, (j - 1) \div 2, j), (j - 1) \div 2)

\* container/heap's down over the first n nodes: swap the node at i with
\* its Less child while that child is Less than it.
RECURSIVE Down(_, _, _)
Down(h, i, n) ==
    IF 2 * i + 1 >= n THEN h
    ELSE LET j == IF 2 * i + 2 < n /\ Less(h, 2 * i + 2, 2 * i + 1)
                  THEN 2 * i + 2 ELSE 2 * i + 1
         IN  IF ~Less(h, j, i) THEN h ELSE Down(SwapAt(h, i, j), j, n)

\* container/heap's Init: down from n/2 - 1 to 0.
RECURSIVE InitFrom(_, _)
InitFrom(h, i) == IF i < 0 THEN h ELSE InitFrom(Down(h, i, Len(h)), i - 1)
HeapInit(h) == InitFrom(h, Len(h) \div 2 - 1)

\* Heap.Add: heap.Push of a new node, appended by Heap.Push and moved up.
HeapAdd(h, p, t) == Up(Append(h, [P |-> p, T |-> t]), Len(h))

\* Heap.IncAll: every priority one higher.
IncAll(h) == [k \in DOMAIN h |-> [h[k] EXCEPT !.P = @ + 1]]

\* Heap.GetIndex: the first index whose transaction matches t, or -1.
GetIndex(h, t) ==
    LET I == {k \in DOMAIN h : h[k].T = t}
    IN  IF I = {} THEN -1 ELSE Min(I) - 1

\* Heap.Rmv's loop: for each t of ts in order, the first matching node is
\* swapped with the last one and the slice shortened; t is recorded as
\* removed.  Returns the slice and the removed transactions.
RECURSIVE RmvLoop(_, _, _)
RmvLoop(h, ts, r) ==
    IF ts = <<>> THEN [heap |-> h, removed |-> r]
    ELSE LET i == GetIndex(h, Head(ts))
         IN  IF i = -1 THEN RmvLoop(h, Tail(ts), r)
             ELSE RmvLoop(Front(SwapAt(h, i, Len(h) - 1)), Tail(ts), Append(r, Head(ts)))

\* Faulty variant of Rmv: the slice is not re-heapified.
RmvNoInit(h, ts) == RmvLoop(h, ts, <<>>)

\* Heap.Rmv: the loop, then heap.Init over what is left.
Rmv(h, ts) ==
    LET res == RmvLoop(h, ts, <<>>)
    IN  [heap |-> HeapInit(res.heap), removed |-> res.removed]

\* Heap.RemAbv: the transactions of the nodes with P >= thresh, in slice
\* order, removed with Rmv; returns them (not what Rmv reports).
RemAbv(h, thresh) ==
    LET abv == SelectSeq(h, LAMBDA n : n.P >= thresh)
        rem == [k \in DOMAIN abv |-> abv[k].T]
    IN [heap |-> Rmv(h, rem).heap, removed |-> rem]

\* The heap order container/heap maintains: no node is Less than its parent.
IsHeap(h) == \A k \in 1 .. Len(h) - 1 : ~Less(h, k, (k - 1) \div 2)

=============================================================================
