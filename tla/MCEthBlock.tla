----------------------------- MODULE MCEthBlock -----------------------------
(***************************************************************************)
(* The blocks and receipts of the model checks of EthBlock: every list of  *)
(* up to two of two transactions (of two receipts) and a transaction that  *)
(* cannot be encoded, under headers that declare the root of any of these  *)
(* lists, so that each of the two roots is right for some payloads and     *)
(* wrong for others; and one block whose header has no cid.                *)
(***************************************************************************)
EXTENDS EthBlock

Lists(S) == BoundedSeq(S, 2)

RootsOf(S) == {rootHash([i \in DOMAIN l |-> getRLP(l[i])]) : l \in Lists(S)}

Tx(h) == [TxHash |-> h]
Rct(h) == [PostState |-> h]

BadHeader == [Number |-> 2, TxHash |-> rootHash(<<>>), ReceiptHash |-> rootHash(<<>>)]

MCUnencodable == {Tx("xbad"), BadHeader}

MCBlocks ==
    [Header       : [Number : {1}, TxHash : RootsOf({Tx("x1"), Tx("x2")}),
                     ReceiptHash : RootsOf({Rct("r1")})],
     Transactions : Lists({Tx("x1"), Tx("x2")}) \cup {<<Tx("x1"), Tx("xbad")>>}]
    \cup {[Header |-> BadHeader, Transactions |-> <<>>]}

MCReceiptLists == Lists({Rct("r1"), Rct("r2")})

=============================================================================
