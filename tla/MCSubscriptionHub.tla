-------------------------- MODULE MCSubscriptionHub --------------------------
(***************************************************************************)
(* The clients and the chain of the model check of SubscriptionHub.  One   *)
(* kind of client asks for the transactions from address A1 in an open     *)
(* range from the first block, the other for the headers of the blocks 2   *)
(* to 3; a third passes parameters that do not decode.  The blocks at      *)
(* heights 1 and 3 hold a transaction from A1, the block at height 2 holds *)
(* one from A2: the first kind of client is sent blocks 1 and 3 and has    *)
(* nothing to get of block 2, the second is sent blocks 2 and 3, and of    *)
(* block 3 the two get different responses.                                *)
(***************************************************************************)
EXTENDS SubscriptionHub

Headers(off)  == [Off |-> off, Uncles |-> FALSE]
TxsFrom(off, src) == [Off |-> off, Src |-> src, Dst |-> {}]
NoReceipts == [Off |-> TRUE, MatchTxs |-> FALSE, Contracts |-> {}, Topics |-> <<>>]
NoState    == [Off |-> TRUE, Addresses |-> {}, IntermediateNodes |-> FALSE]
NoStorage  == [Off |-> TRUE, Addresses |-> {}, StorageKeys |-> {},
               IntermediateNodes |-> FALSE]

MCSettingsOf(start, end, headersOff, txsOff, src) ==
    [Start |-> start, End |-> end, HeaderFilter |-> Headers(headersOff),
     TxFilter |-> TxsFrom(txsOff, src), ReceiptFilter |-> NoReceipts,
     StateFilter |-> NoState, StorageFilter |-> NoStorage]

MCSettings ==
    {MCSettingsOf(1, 0, TRUE, FALSE, {"A1"}), MCSettingsOf(2, 3, FALSE, TRUE, {})}

MCParams == MCSettings \cup {[raw |-> "undecodable"]}

MCBlocks ==
    [h \in 1..3 |->
        [BlockNumber  |-> h, Header |-> <<"H", h>>, Uncles |-> <<>>,
         Transactions |-> <<[Hash |-> h, Src |-> IF h = 2 THEN "A2" ELSE "A1",
                             Dst |-> "A2"]>>,
         Receipts     |-> <<>>, StateNodes |-> <<>>, StorageNodes |-> <<>>]]

=============================================================================
