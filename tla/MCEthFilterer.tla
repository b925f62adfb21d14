--------------------------- MODULE MCEthFilterer ---------------------------
(***************************************************************************)
(* Finite sets of subscription settings and of payloads for the model      *)
(* checks of EthFilterer.  Two addresses and two topics are enough for     *)
(* every test of a list to succeed, to fail, and to be skipped; two        *)
(* transactions for the receipt join to tell a receipt it adds from one it *)
(* does not.                                                               *)
(***************************************************************************)
EXTENDS EthFilterer

Addresses == {"A1", "A2"}

(* Settings *)

NoHeaders  == [Off |-> TRUE, Uncles |-> FALSE]
NoTxs      == [Off |-> TRUE, Src |-> {}, Dst |-> {}]
NoReceipts == [Off |-> TRUE, MatchTxs |-> FALSE, Contracts |-> {},
               Topics |-> <<>>]
NoState    == [Off |-> TRUE, Addresses |-> {}, IntermediateNodes |-> FALSE]
NoStorage  == [Off |-> TRUE, Addresses |-> {}, StorageKeys |-> {},
               IntermediateNodes |-> FALSE]

TxFilters ==
    [Off : BOOLEAN, Src : {{}, {"A1"}}, Dst : {{}, {"A1"}, {"A2"}}]

\* Topic filters of no slot, of one, of two with the first or the second
\* empty, and of four with only the last in use.
TopicFilters ==
    {<<>>, <<{"T1"}>>, <<{}, {"T1"}>>, <<{"T1"}, {"T2"}>>,
     <<{}, {}, {}, {"T2"}>>}

ReceiptFilters ==
    [Off : BOOLEAN, MatchTxs : BOOLEAN, Contracts : {{}, {"A1"}},
     Topics : TopicFilters]

\* Settings over transactions and receipts, every block in range.
ReceiptSettings ==
    {[Start |-> 0, End |-> 0, HeaderFilter |-> NoHeaders, TxFilter |-> t,
      ReceiptFilter |-> r, StateFilter |-> NoState,
      StorageFilter |-> NoStorage] : t \in TxFilters, r \in ReceiptFilters}

\* Ranges that hold every block, the blocks from 2, the blocks to 1, none.
Ranges == [Start : {0, 2}, End : {0, 1}]

\* Settings over headers, state and storage, with every range.
TrieSettings ==
    {[Start |-> r.Start, End |-> r.End, HeaderFilter |-> h,
      TxFilter |-> NoTxs, ReceiptFilter |-> NoReceipts,
      StateFilter |-> st, StorageFilter |-> sg] :
        r \in Ranges,
        h \in {NoHeaders, [Off |-> FALSE, Uncles |-> FALSE],
               [Off |-> FALSE, Uncles |-> TRUE]},
        st \in [Off : BOOLEAN, Addresses : {{}, {"A1"}},
                IntermediateNodes : BOOLEAN],
        sg \in [Off : BOOLEAN, Addresses : {{}, {"A1"}},
                StorageKeys : {{}, {"K1"}}, IntermediateNodes : BOOLEAN]}

(* Payloads *)

\* The topics of a receipt without logs, of one log, and of two logs.
ReceiptTopics ==
    {<<{}, {}, {}, {}>>, <<{"T1"}, {}, {}, {"T2"}>>,
     <<{"T1", "T2"}, {"T1"}, {}, {}>>}

\* The i-th transaction of a block with its receipt.
Transfers(i) ==
    [trx : [Hash : {i}, Src : {"A1", "A2"}, Dst : {"A1", "A2"}],
     rct : [TxHash : {i}, Contract : {"A1", "A2"}, Topics : ReceiptTopics]]

\* Blocks of no transaction, of one, and of two of which the first is fixed.
Blocks ==
    {<<>>}
    \cup {<<t>> : t \in Transfers(1)}
    \cup {<<t1, t2>> : t1 \in {t \in Transfers(1) :
                                  /\ t.trx.Src = "A1" /\ t.trx.Dst = "A2"
                                  /\ t.rct.Contract = "A2"},
                       t2 \in Transfers(2)}

ReceiptPayloads ==
    {[BlockNumber  |-> 1, Header |-> <<"H", 1>>, Uncles |-> <<>>,
      Transactions |-> [i \in DOMAIN b |-> b[i].trx],
      Receipts     |-> [i \in DOMAIN b |-> b[i].rct],
      StateNodes   |-> <<>>, StorageNodes |-> <<>>] : b \in Blocks}

Leaf(key, value)   == [Key |-> key, Value |-> value, Leaf |-> TRUE]
Branch(key, value) == [Key |-> key, Value |-> value, Leaf |-> FALSE]

\* State diffs: none, leaves of one and of two accounts, a leaf under an
\* intermediate node, two intermediate nodes, and two nodes with one key.
StateDiffs ==
    {<<>>,
     <<Leaf(Keccak256Hash("A1"), "v1")>>,
     <<Leaf(Keccak256Hash("A2"), "v1"), Leaf(Keccak256Hash("A1"), "v2")>>,
     <<Branch(<<"path", "P0">>, "v1"), Leaf(Keccak256Hash("A1"), "v2")>>,
     <<Branch(<<"path", "P0">>, "v1"), Branch(<<"path", "P1">>, "v2")>>,
     <<Branch(<<"path", "P0">>, "v1"), Branch(<<"path", "P0">>, "v2")>>}

\* Storage diffs: none, of one account, of two accounts.
StorageDiffs ==
    {<<>>,
     Keccak256Hash("A1") :> <<Leaf(HexToHash("K1"), "s1"),
                              Branch(<<"path", "P0">>, "s2")>>,
     (Keccak256Hash("A1") :> <<Leaf(HexToHash("K2"), "s1")>>)
       @@ (Keccak256Hash("A2") :> <<Branch(<<"path", "P0">>, "s1"),
                                    Leaf(HexToHash("K1"), "s2")>>)}

TriePayloads ==
    {[BlockNumber  |-> n, Header |-> <<"H", n>>,
      Uncles       |-> IF n = 2 THEN <<"U1", "U2">> ELSE <<>>,
      Transactions |-> <<>>, Receipts |-> <<>>,
      StateNodes   |-> st, StorageNodes |-> sg] :
        n \in {1, 2}, st \in StateDiffs, sg \in StorageDiffs}

\* The streams of the runs: receipt filters over blocks of transactions and
\* receipts, and trie filters over blocks of state and storage nodes.
ReceiptSubscriptions == {[settings |-> ReceiptSettings, payloads |-> ReceiptPayloads]}

TrieSubscriptions == {[settings |-> TrieSettings, payloads |-> TriePayloads]}

AllSubscriptions == ReceiptSubscriptions \cup TrieSubscriptions

=============================================================================
