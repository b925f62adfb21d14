---------------------------- MODULE MCBtcDataPath ----------------------------
(***************************************************************************)
(* The payloads and the cids of the model check of BtcDataPath: a block of *)
(* two transactions, its child with one transaction, an empty block, and a *)
(* block whose header declares another Merkle root than its transactions   *)
(* have.  The cid strings are those of the nodes of these payloads; the    *)
(* stray CIDWrappers name the block that is never published and a cid that *)
(* does not parse.                                                         *)
(***************************************************************************)
EXTENDS BtcDataPath

\* The Merkle root and the cid strings as the publisher's nodes have them.
Root(txs) == <<"root", txs>>

Cid(object) == "cid:" \o object

Block(height, hash, prev, txs) ==
    [BlockHeight |-> height,
     Header      |-> [BlockHash |-> hash, PrevBlock |-> prev,
                      MerkleRoot |-> Root(txs)],
     Txs         |-> txs,
     TxMetaData  |-> [i \in DOMAIN txs |-> [Index |-> i - 1, TxHash |-> txs[i]]]]

Rejected ==
    [Block(2, "b4", "b1", <<"x1">>) EXCEPT
        !.Header.MerkleRoot = Root(<<>>)]

MCPayloads ==
    {Block(1, "b1", "b0", <<"x1", "x2">>), Block(2, "b2", "b1", <<"x3">>),
     Block(3, "b3", "b2", <<>>), Rejected}

\* The CIDWrapper of the nodes of a payload.
Wrapper(p) ==
    [BlockNumber  |-> p.BlockHeight,
     Header       |-> [CID |-> Cid(p.Header.BlockHash)],
     Transactions |-> [i \in DOMAIN p.Txs |-> [CID |-> Cid(p.Txs[i])]]]

MCStrayCIDs ==
    {Wrapper(Rejected),
     [BlockNumber |-> 2, Header |-> [CID |-> ""], Transactions |-> <<>>]}

MCCIDWrappers == {Wrapper(p) : p \in MCPayloads} \cup MCStrayCIDs

MCCIDStrings ==
    UNION {{Cid(p.Header.BlockHash),
            Cid("trie-" \o p.Header.BlockHash)}
           \cup {Cid(p.Txs[i]) : i \in DOMAIN p.Txs} : p \in MCPayloads}

=============================================================================
