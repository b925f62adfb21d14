---------------------------- MODULE BtcPublisher ----------------------------
(***************************************************************************)
(* The Bitcoin IPLD publisher, src/pkg/btc/publisher.go.                   *)
(*                                                                         *)
(* Publish turns a converted block into IPLD nodes, puts the header, every *)
(* transaction and every node of the transaction trie into the block store *)
(* with one DagPut each, and returns the CIDPayload the indexer stores.    *)
(* A DagPut can fail; Publish then returns the error and no CIDPayload,    *)
(* and the blocks put so far stay in the store.  Publish is one action per *)
(* DagPut, since the fetcher reads the store while a Publish is under way. *)
(***************************************************************************)
EXTENDS Integers, Sequences, FiniteSets, SequencesExt, TLC

CONSTANTS
    Payloads,          \* the btc ConvertedPayloads the converter may deliver
    ForeignPayloads,   \* payloads of another chain's type
    Nil

VARIABLES
    store,      \* the block store behind the three DagPutters
    payload,    \* the argument of the Publish under way
    pc,         \* where that Publish is
    header,     \* its local variable header, a HeaderModel
    txCids,     \* the txCids of publishTransactions, as far as they are set
    done,       \* how many DagPuts publishTransactions has made
    result      \* what Publish returned: [cids, err]; Nil until it has

vars == <<store, payload, pc, header, txCids, done, result>>

-----------------------------------------------------------------------------
(* IPLD nodes *)

\* The cid string of the node of an object: node.Cid().String().
CidString(object) == "cid:" \o object

\* The cid the store keeps a block under.
CidOf(node) == <<"cid", node.Cid>>

\* shared.MultihashKeyFromCIDString
MultihashKeyFromCIDString(cid) == <<"mhkey", cid>>

\* The root of the transaction trie of a list of transactions.
MerkleRoot(txs) == <<"root", txs>>

\* ipld.FromHeaderAndTxs: the node of the header, of every transaction, and of
\* the transaction trie (its root, for a block that has transactions); an
\* error if the trie does not have the root the header declares.
FromHeaderAndTxs(blockHeader, txs) ==
    [headerNode  |-> [Cid |-> CidString(blockHeader.BlockHash)],
     txNodes     |-> [i \in DOMAIN txs |-> [Cid |-> CidString(txs[i])]],
     txTrieNodes |-> IF txs = <<>> THEN <<>>
                     ELSE <<[Cid |-> CidString("trie-" \o blockHeader.BlockHash)]>>,
     err         |-> IF blockHeader.MerkleRoot = MerkleRoot(txs)
                     THEN Nil ELSE "wrong merkle root"]

Nodes == FromHeaderAndTxs(payload.Header, payload.Txs)

-----------------------------------------------------------------------------
(* Publish, one action per DagPut *)

\* return nil, err
Fail(err) ==
    /\ result' = [cids |-> Nil, err |-> err]
    /\ pc' = "done"

\* The caller calls Publish: the type assertion and the generation of nodes.
Publish(p) ==
    /\ pc = "idle"
    /\ payload' = p
    /\ IF p \notin Payloads
       THEN Fail("eth publisher expected payload type")
       ELSE LET nodes == FromHeaderAndTxs(p.Header, p.Txs)
            IN  IF nodes.err # Nil THEN Fail(nodes.err)
                ELSE pc' = "header" /\ UNCHANGED result
    /\ UNCHANGED <<store, header, txCids, done>>

\* The HeaderModel Publish makes of the cid of the header.
HeaderModel(cid) ==
    [CID         |-> cid,
     MhKey       |-> MultihashKeyFromCIDString(cid),
     ParentHash  |-> payload.Header.PrevBlock,
     BlockNumber |-> ToString(payload.BlockHeight),
     BlockHash   |-> payload.Header.BlockHash]

\* A fault of publishHeader: the error of its DagPut is dropped.
publishHeader_errorDropped ==
    /\ pc = "header"
    /\ store' \in {store, store \cup {CidOf(Nodes.headerNode)}}
    /\ header' = HeaderModel(Nodes.headerNode.Cid)
    /\ pc' = "transactions"
    /\ UNCHANGED <<payload, txCids, done, result>>

\* publishHeader and, if it succeeds, the HeaderModel.
publishHeader ==
    /\ pc = "header"
    /\ \/ /\ Fail("header DagPut")
          /\ UNCHANGED <<store, header>>
       \/ /\ store' = store \cup {CidOf(Nodes.headerNode)}
          /\ header' = HeaderModel(Nodes.headerNode.Cid)
          /\ pc' = "transactions"
          /\ UNCHANGED result
    /\ UNCHANGED <<payload, txCids, done>>

\* A fault of publishTransactions: every model is given the metadata the
\* loop saw first.
TxModel_firstMetaData(i) ==
    LET cid == Nodes.txNodes[i].Cid
    IN  [CID    |-> cid,
         MhKey  |-> MultihashKeyFromCIDString(cid),
         Index  |-> payload.TxMetaData[1].Index,
         TxHash |-> payload.TxMetaData[1].TxHash]

\* The TxModelWithInsAndOuts of the i-th transaction.
TxModel(i) ==
    LET cid == Nodes.txNodes[i].Cid
    IN  [CID    |-> cid,
         MhKey  |-> MultihashKeyFromCIDString(cid),
         Index  |-> payload.TxMetaData[i].Index,
         TxHash |-> payload.TxMetaData[i].TxHash]

\* The nodes publishTransactions puts: its first loop, then its second.
Puts == Nodes.txNodes \o Nodes.txTrieNodes

\* One turn of a loop of publishTransactions whose DagPut succeeds.
TxDagPut ==
    /\ pc = "transactions" /\ done < Len(Puts)
    /\ store' = store \cup {CidOf(Puts[done + 1])}
    /\ txCids' = IF done < Len(Nodes.txNodes)
                 THEN Append(txCids, TxModel(done + 1)) ELSE txCids
    /\ done' = done + 1
    /\ UNCHANGED <<payload, header, pc, result>>

\* A fault of publishTransactions: the error of a DagPut is dropped, and the
\* cid of the node is recorded though the store did not take the node.
TxDagPutFails_errorDropped ==
    /\ pc = "transactions" /\ done < Len(Puts)
    /\ txCids' = IF done < Len(Nodes.txNodes)
                 THEN Append(txCids, TxModel(done + 1)) ELSE txCids
    /\ done' = done + 1
    /\ UNCHANGED <<store, payload, header, pc, result>>

\* One turn whose DagPut fails: publishTransactions and Publish return it.
TxDagPutFails ==
    /\ pc = "transactions" /\ done < Len(Puts)
    /\ Fail("transaction DagPut")
    /\ UNCHANGED <<store, payload, header, txCids, done>>

\* After the last turn publishTransactions returns txCids, and Publish the
\* CIDPayload.
ReturnCIDPayload ==
    /\ pc = "transactions" /\ done = Len(Puts)
    /\ result' = [cids |-> [HeaderCID |-> header, TransactionCIDs |-> txCids],
                  err  |-> Nil]
    /\ pc' = "done"
    /\ UNCHANGED <<store, payload, header, txCids, done>>

publishTransactions == TxDagPut \/ TxDagPutFails \/ ReturnCIDPayload

\* The caller has the result and is ready for its next call.
Return ==
    /\ pc = "done"
    /\ pc' = "idle"
    /\ result' = Nil
    /\ header' = Nil
    /\ txCids' = <<>>
    /\ done' = 0
    /\ UNCHANGED <<store, payload>>

Init ==
    /\ store = {}
    /\ payload = Nil
    /\ pc = "idle"
    /\ header = Nil
    /\ txCids = <<>>
    /\ done = 0
    /\ result = Nil

PublishStep == publishHeader \/ publishTransactions

Next ==
    \/ \E p \in Payloads \cup ForeignPayloads : Publish(p)
    \/ PublishStep
    \/ Return

Spec == Init /\ [][Next]_vars

-----------------------------------------------------------------------------
(* Properties *)

\* Type invariant: Publish returns a CIDPayload or an error, never both and
\* never neither; the header of a CIDPayload names the block of the payload.
TypeOK ==
    /\ payload \in Payloads \cup ForeignPayloads \cup {Nil}
    /\ pc \in {"idle", "header", "transactions", "done"}
    /\ done \in Nat
    /\ result # Nil <=> pc = "done"
    /\ result # Nil => (result.err = Nil <=> result.cids # Nil)
    /\ result # Nil /\ result.err = Nil =>
          /\ result.cids.HeaderCID.BlockHash = payload.Header.BlockHash
          /\ result.cids.HeaderCID.BlockNumber = ToString(payload.BlockHeight)

\* The cids of a CIDPayload, as the store keeps them.
CidsOfPayload(cidPayload) ==
    {<<"cid", cidPayload.HeaderCID.CID>>}
    \cup {<<"cid", cidPayload.TransactionCIDs[i].CID>> :
             i \in DOMAIN cidPayload.TransactionCIDs}

\* A CIDPayload that Publish returns names blocks the store holds, and has the
\* model of every transaction of the payload, in the payload's order, with the
\* cid of that transaction's node beside that transaction's metadata (every
\* DagPut of publishHeader and of the first loop of publishTransactions was
\* made and succeeded before the return).
PublishedIsStored ==
    result # Nil /\ result.err = Nil =>
        /\ CidsOfPayload(result.cids) \subseteq store
        /\ Len(result.cids.TransactionCIDs) = Len(payload.Txs)
        /\ \A i \in DOMAIN payload.Txs :
               /\ result.cids.TransactionCIDs[i].CID = CidString(payload.Txs[i])
               /\ result.cids.TransactionCIDs[i].TxHash = payload.TxMetaData[i].TxHash

=============================================================================
