------------------------------ MODULE EthBlock ------------------------------
(***************************************************************************)
(* The IPLD nodes of an Ethereum block, src/pkg/ipfs/ipld/eth_block.go.    *)
(*                                                                         *)
(* FromBlock makes the node of the header, of every transaction and of     *)
(* every receipt, builds the transaction trie and the receipt trie, and    *)
(* compares their roots with the roots the header declares.  It is the     *)
(* step of the publisher that decides whether a block is published at all. *)
(* A trie is abstracted to the list of what was added to it: its root is a *)
(* function of that list, and two lists have the same root only if equal.  *)
(***************************************************************************)
EXTENDS Integers, Sequences, FiniteSets, SequencesExt

CONSTANTS
    Blocks,        \* the blocks the converter may deliver
    ReceiptLists,  \* the lists of receipts it may deliver beside a block
    Unencodable,   \* the objects whose bytes no cid can be computed of
    Nil

VARIABLES
    block,      \* the block passed to FromBlock
    receipts,   \* the receipts passed to FromBlock
    result      \* what FromBlock returned; Nil until it has

vars == <<block, receipts, result>>

-----------------------------------------------------------------------------
getRLP(object) == <<"rlp", object>>

RawdataToCid(codec, rawdata) ==
    IF rawdata[2] \in Unencodable
    THEN [cid |-> Nil, err |-> "multihash"]
    ELSE [cid |-> <<"cid", codec, rawdata>>, err |-> Nil]

\* NewEthTx and NewReceipt: the node of an object, or the error of its cid.
NewNode(codec, object) ==
    LET c == RawdataToCid(codec, getRLP(object))
    IN  [node |-> [cid |-> c.cid, rawdata |-> getRLP(object)], err |-> c.err]

\* trie.rootHash after trie.add(idx, rawdata) of every element of a list
rootHash(added) == <<"root", added>>

\* trie.getNodes: the nodes of a trie (its root, unless it is empty)
getNodes(added) == IF added = <<>> THEN <<>> ELSE <<rootHash(added)>>

\* processTransactions and processReceipts are this function of their list.
processList(codec, objects, expectedRoot, wrongRoot) ==
    LET new    == [i \in DOMAIN objects |-> NewNode(codec, objects[i])]
        failed == {i \in DOMAIN new : new[i].err # Nil}
        added  == [i \in DOMAIN new |-> new[i].node.rawdata]
    IN  IF failed # {}
        THEN [nodes |-> Nil, trieNodes |-> Nil, err |-> new[Min(failed)].err]
        ELSE IF rootHash(added) # expectedRoot
        THEN [nodes |-> Nil, trieNodes |-> Nil, err |-> wrongRoot]
        ELSE [nodes     |-> [i \in DOMAIN new |-> new[i].node],
              trieNodes |-> getNodes(added), err |-> Nil]

\* A fault of processTransactions: the root of the trie is not compared.
processTransactions_rootUnchecked(txs, expectedTxRoot) ==
    processList("eth-tx", txs, rootHash([i \in DOMAIN txs |-> getRLP(txs[i])]),
                "wrong transaction hash computed")

processTransactions(txs, expectedTxRoot) ==
    processList("eth-tx", txs, expectedTxRoot, "wrong transaction hash computed")

processReceipts(rcts, expectedRctRoot) ==
    processList("eth-tx-receipt", rcts, expectedRctRoot, "wrong receipt hash computed")

\* return nil, nil, nil, nil, nil, err
Failed(err) ==
    [ethHeader |-> Nil, ethTxNodes |-> Nil, ethTxTrieNodes |-> Nil,
     ethRctNodes |-> Nil, ethRctTrieNodes |-> Nil, err |-> err]

\* return headerNode, ethTxNodes, ethTxTrieNodes, ethRctNodes, ethRctTrieNodes, nil
Returned(h, txs, rcts) ==
    [ethHeader      |-> h,         ethTxNodes      |-> txs.nodes,
     ethTxTrieNodes |-> txs.trieNodes, ethRctNodes |-> rcts.nodes,
     ethRctTrieNodes |-> rcts.trieNodes, err       |-> Nil]

\* The header's node: its RLP and the cid of it.
HeaderNode(header) ==
    LET c == RawdataToCid("eth-block", getRLP(header))
    IN  [node |-> [Header |-> header, cid |-> c.cid, rawdata |-> getRLP(header)],
         err  |-> c.err]

\* A fault of FromBlock: the error of processTransactions is not tested either.
FromBlock_transactionErrorLost(b, rs) ==
    Returned(HeaderNode(b.Header).node,
             processTransactions(b.Transactions, b.Header.TxHash),
             processReceipts(rs, b.Header.ReceiptHash))

\* FromBlock tests the error of the header's cid and of processTransactions;
\* the error of processReceipts is assigned and never read.
FromBlock(b, rs) ==
    LET h    == HeaderNode(b.Header)
        txs  == processTransactions(b.Transactions, b.Header.TxHash)
        rcts == processReceipts(rs, b.Header.ReceiptHash)
    IN  IF h.err # Nil THEN Failed(h.err)
        ELSE IF txs.err # Nil THEN Failed(txs.err)
        ELSE Returned(h.node, txs, rcts)

-----------------------------------------------------------------------------
(* The publisher calls FromBlock for every payload it is given. *)

Init ==
    /\ block \in Blocks
    /\ receipts \in ReceiptLists
    /\ result = Nil

CallFromBlock ==
    /\ result = Nil
    /\ result' = FromBlock(block, receipts)
    /\ UNCHANGED <<block, receipts>>

NextBlock ==
    /\ result # Nil
    /\ block' \in Blocks
    /\ receipts' \in ReceiptLists
    /\ result' = Nil

Next == CallFromBlock \/ NextBlock

Spec == Init /\ [][Next]_vars

-----------------------------------------------------------------------------
(* Properties *)

\* Type invariant: FromBlock returns an error and nothing else, or a header
\* node with its cid and the nodes of the transactions.
TypeOK ==
    /\ block \in Blocks
    /\ receipts \in ReceiptLists
    /\ result # Nil =>
          /\ DOMAIN result = DOMAIN Failed(Nil)
          /\ result.err # Nil => result = Failed(result.err)
          /\ result.err = Nil =>
                /\ result.ethHeader.cid # Nil
                /\ result.ethTxNodes # Nil

\* A list of nodes is the list of the nodes of these objects, and the trie of
\* their bytes has this root.
NodesOf(nodes, objects, root) ==
    /\ nodes # Nil
    /\ [i \in DOMAIN nodes |-> nodes[i].rawdata]
           = [i \in DOMAIN objects |-> getRLP(objects[i])]
    /\ rootHash([i \in DOMAIN nodes |-> nodes[i].rawdata]) = root

\* The transaction nodes FromBlock returns are the nodes of the block's
\* transactions, in order, and their trie has the root the header declares
\* (the comparison at the end of processTransactions).
TransactionsVerified ==
    result # Nil /\ result.err = Nil =>
        NodesOf(result.ethTxNodes, block.Transactions, block.Header.TxHash)

\* The same of the receipts: a block whose receipts do not have the root its
\* header declares is rejected, and the receipt nodes returned without an
\* error are the nodes of the receipts (the comparison at the end of
\* processReceipts, and what FromBlock does with its error).
ReceiptsVerified ==
    result # Nil /\ result.err = Nil =>
        NodesOf(result.ethRctNodes, receipts, block.Header.ReceiptHash)

=============================================================================
