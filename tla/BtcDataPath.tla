---------------------------- MODULE BtcDataPath ----------------------------
(***************************************************************************)
(* The Bitcoin publisher and the Bitcoin fetcher over the block store they *)
(* share, with the index between them: src/pkg/btc/publisher.go writes the *)
(* blocks of a payload and returns their cids, the indexer keeps the cids, *)
(* the retriever hands cids of the index to src/pkg/btc/ipld_fetcher.go,   *)
(* which reads the blocks back.  The indexer and the retriever are not     *)
(* among the sources and are modelled as the specification describes them: *)
(* one atomic insert of a CIDPayload that may fail, and a query that       *)
(* returns the cids of a row.                                              *)
(*                                                                         *)
(* A Publish and a Fetch run side by side, one call of the store at a      *)
(* time.                                                                   *)
(***************************************************************************)
EXTENDS Integers, Sequences, FiniteSets, TLC

CONSTANTS
    Payloads, ForeignPayloads,              \* of the publisher
    CIDStrings, CIDWrappers, ForeignCIDs,   \* of the fetcher
    StrayCIDs,     \* CIDWrappers that no row of the index gives
    Nil

VARIABLES
    store,                                           \* the block store
    payload, pubPc, header, txCids, done, pubResult, \* the Publish under way
    cids, fetchPc, iplds, fetchResult,               \* the Fetch under way
    index                                            \* the CIDPayloads indexed

publish == <<payload, pubPc, header, txCids, done, pubResult>>
fetch   == <<cids, fetchPc, iplds, fetchResult>>
vars    == <<store, publish, fetch, index>>

\* publishTransactions reads trxMeta[i] for every transaction i: the converter
\* delivers one metadata record per transaction.
ASSUME /\ \A p \in Payloads : Len(p.TxMetaData) = Len(p.Txs)
       /\ StrayCIDs \subseteq CIDWrappers

Publisher == INSTANCE BtcPublisher WITH pc <- pubPc, result <- pubResult

Fetcher == INSTANCE BtcIPLDFetcher WITH pc <- fetchPc, result <- fetchResult

-----------------------------------------------------------------------------
(* The index *)

\* The height a row keeps as a decimal string, as a number again.
BlockNumber(str) ==
    CHOOSE n \in {p.BlockHeight : p \in Payloads} : ToString(n) = str

\* The retriever: the CIDWrapper of a row of the index.
Retrieve(row) ==
    [BlockNumber  |-> BlockNumber(row.HeaderCID.BlockNumber),
     Header       |-> [CID |-> row.HeaderCID.CID],
     Transactions |-> [i \in DOMAIN row.TransactionCIDs |->
                          [CID |-> row.TransactionCIDs[i].CID]]]

Retrieved == {Retrieve(row) : row \in index}

\* The caller of Publish takes its result; the indexer inserts the CIDPayload
\* of a Publish that succeeded, all of it or, when the insert fails, nothing.
Index ==
    /\ Publisher!Return
    /\ IF pubResult.err = Nil
       THEN index' \in {index, index \cup {pubResult.cids}}
       ELSE UNCHANGED index
    /\ UNCHANGED fetch

-----------------------------------------------------------------------------

Init == Publisher!Init /\ Fetcher!Init /\ index = {}

PublisherNext ==
    /\ \/ \E p \in Payloads \cup ForeignPayloads : Publisher!Publish(p)
       \/ Publisher!PublishStep
    /\ UNCHANGED <<fetch, index>>

FetcherNext ==
    /\ \/ \E c \in Retrieved \cup StrayCIDs \cup ForeignCIDs : Fetcher!Fetch(c)
       \/ Fetcher!FetchStep
       \/ Fetcher!Return
    /\ UNCHANGED <<publish, index>>

Next == PublisherNext \/ Index \/ FetcherNext

Spec == Init /\ [][Next]_vars

-----------------------------------------------------------------------------
(* Properties *)

\* Type invariant: the type invariants of the publisher and of the fetcher;
\* the retriever gives CIDWrappers the fetcher accepts.
TypeOK ==
    /\ Publisher!TypeOK
    /\ Fetcher!TypeOK
    /\ Retrieved \subseteq CIDWrappers \ StrayCIDs

\* A CIDPayload that Publish returns names blocks the store holds and has the
\* model of every transaction of the payload, in the payload's order (every
\* DagPut of publishHeader and of publishTransactions succeeded before the
\* return), also while a Fetch reads the store.
PublishedIsStored == Publisher!PublishedIsStored

\* Every block a successful Fetch returns is the block of the cid it is
\* returned under, in whatever order GetBlocks delivered the transactions
\* (FetchTrxs takes the cid of a BlockModel from the block).
BlocksUnderTheirCid == Fetcher!BlocksUnderTheirCid

\* What the index names can be read back: a Fetch of cids the retriever gave
\* never fails for a cid that does not parse or a header the store does not
\* hold, whatever Publish is under way; it fails only when GetBlocks delivers
\* fewer transactions than asked for (Publish returns a CIDPayload only after
\* every DagPut succeeded, and the indexer inserts only what Publish returned
\* without an error).
IndexedCanBeFetched ==
    fetchResult # Nil /\ cids \in Retrieved =>
        fetchResult.err \in {Nil, Fetcher!errUnexpectedNumberOfIPLDs}

\* The cids a CIDWrapper names, as the store keeps them.
WrapperCids(w) ==
    {<<"cid", w.Header.CID>>}
        \cup {<<"cid", w.Transactions[i].CID>> : i \in DOMAIN w.Transactions}

\* The publisher and the indexer implement the data path, the index being
\* what the retriever gives of it: every DagPut adds one block, no step takes
\* a block or a row away, and a row appears only when the store holds the
\* header and every transaction it names (Publish returns its CIDPayload
\* after the last DagPut succeeded, and only what it returned is indexed).
Abstract ==
    INSTANCE DataPath WITH Cids <- Fetcher!BS!AllCids, Manifests <- CIDWrappers,
                           CidsOf <- WrapperCids, index <- Retrieved

ImplementsDataPath == Abstract!Spec

=============================================================================
