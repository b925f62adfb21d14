---------------------------- MODULE EthDataPath ----------------------------
(***************************************************************************)
(* The Ethereum fetcher and the DAG putters over the one block store they  *)
(* share: src/pkg/eth/ipld_fetcher.go reads the blocks that                *)
(* src/pkg/ipfs/dag_putters writes.  The settings name one IPFS repository *)
(* for every chain, so the putter of Bitcoin transactions writes to the    *)
(* same store as the putter of Ethereum receipts.                          *)
(*                                                                         *)
(* A DagPut and a Fetch run side by side, one call of the store at a time: *)
(* a Fetch may find some of the receipts of a list in the store and not    *)
(* yet the others.  The blocks of the other kinds (headers, uncles,        *)
(* transactions, state and storage nodes), whose putters are not among the *)
(* sources, are added one at a time by the fetcher's action Publish.       *)
(***************************************************************************)
EXTENDS Integers, Sequences, FiniteSets

CONSTANTS
    CIDStrings, CIDWrappers, ForeignCIDs, MaxDifficulty,   \* of the fetcher
    Raws, CidOf, Unencodable,                              \* of the putters
    Nil

VARIABLES
    store,                                       \* the block store
    cids, pc, iplds, result,                     \* the Fetch under way
    putter, raw, putPc, putCids, done, putResult \* the DagPut under way

fetch == <<cids, pc, iplds, result>>
put   == <<putter, raw, putPc, putCids, done, putResult>>
vars  == <<store, fetch, put>>

\* The cid of a block is never the empty string, which marks a row without one.
ASSUME "" \notin CIDStrings /\ MaxDifficulty \in Nat

Fetcher == INSTANCE EthIPLDFetcher

Putter == INSTANCE DagPutters WITH pc <- putPc, cids <- putCids, result <- putResult

\* The cids of the blocks the putters write.
PutterCids == {<<"cid", CidOf[object]>> : object \in DOMAIN CidOf}

Init == Fetcher!Init /\ Putter!Init

FetcherNext ==
    /\ \/ \E c \in CIDWrappers \cup ForeignCIDs : Fetcher!Fetch(c)
       \/ Fetcher!FetchStep
       \/ Fetcher!Return
       \/ \E c \in Fetcher!BS!AllCids \ PutterCids : Fetcher!Publish(c)
    /\ UNCHANGED put

PutterNext ==
    /\ \/ \E p \in Putter!Putters, r \in Raws : Putter!DagPut(p, r)
       \/ Putter!PutStep
       \/ Putter!Return
    /\ UNCHANGED fetch

Next == FetcherNext \/ PutterNext

Spec == Init /\ [][Next]_vars

-----------------------------------------------------------------------------
(* Properties *)

\* Type invariant: the type invariants of the fetcher and of the putters.
TypeOK == Fetcher!TypeOK /\ Putter!TypeOK

\* A Fetch that reports no error returns every block it was asked for and no
\* other, whatever part of a list of receipts a DagPut under way has added
\* (the comparison of lengths after fetchBatch in FetchUncles, FetchTrxs and
\* FetchRcts).
FetchedWhatWasAskedFor == Fetcher!FetchedWhatWasAskedFor

\* Every state and storage node a Fetch returns carries the keys of the index
\* row whose cid it was fetched by (FetchState and FetchStorage fetch one block
\* at a time).
KeysStayWithTheirNode == Fetcher!KeysStayWithTheirNode

\* The cids a DagPut returns are the cids of the objects of its list, in the
\* order of the list, and the store holds the block of every one of them (the
\* loop of DagPut returns at the first Add that fails).
CidsAreStored == Putter!CidsAreStored

=============================================================================
