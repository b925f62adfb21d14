--------------------------- MODULE EthIPLDFetcher ---------------------------
(***************************************************************************)
(* The Ethereum IPLD fetcher, src/pkg/eth/ipld_fetcher.go.                 *)
(*                                                                         *)
(* Fetch takes the cids the index holds of one block (a CIDWrapper) and    *)
(* gets their blocks from the block service: the header with one GetBlock, *)
(* uncles, transactions and receipts with one GetBlocks each, state and    *)
(* storage nodes with one GetBlock each so that every node stays with its  *)
(* keys.  Fetch is one action per call of the block service, since the     *)
(* publisher adds blocks to the store while a Fetch is under way.          *)
(*                                                                         *)
(* A Fetch* function is an operator that gives the set of the [val, err]   *)
(* pairs the function may return in the current store.                     *)
(***************************************************************************)
EXTENDS Integers, Sequences, FiniteSets, SequencesExt, TLC

CONSTANTS
    CIDStrings,      \* the well-formed cid strings
    CIDWrappers,     \* the eth CIDWrappers the retriever may hand to Fetch
    ForeignCIDs,     \* CIDsForFetching of another chain's type
    MaxDifficulty,   \* the total difficulties of the model are 0..MaxDifficulty
    Nil

VARIABLES
    store,    \* the block service's store
    cids,     \* the argument of the Fetch under way
    pc,       \* where that Fetch is
    iplds,    \* its local variable iplds
    result    \* what it returned: [iplds, err]; Nil until it has

vars == <<store, cids, pc, iplds, result>>

BS == INSTANCE BlockService

errUnexpectedNumberOfIPLDs == "ipfs batch fetch returned unexpected number of IPLDs"

\* new(big.Int).SetString(str, 10)
SetString(str) ==
    LET parsed == {n \in 0..MaxDifficulty : ToString(n) = str}
    IN  IF parsed = {} THEN [val |-> Nil, ok |-> FALSE]
        ELSE [val |-> CHOOSE n \in parsed : TRUE, ok |-> TRUE]

\* common.HexToHash of a key column of the index
HexToHash(key) == <<"hash", key>>

\* ipfs.BlockModel{Data: block.RawData(), CID: block.Cid().String()}
BlockModel(block) == [Data |-> BS!RawData(block), CID |-> BS!String(block)]

\* The zero value IPLDs{}
IPLDs ==
    [BlockNumber |-> Nil, TotalDifficulty |-> Nil, Header |-> Nil,
     Uncles |-> <<>>, Transactions |-> <<>>, Receipts |-> <<>>,
     StateNodes |-> <<>>, StorageNodes |-> <<>>]

-----------------------------------------------------------------------------
(* The functions of ipld_fetcher.go *)

fetch(cid) == BS!GetBlock(cid)

fetchBatch(cidList) == BS!GetBlocks(cidList)

FetchHeader(c) ==
    LET dc     == BS!Decode(c.CID)
        header == fetch(dc.cid)
    IN  IF dc.err # Nil THEN {[val |-> Nil, err |-> dc.err]}
        ELSE IF header.err # Nil THEN {[val |-> Nil, err |-> header.err]}
        ELSE {[val |-> BlockModel(header.block), err |-> Nil]}

\* FetchUncles, FetchTrxs and FetchRcts are this function of their list.
FetchBatchOf(models) ==
    LET dcs == [i \in DOMAIN models |-> BS!Decode(models[i].CID)]
    IN  IF \E i \in DOMAIN dcs : dcs[i].err # Nil
        THEN {[val |-> Nil, err |-> "invalid cid"]}
        ELSE {[val |-> [i \in DOMAIN blocks |-> BlockModel(blocks[i])],
               err |-> IF Len(blocks) # Len(models)
                       THEN errUnexpectedNumberOfIPLDs ELSE Nil] :
                 blocks \in fetchBatch([i \in DOMAIN dcs |-> dcs[i].cid])}

FetchUncles(models) == FetchBatchOf(models)

FetchTrxs(models) == FetchBatchOf(models)

\* A fault of FetchRcts: the count of the blocks returned is not compared
\* with the count asked for.
FetchRcts_noCount(models) ==
    {[o EXCEPT !.err = IF @ = errUnexpectedNumberOfIPLDs THEN Nil ELSE @] :
        o \in FetchBatchOf(models)}

FetchRcts(models) == FetchBatchOf(models)

\* The loop of FetchState and FetchStorage over the rows that are not
\* skipped: the first row that does not decode or is not found ends it.
FetchEach(rows) ==
    LET dcs    == [i \in DOMAIN rows |-> BS!Decode(rows[i].CID)]
        got    == [i \in DOMAIN rows |->
                      IF dcs[i].err # Nil THEN dcs[i]
                      ELSE fetch(dcs[i].cid)]
        failed == {i \in DOMAIN rows : got[i].err # Nil}
    IN  IF failed # {}
        THEN [val |-> Nil, err |-> got[Min(failed)].err]
        ELSE [val |-> [i \in DOMAIN rows |-> BlockModel(got[i].block)],
              err |-> Nil]

\* A fault of FetchState: the nodes are fetched in one batch, like the other
\* kinds, and put back with their keys by position.
FetchState_batched(models) ==
    LET rows == SelectSeq(models, LAMBDA row : row.CID # "")
    IN  {[val |-> IF o.err # Nil THEN Nil
                  ELSE [i \in DOMAIN rows |->
                           [IPLD |-> o.val[i],
                            StateLeafKey |-> HexToHash(rows[i].StateKey)]],
          err |-> o.err] : o \in FetchBatchOf(rows)}

FetchState(models) ==
    LET rows == SelectSeq(models, LAMBDA row : row.CID # "")
        each == FetchEach(rows)
    IN  {[val |-> IF each.err # Nil THEN Nil
                  ELSE [i \in DOMAIN rows |->
                           [IPLD |-> each.val[i],
                            StateLeafKey |-> HexToHash(rows[i].StateKey)]],
          err |-> each.err]}

FetchStorage(models) ==
    LET rows == SelectSeq(models, LAMBDA row : row.CID # "" /\ row.StateKey # "")
        each == FetchEach(rows)
    IN  {[val |-> IF each.err # Nil THEN Nil
                  ELSE [i \in DOMAIN rows |->
                           [IPLD |-> each.val[i],
                            StateLeafKey |-> HexToHash(rows[i].StateKey),
                            StorageLeafKey |-> HexToHash(rows[i].StorageKey)]],
          err |-> each.err]}

-----------------------------------------------------------------------------
(* Fetch, one action per call of the block service *)

\* return nil, err
Fail(err) ==
    /\ result' = [iplds |-> Nil, err |-> err]
    /\ pc' = "done"
    /\ UNCHANGED iplds

\* One of the six assignments  iplds.X, err = f.FetchX(cidWrapper.X)  of Fetch
\* with the test of err after it; the last of them is followed by the return.
Stage(at, next, field, outcomes) ==
    /\ pc = at
    /\ \E o \in outcomes :
          \/ o.err # Nil /\ Fail(o.err)
          \/ /\ o.err = Nil
             /\ iplds' = [iplds EXCEPT ![field] = o.val]
             /\ pc' = next
             /\ result' = IF next = "done"
                          THEN [iplds |-> iplds', err |-> Nil] ELSE result
    /\ UNCHANGED <<store, cids>>

\* The caller calls Fetch: the type assertion and the total difficulty.
Fetch(c) ==
    /\ pc = "idle"
    /\ cids' = c
    /\ IF c \notin CIDWrappers
       THEN Fail("eth fetcher: expected cids type")
       ELSE LET td == SetString(c.Header.TotalDifficulty)
            IN  IF ~td.ok
                THEN Fail("eth fetcher: unable to set total difficulty")
                ELSE /\ iplds' = [IPLDs EXCEPT !.TotalDifficulty = td.val,
                                               !.BlockNumber = c.BlockNumber]
                     /\ pc' = "header"
                     /\ UNCHANGED result
    /\ UNCHANGED store

Fetch_Header  == Stage("header", "uncles", "Header", FetchHeader(cids.Header))

Fetch_Uncles  == Stage("uncles", "trxs", "Uncles", FetchUncles(cids.Uncles))

Fetch_Trxs    == Stage("trxs", "rcts", "Transactions", FetchTrxs(cids.Transactions))

Fetch_Rcts    == Stage("rcts", "state", "Receipts", FetchRcts(cids.Receipts))

Fetch_State   == Stage("state", "storage", "StateNodes", FetchState(cids.StateNodes))

Fetch_Storage == Stage("storage", "done", "StorageNodes", FetchStorage(cids.StorageNodes))

\* The caller has the result and is ready for its next call.
Return ==
    /\ pc = "done"
    /\ pc' = "idle"
    /\ result' = Nil
    /\ iplds' = IPLDs
    /\ UNCHANGED <<store, cids>>

\* A publisher adds a block to the store.
Publish(c) ==
    /\ c \notin store
    /\ BS!Add(c)
    /\ UNCHANGED <<cids, pc, iplds, result>>

Init ==
    /\ store = {}
    /\ cids = Nil
    /\ pc = "idle"
    /\ iplds = IPLDs
    /\ result = Nil

FetchStep ==
    \/ Fetch_Header \/ Fetch_Uncles \/ Fetch_Trxs
    \/ Fetch_Rcts \/ Fetch_State \/ Fetch_Storage

Next ==
    \/ \E c \in CIDWrappers \cup ForeignCIDs : Fetch(c)
    \/ FetchStep
    \/ Return
    \/ \E c \in BS!AllCids : Publish(c)

Spec == Init /\ [][Next]_vars

-----------------------------------------------------------------------------
(* Properties *)

Stages == {"header", "uncles", "trxs", "rcts", "state", "storage"}

\* The cids of a list of BlockModels or of index rows.
CidsOf(list) == {list[i].CID : i \in DOMAIN list}

\* Type invariant: a Fetch that failed returned nil, one that succeeded its
\* iplds with a total difficulty that is a number; the store holds blocks only.
TypeOK ==
    /\ store \subseteq BS!AllCids
    /\ cids \in CIDWrappers \cup ForeignCIDs \cup {Nil}
    /\ pc \in {"idle", "done"} \cup Stages
    /\ DOMAIN iplds = DOMAIN IPLDs
    /\ result # Nil <=> pc = "done"
    /\ result # Nil => (result.err = Nil <=> result.iplds # Nil)
    /\ result # Nil /\ result.err = Nil =>
           result.iplds.TotalDifficulty \in 0..MaxDifficulty

\* A Fetch that reports no error returns every block it was asked for and no
\* other: the header, as many uncles, transactions and receipts as cids, with
\* the same cids (the comparison of lengths after fetchBatch, which may
\* deliver fewer blocks than asked for and in any order), and a state and a
\* storage node for every row that is not skipped, in the order of the rows;
\* and the store holds every block returned.
FetchedWhatWasAskedFor ==
    result # Nil /\ result.err = Nil =>
        LET r == result.iplds
            stateRows   == SelectSeq(cids.StateNodes, LAMBDA row : row.CID # "")
            storageRows == SelectSeq(cids.StorageNodes,
                                     LAMBDA row : row.CID # "" /\ row.StateKey # "")
        IN  /\ r.Header.CID = cids.Header.CID
            /\ \A kind \in {"Uncles", "Transactions", "Receipts"} :
                   /\ Len(r[kind]) = Len(cids[kind])
                   /\ CidsOf(r[kind]) = CidsOf(cids[kind])
            /\ [i \in DOMAIN r.StateNodes |-> r.StateNodes[i].IPLD.CID]
                   = [i \in DOMAIN stateRows |-> stateRows[i].CID]
            /\ [i \in DOMAIN r.StorageNodes |-> r.StorageNodes[i].IPLD.CID]
                   = [i \in DOMAIN storageRows |-> storageRows[i].CID]
            /\ \A c \in {r.Header.CID} \cup CidsOf(r.Uncles)
                         \cup CidsOf(r.Transactions) \cup CidsOf(r.Receipts) :
                   BS!Decode(c).cid \in store

\* Every state and storage node returned carries the keys of the index row
\* whose cid it was fetched by (the reason FetchState and FetchStorage fetch
\* one block at a time and not in a batch).
KeysStayWithTheirNode ==
    result # Nil /\ result.err = Nil =>
        /\ \A i \in DOMAIN result.iplds.StateNodes :
               LET node == result.iplds.StateNodes[i]
               IN  \E j \in DOMAIN cids.StateNodes :
                       /\ cids.StateNodes[j].CID = node.IPLD.CID
                       /\ HexToHash(cids.StateNodes[j].StateKey) = node.StateLeafKey
        /\ \A i \in DOMAIN result.iplds.StorageNodes :
               LET node == result.iplds.StorageNodes[i]
               IN  \E j \in DOMAIN cids.StorageNodes :
                       /\ cids.StorageNodes[j].CID = node.IPLD.CID
                       /\ HexToHash(cids.StorageNodes[j].StateKey) = node.StateLeafKey
                       /\ HexToHash(cids.StorageNodes[j].StorageKey) = node.StorageLeafKey

=============================================================================
