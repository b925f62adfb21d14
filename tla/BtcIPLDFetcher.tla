--------------------------- MODULE BtcIPLDFetcher ---------------------------
(***************************************************************************)
(* The Bitcoin IPLD fetcher, src/pkg/btc/ipld_fetcher.go: the header of a  *)
(* block with one GetBlock, its transactions with one GetBlocks.  Fetch is *)
(* one action per call of the block service; a Fetch* function is the set  *)
(* of the [val, err] pairs it may return in the current store.             *)
(***************************************************************************)
EXTENDS Integers, Sequences, FiniteSets, SequencesExt

CONSTANTS
    CIDStrings,      \* the well-formed cid strings
    CIDWrappers,     \* the btc CIDWrappers the retriever may hand to Fetch
    ForeignCIDs,     \* CIDsForFetching of another chain's type
    Nil

VARIABLES
    store,    \* the block service's store
    cids,     \* the argument of the Fetch under way
    pc,       \* where that Fetch is
    iplds,    \* its local variable iplds
    result    \* what it returned: [iplds, err]; Nil until it has

vars == <<store, cids, pc, iplds, result>>

BS == INSTANCE BlockService

errUnexpectedNumberOfIPLDs == "ipfs batch fetch returned unexpected number of IPLDs"

\* ipfs.BlockModel{Data: block.RawData(), CID: block.Cid().String()}
BlockModel(block) == [Data |-> BS!RawData(block), CID |-> BS!String(block)]

\* The zero value IPLDs{}
IPLDs == [BlockNumber |-> Nil, Header |-> Nil, Transactions |-> <<>>]

-----------------------------------------------------------------------------
(* The functions of ipld_fetcher.go *)

fetch(cid) == BS!GetBlock(cid)

fetchBatch(cidList) == BS!GetBlocks(cidList)

FetchHeader(c) ==
    LET dc     == BS!Decode(c.CID)
        header == fetch(dc.cid)
    IN  IF dc.err # Nil THEN {[val |-> Nil, err |-> dc.err]}
        ELSE IF header.err # Nil THEN {[val |-> Nil, err |-> header.err]}
        ELSE {[val |-> BlockModel(header.block), err |-> Nil]}

\* A fault of FetchTrxs: every block that arrives is taken for the block of
\* the next cid of the request.
FetchTrxs_byPosition(models) ==
    {[val |-> [i \in DOMAIN blocks |->
                  [Data |-> BS!RawData(blocks[i]), CID |-> models[i].CID]],
      err |-> IF Len(blocks) # Len(models)
              THEN errUnexpectedNumberOfIPLDs ELSE Nil] :
        blocks \in fetchBatch([i \in DOMAIN models |-> BS!Decode(models[i].CID).cid])}

FetchTrxs(models) ==
    LET dcs == [i \in DOMAIN models |-> BS!Decode(models[i].CID)]
    IN  IF \E i \in DOMAIN dcs : dcs[i].err # Nil
        THEN {[val |-> Nil, err |-> "invalid cid"]}
        ELSE {[val |-> [i \in DOMAIN blocks |-> BlockModel(blocks[i])],
               err |-> IF Len(blocks) # Len(models)
                       THEN errUnexpectedNumberOfIPLDs ELSE Nil] :
                 blocks \in fetchBatch([i \in DOMAIN dcs |-> dcs[i].cid])}

-----------------------------------------------------------------------------
(* Fetch, one action per call of the block service *)

\* return nil, err
Fail(err) ==
    /\ result' = [iplds |-> Nil, err |-> err]
    /\ pc' = "done"
    /\ UNCHANGED iplds

\* The caller calls Fetch: the type assertion.
Fetch(c) ==
    /\ pc = "idle"
    /\ cids' = c
    /\ IF c \notin CIDWrappers
       THEN Fail("btc fetcher: expected cids type")
       ELSE /\ iplds' = [IPLDs EXCEPT !.BlockNumber = c.BlockNumber]
            /\ pc' = "header"
            /\ UNCHANGED result
    /\ UNCHANGED store

\* A fault of Fetch: the error of FetchHeader is not tested, and is lost when
\* FetchTrxs assigns err anew.
Fetch_Header_errorLost ==
    /\ pc = "header"
    /\ \E o \in FetchHeader(cids.Header) :
          /\ iplds' = [iplds EXCEPT !.Header = o.val]
          /\ pc' = "trxs"
          /\ UNCHANGED result
    /\ UNCHANGED <<store, cids>>

Fetch_Header ==
    /\ pc = "header"
    /\ \E o \in FetchHeader(cids.Header) :
          \/ o.err # Nil /\ Fail(o.err)
          \/ /\ o.err = Nil
             /\ iplds' = [iplds EXCEPT !.Header = o.val]
             /\ pc' = "trxs"
             /\ UNCHANGED result
    /\ UNCHANGED <<store, cids>>

Fetch_Trxs ==
    /\ pc = "trxs"
    /\ \E o \in FetchTrxs(cids.Transactions) :
          \/ o.err # Nil /\ Fail(o.err)
          \/ /\ o.err = Nil
             /\ iplds' = [iplds EXCEPT !.Transactions = o.val]
             /\ pc' = "done"
             /\ result' = [iplds |-> iplds', err |-> Nil]
    /\ UNCHANGED <<store, cids>>

\* The caller has the result and is ready for its next call.
Return ==
    /\ pc = "done"
    /\ pc' = "idle"
    /\ result' = Nil
    /\ iplds' = IPLDs
    /\ UNCHANGED <<store, cids>>

\* A publisher adds a block to the store.
Publish(c) ==
    /\ c \notin store
    /\ BS!Add(c)
    /\ UNCHANGED <<cids, pc, iplds, result>>

Init ==
    /\ store = {}
    /\ cids = Nil
    /\ pc = "idle"
    /\ iplds = IPLDs
    /\ result = Nil

FetchStep == Fetch_Header \/ Fetch_Trxs

Next ==
    \/ \E c \in CIDWrappers \cup ForeignCIDs : Fetch(c)
    \/ FetchStep
    \/ Return
    \/ \E c \in BS!AllCids : Publish(c)

Spec == Init /\ [][Next]_vars

-----------------------------------------------------------------------------
(* Properties *)

\* Type invariant: a Fetch that failed returned nil, one that succeeded its
\* iplds with the block number of the request and a header.
TypeOK ==
    /\ store \subseteq BS!AllCids
    /\ cids \in CIDWrappers \cup ForeignCIDs \cup {Nil}
    /\ pc \in {"idle", "header", "trxs", "done"}
    /\ DOMAIN iplds = DOMAIN IPLDs
    /\ result # Nil <=> pc = "done"
    /\ result # Nil => (result.err = Nil <=> result.iplds # Nil)
    /\ result # Nil /\ result.err = Nil =>
           /\ result.iplds.BlockNumber = cids.BlockNumber
           /\ result.iplds.Header # Nil

\* Every block a successful Fetch returns is the block of the cid it is
\* returned under, and the transactions returned are the transactions asked
\* for, whatever the order in which GetBlocks delivered them (FetchTrxs takes
\* the cid of a BlockModel from the block, not from the request).
BlocksUnderTheirCid ==
    result # Nil /\ result.err = Nil =>
        LET r == result.iplds
        IN  /\ r.Header = BlockModel(BS!Decode(cids.Header.CID).cid)
            /\ Len(r.Transactions) = Len(cids.Transactions)
            /\ {r.Transactions[i] : i \in DOMAIN r.Transactions}
                   = {BlockModel(BS!Decode(cids.Transactions[i].CID).cid) :
                         i \in DOMAIN cids.Transactions}

=============================================================================
