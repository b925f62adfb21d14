---------------------------- MODULE EthFilterer ----------------------------
(***************************************************************************)
(* The Ethereum response filterer, src/pkg/super_node/eth/filterer.go.     *)
(*                                                                         *)
(* Filter takes one subscription's settings and one converted payload and  *)
(* builds the response sent to that subscriber.  It is a pure function;    *)
(* every function of the file is an operator here, under its own name.     *)
(*                                                                         *)
(* Data is abstracted to what the filter tells apart:                      *)
(*   - a []string that is only searched is a set;                          *)
(*   - the topic filter is a sequence (of any length) of sets, the topics  *)
(*     of a receipt a 4-tuple of sets;                                     *)
(*   - transactions[i] and TxMetaData[i] (receipts[i], ReceiptMetaData[i]) *)
(*     are one record;                                                     *)
(*   - an encoding is the tagged object, a hash the tagged preimage.       *)
(***************************************************************************)
EXTENDS Integers, Sequences, FiniteSets, SequencesExt

CONSTANTS
    Subscriptions,    \* the streams checked: eth SubscriptionSettings a
                      \* subscriber may submit, with the eth IPLDPayloads
                      \* the converter may deliver to them
    ForeignSettings,  \* settings of another chain's type
    ForeignPayloads,  \* payloads of another chain's type
    Nil               \* a nil *big.Int, and "Filter has not returned yet"

VARIABLES
    filter,    \* the shared.SubscriptionSettings passed to Filter
    payload,   \* the shared.StreamedIPLDs passed to Filter
    result     \* what Filter returned: [response, err], or Nil before it has

vars == <<filter, payload, result>>

Settings == UNION {s.settings : s \in Subscriptions}
Payloads == UNION {s.payloads : s \in Subscriptions}

\* The payloads of the streams a subscriber with these settings is on.
Delivered(f) ==
    UNION {s.payloads : s \in {t \in Subscriptions : f \in t.settings \cup ForeignSettings}}
        \cup ForeignPayloads

-----------------------------------------------------------------------------
(* Conversions *)

\* rlp.EncodeToBytes / EncodeRLP: injective on the objects of a payload.
Rlp(object) == <<"rlp", object>>

\* crypto.Keccak256Hash(common.HexToAddress(addr).Bytes()): the state trie
\* key of an account.
Keccak256Hash(addr) == <<"keccak256", addr>>

\* common.HexToHash(store): the storage trie key a subscriber names.
HexToHash(store) == <<"hash", store>>

\* The zero value StreamResponse{}.
StreamResponse ==
    [BlockNumber     |-> Nil,
     HeadersRlp      |-> <<>>,
     UnclesRlp       |-> <<>>,
     TransactionsRlp |-> <<>>,
     ReceiptsRlp     |-> <<>>,
     StateNodesRlp   |-> <<>>,
     StorageNodesRlp |-> <<>>]

\* The map a loop of  m[node.Key] = node.Value  over the nodes at the indexes
\* kept leaves behind: a later node overwrites an earlier one with its key.
NodeMap(nodes, kept) ==
    [k \in {nodes[i].Key : i \in kept} |->
        nodes[Max({i \in kept : nodes[i].Key = k})].Value]

-----------------------------------------------------------------------------
(* The functions of filterer.go *)

\* A fault of checkRange: the start of the range is not compared.
checkRange_noStart(start, end, actual) ==
    end <= 0 \/ end >= actual

checkRange(start, end, actual) ==
    (end <= 0 \/ end >= actual) /\ start <= actual

filterHeaders(headerFilter, p) ==
    [HeadersRlp |-> IF headerFilter.Off THEN <<>> ELSE <<Rlp(p.Header)>>,
     UnclesRlp  |-> IF ~headerFilter.Off /\ headerFilter.Uncles
                    THEN [i \in DOMAIN p.Uncles |-> Rlp(p.Uncles[i])]
                    ELSE <<>>]

checkTransactionAddrs(wantedSrc, wantedDst, actualSrc, actualDst) ==
    \/ wantedDst = {} /\ wantedSrc = {}
    \/ actualSrc \in wantedSrc
    \/ actualDst \in wantedDst

filterTransactions(trxFilter, p) ==
    LET wanted(trx) == checkTransactionAddrs(trxFilter.Src, trxFilter.Dst,
                                             trx.Src, trx.Dst)
        kept == IF trxFilter.Off THEN <<>>
                ELSE SelectSeq(p.Transactions, wanted)
    IN  [trxHashes       |-> {kept[i].Hash : i \in DOMAIN kept},
         TransactionsRlp |-> [i \in DOMAIN kept |-> Rlp(kept[i])]]

slicesShareString(slice1, slice2) ==
    IF slice1 \cap slice2 # {} THEN 1 ELSE 0

\* A fault of filterMatch: the bound of the slot test is off by one, so the
\* last slot of the filter is never compared.
filterMatch_offByOne(wantedTopics, actualTopics) ==
    LET matches(i) ==
            IF i < Len(wantedTopics) /\ wantedTopics[i] # {}
            THEN slicesShareString(actualTopics[i], wantedTopics[i])
            ELSE 1
    IN  SumFunction([i \in DOMAIN actualTopics |-> matches(i)]) = 4

filterMatch(wantedTopics, actualTopics) ==
    LET matches(i) ==
            IF i <= Len(wantedTopics) /\ wantedTopics[i] # {}
            THEN slicesShareString(actualTopics[i], wantedTopics[i])
            ELSE 1
    IN  SumFunction([i \in DOMAIN actualTopics |-> matches(i)]) = 4

\* A fault of checkReceipts: the case of no wanted contract is forgotten, so
\* a topic filter without contracts matches nothing.
checkReceipts_noEmptyContracts(rct, wantedTopics, actualTopics, wantedContracts, actualContract, wantedTrxHashes) ==
    \/ Len(wantedTopics) = 0 /\ wantedContracts = {} /\ wantedTrxHashes = {}
    \/ rct.TxHash \in wantedTrxHashes
    \/ /\ actualContract \in wantedContracts
       /\ filterMatch(wantedTopics, actualTopics)

checkReceipts(rct, wantedTopics, actualTopics, wantedContracts, actualContract, wantedTrxHashes) ==
    \/ Len(wantedTopics) = 0 /\ wantedContracts = {} /\ wantedTrxHashes = {}
    \/ rct.TxHash \in wantedTrxHashes
    \/ wantedContracts = {} /\ filterMatch(wantedTopics, actualTopics)
    \/ /\ actualContract \in wantedContracts
       /\ filterMatch(wantedTopics, actualTopics)

filerReceipts(receiptFilter, p, trxHashes) ==
    LET wanted(rct) == checkReceipts(rct, receiptFilter.Topics, rct.Topics,
                                     receiptFilter.Contracts, rct.Contract,
                                     trxHashes)
        kept == IF receiptFilter.Off THEN <<>>
                ELSE SelectSeq(p.Receipts, wanted)
    IN  [i \in DOMAIN kept |-> Rlp(kept[i])]

\* A fault of checkNodeKeys: the empty list is not taken to mean "all".
checkNodeKeys_noEmptyList(wantedKeys, actualKey) ==
    actualKey \in wantedKeys

checkNodeKeys(wantedKeys, actualKey) ==
    wantedKeys = {} \/ actualKey \in wantedKeys

\* A fault of filterState: the test of Leaf and IntermediateNodes is left out.
filterState_noLeafTest(stateFilter, p) ==
    LET keyFilters == {Keccak256Hash(addr) : addr \in stateFilter.Addresses}
        kept == {i \in DOMAIN p.StateNodes :
                    checkNodeKeys(keyFilters, p.StateNodes[i].Key)}
    IN  IF stateFilter.Off THEN <<>> ELSE NodeMap(p.StateNodes, kept)

filterState(stateFilter, p) ==
    LET keyFilters == {Keccak256Hash(addr) : addr \in stateFilter.Addresses}
        kept == {i \in DOMAIN p.StateNodes :
                    /\ checkNodeKeys(keyFilters, p.StateNodes[i].Key)
                    /\ p.StateNodes[i].Leaf \/ stateFilter.IntermediateNodes}
    IN  IF stateFilter.Off THEN <<>> ELSE NodeMap(p.StateNodes, kept)

filterStorage(storageFilter, p) ==
    LET stateKeyFilters ==
            {Keccak256Hash(addr) : addr \in storageFilter.Addresses}
        storageKeyFilters ==
            {HexToHash(store) : store \in storageFilter.StorageKeys}
        kept(stateKey) ==
            {i \in DOMAIN p.StorageNodes[stateKey] :
                checkNodeKeys(storageKeyFilters,
                              p.StorageNodes[stateKey][i].Key)}
        stateKeys == {stateKey \in DOMAIN p.StorageNodes :
                         checkNodeKeys(stateKeyFilters, stateKey)}
    IN  IF storageFilter.Off THEN <<>>
        ELSE [stateKey \in stateKeys |->
                 NodeMap(p.StorageNodes[stateKey], kept(stateKey))]

\* Filter, after its two type assertions.
FilterEth(ethFilters, ethPayload) ==
    LET headers == filterHeaders(ethFilters.HeaderFilter, ethPayload)
        trxs    == filterTransactions(ethFilters.TxFilter, ethPayload)
        filterTxs == IF ethFilters.ReceiptFilter.MatchTxs
                     THEN trxs.trxHashes ELSE {}
    IN  IF checkRange(ethFilters.Start, ethFilters.End, ethPayload.BlockNumber)
        THEN [BlockNumber     |-> ethPayload.BlockNumber,
              HeadersRlp      |-> headers.HeadersRlp,
              UnclesRlp       |-> headers.UnclesRlp,
              TransactionsRlp |-> trxs.TransactionsRlp,
              ReceiptsRlp     |-> filerReceipts(ethFilters.ReceiptFilter,
                                                ethPayload, filterTxs),
              StateNodesRlp   |-> filterState(ethFilters.StateFilter,
                                              ethPayload),
              StorageNodesRlp |-> filterStorage(ethFilters.StorageFilter,
                                                ethPayload)]
        ELSE StreamResponse

\* A fault of Filter: a payload of another chain is answered like a block
\* outside the range, without an error.
Filter_payloadTypeSilent(f, p) ==
    CASE f \notin Settings -> [response |-> StreamResponse, err |-> "filter type"]
      [] p \notin Payloads -> [response |-> StreamResponse, err |-> Nil]
      [] OTHER             -> [response |-> FilterEth(f, p), err |-> Nil]

Filter(f, p) ==
    CASE f \notin Settings -> [response |-> StreamResponse, err |-> "filter type"]
      [] p \notin Payloads -> [response |-> StreamResponse, err |-> "payload type"]
      [] OTHER             -> [response |-> FilterEth(f, p), err |-> Nil]

-----------------------------------------------------------------------------
(* The caller: one call of Filter for every payload and subscription. *)

Init ==
    /\ filter \in Settings \cup ForeignSettings
    /\ payload \in Delivered(filter)
    /\ result = Nil

\* The service calls Filter and gets its result.
CallFilter ==
    /\ result = Nil
    /\ result' = Filter(filter, payload)
    /\ UNCHANGED <<filter, payload>>

\* The next payload arrives for the same subscription.
NextPayload ==
    /\ result # Nil
    /\ payload' \in Delivered(filter)
    /\ result' = Nil
    /\ UNCHANGED filter

Next == CallFilter \/ NextPayload

Spec == Init /\ [][Next]_vars

-----------------------------------------------------------------------------
(* The filter's documented semantics, as reference definitions *)

\* Filter returned a response for an Ethereum payload inside the range.
Answered ==
    /\ result # Nil
    /\ result.err = Nil
    /\ result.response.BlockNumber # Nil

\* The transaction filter emits trx: it is on, and the source or the
\* destination of trx is asked for, or no address is.
TxEmitted(f, trx) ==
    /\ ~f.TxFilter.Off
    /\ \/ trx.Src \in f.TxFilter.Src
       \/ trx.Dst \in f.TxFilter.Dst
       \/ f.TxFilter.Src \cup f.TxFilter.Dst = {}

\* The topic match rule: every one of the four slots of the filter is empty
\* (or absent) or shares a topic with the same slot of the receipt.
TopicsMatch(wanted, actual) ==
    \A i \in 1..4 :
        i \in DOMAIN wanted => wanted[i] = {} \/ wanted[i] \cap actual[i] # {}

\* The receipt filter emits rct: it is the receipt of an emitted transaction
\* and MatchTxs joins the two filters, or its contract is asked for (or none
\* is) and its topics match.
ReceiptEmitted(f, p, rct) ==
    \/ /\ f.ReceiptFilter.MatchTxs
       /\ \E i \in DOMAIN p.Transactions :
              /\ p.Transactions[i].Hash = rct.TxHash
              /\ TxEmitted(f, p.Transactions[i])
    \/ /\ f.ReceiptFilter.Contracts = {} \/ rct.Contract \in f.ReceiptFilter.Contracts
       /\ TopicsMatch(f.ReceiptFilter.Topics, rct.Topics)

\* The state filter emits node: its key is the hash of an address asked for
\* (or none is), and it is a leaf unless intermediate nodes are asked for.
StateNodeEmitted(stateFilter, node) ==
    /\ \/ stateFilter.Addresses = {}
       \/ \E addr \in stateFilter.Addresses : node.Key = Keccak256Hash(addr)
    /\ node.Leaf \/ stateFilter.IntermediateNodes

\* The storage filter emits node of the account with state key stateKey: the
\* account and the storage key pass their lists, and the node is a leaf unless
\* intermediate nodes are asked for.
StorageNodeEmitted(storageFilter, stateKey, node) ==
    /\ \/ storageFilter.Addresses = {}
       \/ \E addr \in storageFilter.Addresses : stateKey = Keccak256Hash(addr)
    /\ \/ storageFilter.StorageKeys = {}
       \/ \E store \in storageFilter.StorageKeys : node.Key = HexToHash(store)
    /\ node.Leaf \/ storageFilter.IntermediateNodes

\* Every object of response r1 is an object of response r2.
Included(r1, r2) ==
    /\ \A field \in {"HeadersRlp", "UnclesRlp", "TransactionsRlp", "ReceiptsRlp"} :
           ToSet(r1[field]) \subseteq ToSet(r2[field])
    /\ DOMAIN r1.StateNodesRlp \subseteq DOMAIN r2.StateNodesRlp
    /\ \A stateKey \in DOMAIN r1.StorageNodesRlp :
           /\ stateKey \in DOMAIN r2.StorageNodesRlp
           /\ DOMAIN r1.StorageNodesRlp[stateKey]
                  \subseteq DOMAIN r2.StorageNodesRlp[stateKey]

\* The settings one step more permissive than f: one filter enabled, or one
\* flag that asks for more set.
Enabled(f) ==
    {[f EXCEPT ![name].Off = FALSE] :
        name \in {"HeaderFilter", "TxFilter", "ReceiptFilter",
                  "StateFilter", "StorageFilter"}}
    \cup {[f EXCEPT !.HeaderFilter.Uncles = TRUE],
          [f EXCEPT !.ReceiptFilter.MatchTxs = TRUE],
          [f EXCEPT !.StateFilter.IntermediateNodes = TRUE],
          [f EXCEPT !.StorageFilter.IntermediateNodes = TRUE]}

\* The settings f with one list of the receipt, state or storage filter, or
\* one slot of the topic filter, emptied.
Emptied(f) ==
    {[f EXCEPT !.ReceiptFilter.Contracts = {}],
     [f EXCEPT !.StateFilter.Addresses = {}],
     [f EXCEPT !.StorageFilter.Addresses = {}],
     [f EXCEPT !.StorageFilter.StorageKeys = {}]}
    \cup {[f EXCEPT !.ReceiptFilter.Topics[i] = {}] :
             i \in DOMAIN f.ReceiptFilter.Topics}

\* The settings f with one address list of the transaction filter emptied.
EmptiedTx(f) ==
    {[f EXCEPT !.TxFilter.Src = {}], [f EXCEPT !.TxFilter.Dst = {}]}

-----------------------------------------------------------------------------
(* Properties *)

\* Type invariant: Filter returns a StreamResponse value with every call, the
\* zero value StreamResponse{} together with every error (the two failed type
\* assertions of Filter).
TypeOK ==
    /\ filter \in Settings \cup ForeignSettings
    /\ payload \in Payloads \cup ForeignPayloads
    /\ result # Nil =>
          /\ DOMAIN result = {"response", "err"}
          /\ DOMAIN result.response = DOMAIN StreamResponse
          /\ result.response.BlockNumber \in Nat \cup {Nil}
          /\ result.err # Nil => result.response = StreamResponse
          /\ result.err # Nil <=>
                 filter \in ForeignSettings \/ payload \in ForeignPayloads

\* The receipts of a response are those the documented rule selects, in the
\* payload's order: the receipt of an emitted transaction under MatchTxs, or a
\* receipt whose contract and four topic slots pass (checkReceipts and
\* filterMatch, fed by the hashes filterTransactions collected).
ReceiptsAsSpecified ==
    Answered =>
        LET emitted(rct) == ReceiptEmitted(filter, payload, rct)
            kept == IF filter.ReceiptFilter.Off THEN <<>>
                    ELSE SelectSeq(payload.Receipts, emitted)
        IN  result.response.ReceiptsRlp = [i \in DOMAIN kept |-> Rlp(kept[i])]

\* The state nodes of a response are the nodes of the payload the documented
\* rule selects: a key is in the response exactly if a selected node has it,
\* and its value is the value of such a node (filterState and checkNodeKeys).
StateNodesAsSpecified ==
    Answered =>
        LET emitted == {payload.StateNodes[i] : i \in
                           {j \in DOMAIN payload.StateNodes :
                               /\ ~filter.StateFilter.Off
                               /\ StateNodeEmitted(filter.StateFilter,
                                                   payload.StateNodes[j])}}
            nodes == result.response.StateNodesRlp
        IN  /\ DOMAIN nodes = {node.Key : node \in emitted}
            /\ \A k \in DOMAIN nodes :
                   \E node \in emitted : node.Key = k /\ node.Value = nodes[k]

\* The storage nodes of a response are the nodes the documented rule selects,
\* intermediate nodes only when the subscriber asks for them (filterStorage).
StorageNodesAsSpecified ==
    Answered =>
        \A stateKey \in DOMAIN result.response.StorageNodesRlp :
            \A k \in DOMAIN result.response.StorageNodesRlp[stateKey] :
                \E i \in DOMAIN payload.StorageNodes[stateKey] :
                    /\ payload.StorageNodes[stateKey][i].Key = k
                    /\ StorageNodeEmitted(filter.StorageFilter, stateKey,
                                          payload.StorageNodes[stateKey][i])

\* Asking for more never yields less: with a filter enabled, a flag set, a
\* list of the receipt, state or storage filter emptied, or the last address
\* list of the transaction filter emptied, the response to the same payload
\* keeps every object it had (the empty-list cases of checkReceipts,
\* filterMatch, checkNodeKeys and checkTransactionAddrs, and the receipt join
\* on the transactions emitted).
MonotoneUnderRelaxation ==
    Answered =>
        \A g \in Enabled(filter) \cup Emptied(filter)
                 \cup {h \in EmptiedTx(filter) : h.TxFilter.Src \cup h.TxFilter.Dst = {}} :
            Included(result.response, FilterEth(g, payload))

=============================================================================
