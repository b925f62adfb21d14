----------------------------- MODULE DagPutters -----------------------------
(***************************************************************************)
(* The DAG putters of Bitcoin transactions and of Ethereum receipts,       *)
(* src/pkg/ipfs/dag_putters/btc_tx.go and eth_receipt.go.                  *)
(*                                                                         *)
(* DagPut takes a list of raw objects, makes the IPLD node of each and     *)
(* adds it to the IPFS node, and returns the cids in the order of the      *)
(* list.  It returns at the first object that has no node or cannot be     *)
(* added, with no cids; the nodes added before stay in the store.  DagPut  *)
(* is one action per turn of its loop, since the fetchers read the store   *)
(* while it runs.  The two putters differ in the type they accept and in   *)
(* the constructor of the node.                                            *)
(***************************************************************************)
EXTENDS Integers, Sequences, FiniteSets

CONSTANTS
    Raws,          \* what a caller may pass for raw: [type, objects]
    CidOf,         \* the cid string of the node of each object
    Unencodable,   \* the objects the constructor of the node fails on
    Nil

VARIABLES
    store,     \* the cids of the blocks the IPFS node holds
    putter,    \* the putter whose DagPut is under way
    raw,       \* its argument
    pc,        \* where it is
    cids,      \* its local variable cids
    done,      \* how many turns of its loop it has made
    result     \* what it returned: [cids, err]; Nil until it has

vars == <<store, putter, raw, pc, cids, done, result>>

BtcTxDagPutter == [accepts |-> "[]*btcutil.Tx", new |-> "NewBtcTx"]

EthReceiptDagPutter == [accepts |-> "types.Receipts", new |-> "NewReceipt"]

Putters == {BtcTxDagPutter, EthReceiptDagPutter}

\* ipld.NewBtcTx and ipld.NewReceipt: the node of an object, known by its
\* cid, or an error.
NewNode(object) ==
    IF object \in Unencodable
    THEN [cid |-> Nil, err |-> "no node"]
    ELSE [cid |-> <<"cid", CidOf[object]>>, err |-> Nil]

\* node.Cid().String()
String(cid) == cid[2]

\* return nil, err
Fail(err) ==
    /\ result' = [cids |-> Nil, err |-> err]
    /\ pc' = "done"
    /\ UNCHANGED <<store, cids, done>>

\* A fault of DagPut: the type of raw is not asserted.
DagPut_anyType(p, r) ==
    /\ pc = "idle"
    /\ putter' = p /\ raw' = r
    /\ cids' = [k \in DOMAIN r.objects |-> ""]
    /\ pc' = "range"
    /\ UNCHANGED <<store, done, result>>

\* The call: the type assertion and the allocation of cids.
DagPut(p, r) ==
    /\ pc = "idle"
    /\ putter' = p /\ raw' = r
    /\ IF r.type # p.accepts
       THEN Fail("expected input type")
       ELSE /\ cids' = [k \in DOMAIN r.objects |-> ""]
            /\ pc' = "range"
            /\ UNCHANGED <<store, done, result>>

\* A fault of DagPut: the error of Add is dropped.
Put_addUnchecked ==
    /\ pc = "range" /\ done < Len(raw.objects)
    /\ LET node == NewNode(raw.objects[done + 1])
       IN  IF node.err # Nil THEN Fail(node.err)
           ELSE /\ store' \in {store, store \cup {node.cid}}
                /\ cids' = [cids EXCEPT ![done + 1] = String(node.cid)]
                /\ done' = done + 1
                /\ UNCHANGED <<pc, result>>
    /\ UNCHANGED <<putter, raw>>

\* One turn of the loop: the node of the next object, and Add of it.
Put ==
    /\ pc = "range" /\ done < Len(raw.objects)
    /\ LET node == NewNode(raw.objects[done + 1])
       IN  IF node.err # Nil THEN Fail(node.err)
           ELSE \/ Fail("add")
                \/ /\ store' = store \cup {node.cid}
                   /\ cids' = [cids EXCEPT ![done + 1] = String(node.cid)]
                   /\ done' = done + 1
                   /\ UNCHANGED <<pc, result>>
    /\ UNCHANGED <<putter, raw>>

\* return cids, nil
ReturnCids ==
    /\ pc = "range" /\ done = Len(raw.objects)
    /\ result' = [cids |-> cids, err |-> Nil]
    /\ pc' = "done"
    /\ UNCHANGED <<store, putter, raw, cids, done>>

\* The caller has the result and is ready for its next call.
Return ==
    /\ pc = "done"
    /\ pc' = "idle"
    /\ result' = Nil
    /\ cids' = <<>>
    /\ done' = 0
    /\ UNCHANGED <<store, putter, raw>>

Init ==
    /\ store = {}
    /\ putter = Nil
    /\ raw = Nil
    /\ pc = "idle"
    /\ cids = <<>>
    /\ done = 0
    /\ result = Nil

PutStep == Put \/ ReturnCids

Next ==
    \/ \E p \in Putters, r \in Raws : DagPut(p, r)
    \/ PutStep
    \/ Return

Spec == Init /\ [][Next]_vars

-----------------------------------------------------------------------------
(* Properties *)

\* Type invariant: DagPut returns cids or an error, never both and never
\* neither, and cids only for a list of the type its putter accepts.
TypeOK ==
    /\ putter \in Putters \cup {Nil}
    /\ raw \in Raws \cup {Nil}
    /\ pc \in {"idle", "range", "done"}
    /\ done \in Nat
    /\ result # Nil <=> pc = "done"
    /\ result # Nil => (result.err = Nil <=> result.cids # Nil)
    /\ result # Nil /\ result.err = Nil => raw.type = putter.accepts

\* The cids DagPut returns are the cids of the objects of the list, one for
\* each object and in the order of the list, and the store holds the block of
\* every one of them (the loop fills cids[i] after Add of the i-th node has
\* succeeded, and returns at the first Add that fails).
CidsAreStored ==
    result # Nil /\ result.err = Nil =>
        /\ DOMAIN result.cids = DOMAIN raw.objects
        /\ \A k \in DOMAIN raw.objects :
              /\ result.cids[k] = CidOf[raw.objects[k]]
              /\ <<"cid", result.cids[k]>> \in store

=============================================================================
