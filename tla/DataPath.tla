------------------------------ MODULE DataPath ------------------------------
(***************************************************************************)
(* What the path from publisher to index promises, whatever the chain and  *)
(* the store mode: the block store and the index only grow, and a manifest *)
(* enters the index only when the store holds every block it names.  With  *)
(* the external store the blocks are put one at a time and the manifest is *)
(* inserted afterwards; with the direct store both happen in one database  *)
(* transaction.  A put that is not followed by an insert leaves blocks no  *)
(* manifest names, which is allowed.                                       *)
(*                                                                         *)
(* BtcDataPath implements this specification.                              *)
(***************************************************************************)
CONSTANTS
    Cids,          \* the cids of the blocks that may be put
    Manifests,     \* the manifests that may be inserted
    CidsOf(_)      \* the cids a manifest names

VARIABLES
    store,    \* the cids of the blocks the store holds
    index     \* the manifests the index holds

vars == <<store, index>>

Init == store = {} /\ index = {}

\* BlockStore.Put
Put(c) ==
    /\ store' = store \cup {c}
    /\ UNCHANGED index

\* Index.Insert, external store
Insert(m) ==
    /\ CidsOf(m) \subseteq store
    /\ index' = index \cup {m}
    /\ UNCHANGED store

\* Put and Insert in one transaction, direct store
Transaction(m) ==
    /\ store' = store \cup CidsOf(m)
    /\ index' = index \cup {m}

Next ==
    \/ \E c \in Cids : Put(c)
    \/ \E m \in Manifests : Insert(m) \/ Transaction(m)

Spec == Init /\ [][Next]_vars

\* Every block a manifest of the index names is in the store.
Complete == \A m \in index : CidsOf(m) \subseteq store

=============================================================================
