---------------------------- MODULE BlockService ----------------------------
(***************************************************************************)
(* The content-addressed block store the fetchers read and the publishers  *)
(* write: the blockservice.BlockService of the IPFS node (GetBlock,        *)
(* GetBlocks) and the store behind the DAG putters (Add).  A block is      *)
(* identified by its cid and its bytes are a function of the cid, so the   *)
(* store is the set of cids it holds.                                      *)
(***************************************************************************)
EXTENDS Sequences, FiniteSets, SequencesExt

CONSTANTS
    CIDStrings,   \* the well-formed cid strings
    Nil           \* no block, no error

VARIABLE store    \* the cids of the blocks the store holds

\* cid.Decode: a cid of a well-formed string, an error of any other.
Decode(str) ==
    IF str \in CIDStrings
    THEN [cid |-> <<"cid", str>>, err |-> Nil]
    ELSE [cid |-> Nil, err |-> "invalid cid"]

\* Cid.String, the inverse of Decode.
String(c) == c[2]

\* Block.RawData: the bytes the cid is the hash of.
RawData(c) == <<"data", c[2]>>

AllCids == {<<"cid", str>> : str \in CIDStrings}

\* GetBlock: the block, or an error when the store does not hold it.
GetBlock(c) ==
    IF c \in store
    THEN [block |-> c, err |-> Nil]
    ELSE [block |-> Nil, err |-> "block not found"]

\* GetBlocks: what the channel it returns may deliver before it is closed:
\* blocks asked for that the store holds, each once, not necessarily all of
\* them, in any order.
GetBlocks(cids) ==
    UNION {SetToSeqs(S) : S \in SUBSET (ToSet(cids) \cap store)}

\* Add: putting a block twice is putting it once.
Add(c) == store' = store \cup {c}

=============================================================================
