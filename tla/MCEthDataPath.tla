--------------------------- MODULE MCEthDataPath ---------------------------
(***************************************************************************)
(* The model check of EthDataPath.  The fetcher is asked for a block with  *)
(* two transactions in one batch, two receipts, two state nodes with       *)
(* different keys and rows that are skipped, and for the requests that     *)
(* fail before any block is fetched.  The putters are given the receipts   *)
(* of that block, a list with a receipt that has no node, a list of two    *)
(* receipts with the same bytes, and a list of Bitcoin transactions.       *)
(***************************************************************************)
EXTENDS EthDataPath

MCCIDStrings == {"h", "u", "t1", "t2", "r1", "r2", "s1", "s2", "g", "x"}

Cid(str) == [CID |-> str]

Empty ==
    [BlockNumber |-> 1, Header |-> [CID |-> "h", TotalDifficulty |-> "2"],
     Uncles |-> <<>>, Transactions |-> <<>>, Receipts |-> <<>>,
     StateNodes |-> <<>>, StorageNodes |-> <<>>]

Full ==
    [Empty EXCEPT
        !.Uncles       = <<Cid("u")>>,
        !.Transactions = <<Cid("t1"), Cid("t2")>>,
        !.Receipts     = <<Cid("r1"), Cid("r2")>>,
        !.StateNodes   = <<[CID |-> "s1", StateKey |-> "k1"],
                           [CID |-> "",   StateKey |-> "k0"],
                           [CID |-> "s2", StateKey |-> "k2"]>>,
        !.StorageNodes = <<[CID |-> "g", StateKey |-> "k1", StorageKey |-> "sk"],
                           [CID |-> "g", StateKey |-> "",   StorageKey |-> "sk"]>>]

MCCIDWrappers ==
    {Empty, Full,
     [Empty EXCEPT !.Header.TotalDifficulty = ""],
     [Empty EXCEPT !.Header.CID = ""],
     [Empty EXCEPT !.Transactions = <<Cid("t1"), Cid("not a cid")>>],
     [Empty EXCEPT !.StateNodes = <<[CID |-> "not a cid", StateKey |-> "k1"]>>]}

\* The receipt "rct1again" has the bytes, and so the cid, of "rct1".
MCCidOf ==
    [object \in {"rct1", "rct1again", "rct2", "rctBad", "btcTx"} |->
        CASE object \in {"rct1", "rct1again"} -> "r1"
          [] object = "rct2"                  -> "r2"
          [] object = "btcTx"                 -> "x"
          [] OTHER                            -> ""]

MCUnencodable == {"rctBad"}

MCRaws ==
    {[type |-> "types.Receipts", objects |-> <<"rct1", "rct2">>],
     [type |-> "types.Receipts", objects |-> <<"rct1", "rctBad">>],
     [type |-> "types.Receipts", objects |-> <<"rct1", "rct1again">>],
     [type |-> "[]*btcutil.Tx",  objects |-> <<"btcTx">>]}

=============================================================================
