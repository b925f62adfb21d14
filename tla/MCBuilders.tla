----------------------------- MODULE MCBuilders -----------------------------
(***************************************************************************)
(* The settings of the model checks of Builders: every chain and mode, the *)
(* unknown ones included, every combination of the three switches, either  *)
(* type of client, and each fallible constructor succeeding or failing.    *)
(***************************************************************************)
EXTENDS Builders

MCSettings ==
    [Chain : Chains, IPFSMode : IPFSModes,
     Sync : BOOLEAN, Serve : BOOLEAN, BackFill : BOOLEAN,
     WSClient : ClientTypes, HTTPClient : ClientTypes,
     ipfs : BOOLEAN, backend : BOOLEAN, dial : BOOLEAN]

=============================================================================
