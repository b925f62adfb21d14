------------------------------ MODULE MCWatch ------------------------------
(***************************************************************************)
(* The settings of the model check of Watch: every combination of the      *)
(* three toggles under every chain and store mode with the right clients   *)
(* and every constructor succeeding, and each of these with one thing      *)
(* wrong: an unknown chain or mode, a client of the other chain's type, or *)
(* one of the fallible constructors failing.                               *)
(***************************************************************************)
EXTENDS Watch

\* The chains, store modes and client types of builders.go
MCChains == {"Ethereum", "Bitcoin", "UnknownChain"}
MCModes == {"Unknown", "LocalInterface", "RemoteClient", "DirectPostgres"}
MCClients == {"*rpc.Client", "*rpcclient.ConnConfig"}

\* The type of client the streamer and fetcher of a chain take
MCClientOf(chain) == IF chain = "Ethereum" THEN "*rpc.Client" ELSE "*rpcclient.ConnConfig"

Sound(s) ==
    [chain  |-> s.Chain # "UnknownChain",
     mode   |-> s.IPFSMode # "Unknown",
     ws     |-> s.WSClient = MCClientOf(s.Chain),
     http   |-> s.HTTPClient = MCClientOf(s.Chain),
     ipfs   |-> s.ipfs,
     api    |-> s.backend,
     dial   |-> s.dial]

MCSettings ==
    {s \in [Chain : MCChains, IPFSMode : MCModes,
             Serve : BOOLEAN, Sync : BOOLEAN, BackFill : BOOLEAN,
             WSClient : MCClients, HTTPClient : MCClients,
             ipfs : BOOLEAN, backend : BOOLEAN, dial : BOOLEAN] :
        Cardinality({w \in DOMAIN Sound(s) : ~Sound(s)[w]}) <= 1}

=============================================================================
