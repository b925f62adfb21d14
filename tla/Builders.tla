------------------------------ MODULE Builders ------------------------------
(***************************************************************************)
(* The constructors of the components of a super node,                     *)
(* src/pkg/builders/builders.go.                                           *)
(*                                                                         *)
(* Every constructor chooses an implementation by the chain, and some by   *)
(* the mode of the block store as well: with LocalInterface and            *)
(* RemoteClient blocks go to an IPFS node and their cids to Postgres, with *)
(* DirectPostgres one object publishes and indexes in one database         *)
(* transaction.  A component is the package and the type of what was       *)
(* constructed.  The service that calls the constructors with its settings *)
(* is outside the repository's sources; the model calls, in a fixed order, *)
(* the constructors of what the switches of the settings turn on, and      *)
(* keeps what each of them returned.                                       *)
(***************************************************************************)
EXTENDS Integers, Sequences, FiniteSets

CONSTANTS
    Settings,   \* the settings a service may be constructed with
    Nil

VARIABLES
    settings,   \* the settings of this service
    sn,         \* what the constructors called so far returned, by field
    todo        \* the fields still to construct

vars == <<settings, sn, todo>>

Chains == {"Ethereum", "Bitcoin", "UnknownChain"}
IPFSModes == {"Unknown", "LocalInterface", "RemoteClient", "DirectPostgres"}
ClientTypes == {"*rpc.Client", "*rpcclient.ConnConfig"}

-----------------------------------------------------------------------------
Ok(pkg, type) == [val |-> [pkg |-> pkg, type |-> type], err |-> Nil]
Invalid(what) == [val |-> Nil, err |-> what]

Pkg(chain) == IF chain = "Ethereum" THEN "eth" ELSE "btc"
Known(chain) == chain \in {"Ethereum", "Bitcoin"}
ClientOf(chain) == IF chain = "Ethereum" THEN "*rpc.Client" ELSE "*rpcclient.ConnConfig"

\* switch chain { case Ethereum: ... case Bitcoin: ... default: error }
ByChain(chain, built) ==
    IF Known(chain) THEN built ELSE Invalid("invalid chain")

\* the same with a switch on the ipfs mode inside each case
ByMode(chain, ipfsMode, external, direct) ==
    CASE ipfsMode \in {"LocalInterface", "RemoteClient"} -> ByChain(chain, external)
      [] ipfsMode = "DirectPostgres" -> ByChain(chain, direct)
      [] OTHER -> ByChain(chain, Invalid("unexpected ipfs mode"))

\* the same with an assertion of the client's type inside each case
ByClient(chain, client, built) ==
    ByChain(chain, IF client = ClientOf(chain) THEN built
                   ELSE Invalid("constructor expected client type"))

\* a constructor of the chain's package that can fail itself
Try(ok, chain, type) == IF ok THEN Ok(Pkg(chain), type) ELSE Invalid(type)

NewResponseFilterer(chain) == ByChain(chain, Ok(Pkg(chain), "ResponseFilterer"))

\* A fault of NewCIDIndexer: the indexer of the external store in every mode.
NewCIDIndexer_alwaysExternal(chain, ipfsMode) ==
    ByMode(chain, ipfsMode, Ok(Pkg(chain), "CIDIndexer"), Ok(Pkg(chain), "CIDIndexer"))

\* Both chains get eth.NewIPLDPublisherAndIndexer for DirectPostgres.
NewCIDIndexer(chain, ipfsMode) ==
    ByMode(chain, ipfsMode, Ok(Pkg(chain), "CIDIndexer"),
           Ok("eth", "IPLDPublisherAndIndexer"))

NewCIDRetriever(chain) == ByChain(chain, Ok(Pkg(chain), "CIDRetriever"))

NewPayloadStreamer(chain, clientOrConfig) ==
    ByClient(chain, clientOrConfig, Ok(Pkg(chain), "PayloadStreamer"))

NewPaylaodFetcher(chain, client, ok) ==
    ByClient(chain, client,
             IF chain = "Bitcoin" THEN Try(ok, chain, "PayloadFetcher")
                                  ELSE Ok("eth", "PayloadFetcher"))

NewPayloadConverter(chain) == ByChain(chain, Ok(Pkg(chain), "PayloadConverter"))

\* ipfs.InitIPFSBlockService and ipfs.InitIPFSNode open the repository at
\* ipfsPath, or fail.
InitIPFS(ipfs) == IF ipfs THEN Ok("ipfs", "repository") ELSE Invalid("ipfs repository")

\* The constructors of the chains' packages that open the repository: nil and
\* the error, or the component over what was opened.
OverIPFS(pkg, type, ipfs) ==
    IF InitIPFS(ipfs).err # Nil THEN Invalid(InitIPFS(ipfs).err) ELSE Ok(pkg, type)

EthNewIPLDFetcher(ipfs) == OverIPFS("eth", "IPLDFetcher", ipfs)

BtcNewIPLDFetcher(ipfs) == OverIPFS("btc", "IPLDFetcher", ipfs)

EthNewIPLDPublisher(ipfs) == OverIPFS("eth", "IPLDPublisher", ipfs)

\* The three putters of the Bitcoin publisher are made over the one node.
BtcNewIPLDPublisher(ipfs) == OverIPFS("btc", "IPLDPublisher", ipfs)

NewIPLDFetcher(chain, ipfs, ipfsMode) ==
    ByMode(chain, ipfsMode,
           IF chain = "Ethereum" THEN EthNewIPLDFetcher(ipfs) ELSE BtcNewIPLDFetcher(ipfs),
           Ok(Pkg(chain), "IPLDPGFetcher"))

NewIPLDPublisher(chain, ipfs, ipfsMode) ==
    ByMode(chain, ipfsMode,
           IF chain = "Ethereum" THEN EthNewIPLDPublisher(ipfs) ELSE BtcNewIPLDPublisher(ipfs),
           Ok(Pkg(chain), "IPLDPublisherAndIndexer"))

\* Only Ethereum has a public API; the zero rpc.API comes with every error.
NewPublicAPI(chain, backend) ==
    IF chain = "Ethereum" THEN Try(backend, chain, "PublicEthAPI")
                          ELSE Invalid("invalid chain")

NewCleaner(chain) == ByChain(chain, Ok(Pkg(chain), "Cleaner"))

-----------------------------------------------------------------------------
(* The service: NewSuperNode, NewBackFillService, APIs and the resync. *)

SyncFields == <<"Streamer", "Converter", "Publisher", "Indexer", "Filterer">>
ServeFields == <<"Retriever", "IPLDFetcher">>
APIFields == <<"API">>
BackFillFields == <<"PayloadFetcher", "Cleaner">>
Fields == SyncFields \o ServeFields \o APIFields \o BackFillFields

Construct(field) ==
    LET s == settings IN
    CASE field = "Streamer"       -> NewPayloadStreamer(s.Chain, s.WSClient)
      [] field = "Converter"      -> NewPayloadConverter(s.Chain)
      [] field = "Publisher"      -> NewIPLDPublisher(s.Chain, s.ipfs, s.IPFSMode)
      [] field = "Indexer"        -> NewCIDIndexer(s.Chain, s.IPFSMode)
      [] field = "Filterer"       -> NewResponseFilterer(s.Chain)
      [] field = "Retriever"      -> NewCIDRetriever(s.Chain)
      [] field = "IPLDFetcher"    -> NewIPLDFetcher(s.Chain, s.ipfs, s.IPFSMode)
      [] field = "API"            -> NewPublicAPI(s.Chain, s.backend)
      [] field = "PayloadFetcher" -> NewPaylaodFetcher(s.Chain, s.HTTPClient, s.dial)
      [] field = "Cleaner"        -> NewCleaner(s.Chain)

\* What NewSuperNode constructs.
ServiceFields(s) ==
    (IF s.Sync THEN SyncFields ELSE <<>>) \o (IF s.Serve THEN ServeFields ELSE <<>>)

Wanted(s) ==
    ServiceFields(s) \o (IF s.Serve THEN APIFields ELSE <<>>)
        \o (IF s.BackFill THEN BackFillFields ELSE <<>>)

Init ==
    /\ settings \in Settings
    /\ sn = <<>>
    /\ todo = Wanted(settings)

\* The constructor of the next field is called; its caller returns the error
\* of one that fails and calls no other.
ConstructNext ==
    /\ todo # <<>>
    /\ sn' = [f \in DOMAIN sn \cup {Head(todo)} |->
                 IF f = Head(todo) THEN Construct(f) ELSE sn[f]]
    /\ todo' = IF Construct(Head(todo)).err = Nil THEN Tail(todo) ELSE <<>>
    /\ UNCHANGED settings

\* The process constructs the service of its next chain.
NextService ==
    /\ todo = <<>>
    /\ settings' \in Settings
    /\ sn' = <<>>
    /\ todo' = Wanted(settings')

Next == ConstructNext \/ NextService

Spec == Init /\ [][Next]_vars

-----------------------------------------------------------------------------
(* Properties *)

Built == {f \in DOMAIN sn : sn[f].err = Nil}

\* Type invariant: a constructor returns a component of one of the two
\* packages or an error, and never both or neither.
TypeOK ==
    /\ DOMAIN sn \subseteq {Fields[k] : k \in DOMAIN Fields}
    /\ \A f \in DOMAIN sn : (sn[f].val = Nil) # (sn[f].err = Nil)
    /\ \A f \in Built : sn[f].val.pkg \in {"eth", "btc"}

\* The components of a service agree on where blocks are kept: with
\* DirectPostgres the publisher and the indexer are the one object that does
\* both and the fetcher reads Postgres; in the other modes publisher,
\* indexer and fetcher are the ones of the IPFS node (the inner switches of
\* NewIPLDPublisher, NewCIDIndexer and NewIPLDFetcher).
StoreOf(f) ==
    CASE sn[f].val.type \in {"IPLDPublisherAndIndexer", "IPLDPGFetcher"} -> "DirectPostgres"
      [] sn[f].val.type \in {"IPLDPublisher", "CIDIndexer", "IPLDFetcher"} -> "IPFS"

OneStore ==
    \A f, g \in Built \cap {"Publisher", "Indexer", "IPLDFetcher"} :
        /\ StoreOf(f) = StoreOf(g)
        /\ StoreOf(f) = "DirectPostgres" <=> settings.IPFSMode = "DirectPostgres"

\* Every component of a service is the implementation for the service's
\* chain (the outer switch of every constructor).
OneChain ==
    \A f \in Built : sn[f].val.pkg = Pkg(settings.Chain)

=============================================================================
