--------------------------- MODULE SuperNodeConfig ---------------------------
(***************************************************************************)
(* The configuration of the super nodes of one process,                    *)
(* src/pkg/super_node/shared/config.go.                                    *)
(*                                                                         *)
(* NewSuperNodeConfigs reads the settings (viper) and makes one config for *)
(* every chain the settings name, dialling the chain's node and opening    *)
(* the database on the way.  The loop over the chains is one step a chain; *)
(* what a step reads of the world (whether a dial succeeds, whether the    *)
(* home directory is known, whether the database opens) is part of the     *)
(* settings record, fixed when the process starts.  Paths, credentials and *)
(* node descriptions are values of small sets.                             *)
(***************************************************************************)
EXTENDS Integers, Sequences, FiniteSets

CONSTANTS
    Vipers,   \* the settings and surroundings a process may start with
    Width,    \* the bits of an integer of the settings (64 in the program)
    Nil

VARIABLES
    viper,      \* the settings of this start
    ipfsPath,   \* the local variable ipfsPath
    i,          \* the index of the chain the loop is at; 0 before the loop
    configs,    \* the local variable configs
    err,        \* the local variable err declared before the loop
    returned    \* what NewSuperNodeConfigs returned; Nil until it has

vars == <<viper, ipfsPath, i, configs, err, returned>>

\* The batch size of the settings is an integer of Width bits.
ASSUME /\ Width \in Nat \ {0}
       /\ \A v \in Vipers : v.batchSize \in -(2^(Width - 1)) .. 2^(Width - 1) - 1

Second == 1
\* uint64(n) of an int64 n: the same bits, read without a sign
Uint64(n) == n % (2^Width)

-----------------------------------------------------------------------------
NewChainType(name) ==
    CASE name \in {"ethereum", "eth"} -> [val |-> "Ethereum", err |-> Nil]
      [] name \in {"bitcoin", "btc"}  -> [val |-> "Bitcoin", err |-> Nil]
      [] OTHER -> [val |-> "UnknownChain", err |-> "invalid chain type"]

\* new(SuperNodeConfig) with the fields set before the tests of Sync and
\* Serve: the chain, the database and the two switches of this chain.
NewConfig(chain) ==
    [Chain |-> NewChainType(chain).val, IPFSPath |-> ipfsPath, DBConfig |-> chain,
     DB |-> Nil, Quit |-> Nil,
     Serve |-> viper.on[chain].server, WSEndpoint |-> "", HTTPEndpoint |-> "",
     IPCEndpoint |-> "",
     Sync |-> viper.on[chain].sync, Workers |-> 0, WSClient |-> Nil, NodeInfo |-> Nil,
     BackFill |-> FALSE, HTTPClient |-> Nil, Frequency |-> 0, BatchSize |-> 0]

\* rpc.Dial and what is built on the connection
getEthNodeAndClient(reachable) ==
    IF reachable THEN [node |-> "ethNode", client |-> "rpcClient", err |-> Nil]
                 ELSE [node |-> Nil, client |-> Nil, err |-> "dial"]

ConnConfig(host) == <<"ConnConfig", host>>

\* A fault of the defaults: an empty path stays empty.
OrDefault_never(path, default) == path

OrDefault(path, default) == IF path = "" THEN default ELSE path

\* if sn.Sync { ... }: the workers and the client of the chain's node.  The
\* error of the dial is assigned to the function's err and not tested.
SyncFields(sn) ==
    LET dial == getEthNodeAndClient(viper.dials.ws)
        w    == [sn EXCEPT !.Workers = IF viper.workers < 1 THEN 1 ELSE viper.workers]
    IN  CASE ~sn.Sync -> [sn |-> sn, err |-> Nil]
          [] sn.Sync /\ sn.Chain = "Ethereum" ->
                [sn  |-> [w EXCEPT !.NodeInfo = dial.node, !.WSClient = dial.client],
                 err |-> dial.err]
          [] sn.Sync /\ sn.Chain = "Bitcoin" ->
                [sn  |-> [w EXCEPT !.NodeInfo = "btcNode", !.WSClient = ConnConfig("ws")],
                 err |-> Nil]

\* if sn.Serve { ... }: the three endpoints, each with its default
ServeFields(chain, sn) ==
    CASE ~sn.Serve -> [sn |-> sn, err |-> Nil]
      [] sn.Serve /\ viper.ipcPath[chain] = "" /\ ~viper.home ->
            [sn |-> sn, err |-> "home"]
      [] OTHER ->
            [sn |-> [sn EXCEPT
                       !.WSEndpoint = OrDefault(viper.wsPath[chain], "ws://127.0.0.1:8546"),
                       !.IPCEndpoint = OrDefault(viper.ipcPath[chain], "~/.vulcanize/vulcanize.ipc"),
                       !.HTTPEndpoint = OrDefault(viper.httpPath[chain], "http://127.0.0.1:8545")],
             err |-> Nil]

Frequency(freq) == IF freq <= 0 THEN Second * 30 ELSE Second * freq

\* A fault of BackFillFields: the error of the dial is not tested.
BackFillFields_dialUntested(sn) ==
    [sn  |-> [sn EXCEPT !.BackFill = TRUE,
                        !.HTTPClient = getEthNodeAndClient(viper.dials.http).client,
                        !.Frequency = Frequency(viper.frequency),
                        !.BatchSize = Uint64(viper.batchSize)],
     err |-> Nil]

\* BackFillFields sets BackFill before anything can fail.
BackFillFields(sn) ==
    LET dial   == getEthNodeAndClient(viper.dials.http)
        on     == [sn EXCEPT !.BackFill = TRUE]
        client == IF sn.Chain = "Ethereum" THEN dial.client ELSE ConnConfig("http")
    IN  IF sn.Chain = "Ethereum" /\ dial.err # Nil
        THEN [sn |-> on, err |-> dial.err]
        ELSE [sn  |-> [on EXCEPT !.HTTPClient = client,
                                 !.Frequency = Frequency(viper.frequency),
                                 !.BatchSize = Uint64(viper.batchSize)],
              err |-> Nil]

-----------------------------------------------------------------------------
Return(cs, e) ==
    /\ returned' = [configs |-> cs, err |-> e]
    /\ UNCHANGED <<viper, ipfsPath, i, configs, err>>

Init ==
    /\ viper \in Vipers
    /\ ipfsPath = Nil
    /\ i = 0
    /\ configs = [k \in DOMAIN viper.chains |-> Nil]
    /\ err = Nil
    /\ returned = Nil

\* The statements before the loop: the path of the ipfs repository.
ResolveIPFSPath ==
    /\ returned = Nil /\ i = 0
    /\ IF viper.ipfsPath = "" /\ ~viper.home
       THEN Return(Nil, "home")
       ELSE /\ ipfsPath' = OrDefault(viper.ipfsPath, "~/.ipfs")
            /\ i' = 1
            /\ UNCHANGED <<viper, configs, err, returned>>

\* A fault of the loop: every config is put in the first slot.
Store_firstSlot(k, sn, e) ==
    /\ configs' = [configs EXCEPT ![1] = sn]
    /\ err' = e
    /\ i' = k + 1
    /\ UNCHANGED <<viper, ipfsPath, returned>>

\* configs[i] = sn, and the loop goes on with the err the body left.
Store(k, sn, e) ==
    /\ configs' = [configs EXCEPT ![k] = sn]
    /\ err' = e
    /\ i' = k + 1
    /\ UNCHANGED <<viper, ipfsPath, returned>>

\* utils.LoadPostgres: the database, or the end of the process (which the
\* model records as a return without configs).
LoadPostgres(sn) == IF viper.db THEN <<"DB", sn.DBConfig, sn.NodeInfo>> ELSE Nil

\* One pass of the loop body, for the chain at i.
Chain ==
    /\ returned = Nil /\ i \in DOMAIN viper.chains
    /\ LET chain == viper.chains[i]
           sync  == SyncFields(NewConfig(chain))
           serve == ServeFields(chain, sync.sn)
           db    == [serve.sn EXCEPT !.DB = LoadPostgres(serve.sn), !.Quit = "chan"]
           back  == BackFillFields(db)
       IN  CASE NewChainType(chain).err # Nil -> Return(Nil, NewChainType(chain).err)
             [] OTHER ->
                CASE serve.err # Nil -> Return(Nil, serve.err)
                  [] serve.err = Nil /\ db.DB = Nil -> Return(Nil, "log.Fatalf")
                  [] serve.err = Nil /\ db.DB # Nil /\ ~viper.on[chain].backFill ->
                        Store(i, db, sync.err)
                  [] OTHER ->
                        IF back.err # Nil THEN Return(Nil, back.err)
                                          ELSE Store(i, back.sn, sync.err)

\* return configs, err
ReturnConfigs ==
    /\ returned = Nil /\ i > Len(viper.chains)
    /\ Return(configs, err)

Next == ResolveIPFSPath \/ Chain \/ ReturnConfigs

Spec == Init /\ [][Next]_vars

-----------------------------------------------------------------------------
(* Properties *)

Configured == returned # Nil /\ returned.err = Nil

\* Type invariant: the loop index stays within the list of chains, a config
\* is stored for every chain the loop has passed, and what is returned is
\* an error, or a config for every chain.
TypeOK ==
    /\ i \in 0..Len(viper.chains) + 1
    /\ DOMAIN configs = DOMAIN viper.chains
    /\ \A k \in DOMAIN configs : configs[k] # Nil <=> k < i
    /\ Configured => returned.configs = configs /\ i = Len(viper.chains) + 1

\* Every config returned is the config of the chain at its place in the
\* settings' list, with that chain's own switches and endpoints (the keys
\* built with fmt.Sprintf from the chain's name), an endpoint left empty
\* having its default.
ConfigsFollowSettings ==
    Configured =>
        \A k \in DOMAIN viper.chains :
            LET chain == viper.chains[k]  sn == returned.configs[k] IN
            /\ sn.Chain = NewChainType(chain).val
            /\ sn.Serve = viper.on[chain].server
            /\ sn.Sync = viper.on[chain].sync
            /\ sn.BackFill = viper.on[chain].backFill
            /\ sn.Serve => /\ "" \notin {sn.WSEndpoint, sn.IPCEndpoint, sn.HTTPEndpoint}
                           /\ viper.ipcPath[chain] # "" => sn.IPCEndpoint = viper.ipcPath[chain]

\* A config with BackFill on can be back-filled with: it has the client of
\* the chain's node, a frequency of at least a second, and the batch size
\* of the settings when that is not negative (BackFillFields).
BackFillReady ==
    Configured =>
        \A k \in DOMAIN viper.chains :
            LET sn == returned.configs[k] IN
            sn.BackFill =>
                /\ sn.HTTPClient # Nil
                /\ sn.Frequency >= Second
                /\ viper.batchSize >= 0 => sn.BatchSize = viper.batchSize

\* A config with Sync on can be synced with: it has the client of the
\* chain's node, so that a node that cannot be dialled is an error of
\* NewSuperNodeConfigs (the err of getEthNodeAndClient in the loop).
SyncReady ==
    Configured =>
        \A k \in DOMAIN viper.chains :
            returned.configs[k].Sync => returned.configs[k].WSClient # Nil

=============================================================================
