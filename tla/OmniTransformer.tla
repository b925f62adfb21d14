--------------------------- MODULE OmniTransformer ---------------------------
(***************************************************************************)
(* The contract watcher of a fully synced database,                        *)
(* src/pkg/omni/full/transformer/transformer.go.                           *)
(*                                                                         *)
(* A caller names the contracts and events to watch with the setters,      *)
(* calls Init, which makes a Contract and its log filters for every        *)
(* address with watched events, and then Execute, which converts and       *)
(* stores the logs each filter found.  Init and Execute range over Go maps,*)
(* so the order of the contracts is any order, and each may fail at any    *)
(* of its calls to the parser, the retriever, the repositories or the      *)
(* poller, leaving what it had done so far.  One step of the model is one  *)
(* pass of the outer loop.  An ABI, a log and a filter are abstract: every *)
(* contract has the events Events, and a filter is an address and an event.*)
(***************************************************************************)
EXTENDS Integers, Sequences, FiniteSets, FiniteSetsExt, TLC

CONSTANTS
    Addresses,    \* contract addresses as callers write them
    Lower,        \* strings.ToLower on Addresses
    Events,       \* the events of a contract's ABI
    Starts,       \* the starting blocks callers ask for
    FirstBlock,   \* the first block of each contract in the header repository
    Options,      \* the per-contract switches and lists besides the events
    Nil

ASSUME /\ Lower \in [Addresses -> Addresses]
       /\ \A a \in Addresses : Lower[Lower[a]] = Lower[a]

VARIABLES
    WatchedEvents,   \* t.WatchedEvents: address -> events of interest
    ContractStart,   \* t.ContractStart: address -> starting block
    options,         \* the other maps of the transformer: option -> addresses set
    Contracts,       \* t.Contracts: address -> initialized contract
    filters,         \* the filter repository
    converter,       \* the address of the contract the converter holds
    logs,            \* the event repository: what PersistLogs stored
    call,            \* the call in progress: its name and the contracts left
    result           \* the error of the last call that returned

vars == <<WatchedEvents, ContractStart, options, Contracts, filters, converter,
          logs, call, result>>

config == <<WatchedEvents, ContractStart, options>>

-----------------------------------------------------------------------------
\* m[k] of a Go map: the zero value when the key is absent
Lookup(m, k, zero) == IF k \in DOMAIN m THEN m[k] ELSE zero

\* m[k] = v
Put(m, k, v) == [x \in DOMAIN m \cup {k} |-> IF x = k THEN v ELSE m[x]]

\* A fault of the setters: the address is the key as it was written.
Key_asWritten(contractAddr) == contractAddr

Key(contractAddr) == Lower[contractAddr]

\* Parser.GetEvents: the events of the ABI named, or all when none is named
GetEvents(subset) == IF subset = {} THEN Events ELSE subset \cap Events

\* A fault of Init: the comparison of the two blocks the other way round.
StartingBlock_earlier(firstBlock, start) == Min({firstBlock, start})

\* if firstBlock < t.ContractStart[contractAddr] { firstBlock = ... }
StartingBlock(firstBlock, start) == Max({firstBlock, start})

\* The Contract that Init aggregates for an address, with its filters.
Info(contractAddr) ==
    LET start  == Lookup(ContractStart, contractAddr, 0)
        events == GetEvents(WatchedEvents[contractAddr])
    IN  [Address       |-> contractAddr,
         StartingBlock |-> StartingBlock(FirstBlock[contractAddr], start),
         Events        |-> events,
         Options       |-> {o \in Options : contractAddr \in options[o]},
         Filters       |-> {<<contractAddr, e>> : e \in events}]

Idle == call = Nil

Begin(name, todo) ==
    call' = [name |-> name, todo |-> todo] /\ UNCHANGED result

ReturnErr(e) == call' = Nil /\ result' = e

-----------------------------------------------------------------------------
(* The setters *)

SetEvents(contractAddr, filterSet) ==
    /\ Idle
    /\ WatchedEvents' = Put(WatchedEvents, Key(contractAddr), filterSet)
    /\ UNCHANGED <<ContractStart, options, Contracts, filters, converter, logs,
                   call, result>>

SetStartingBlock(contractAddr, start) ==
    /\ Idle
    /\ ContractStart' = Put(ContractStart, Key(contractAddr), start)
    /\ UNCHANGED <<WatchedEvents, options, Contracts, filters, converter, logs,
                   call, result>>

\* SetEventArgs, SetMethods, SetMethodArgs, SetCreateAddrList,
\* SetCreateHashList and SetPiping: an option of a contract, set or unset.
SetOption(o, contractAddr, on) ==
    /\ Idle
    /\ options' = [options EXCEPT ![o] =
                      IF on THEN @ \cup {Key(contractAddr)} ELSE @ \ {Key(contractAddr)}]
    /\ UNCHANGED <<WatchedEvents, ContractStart, Contracts, filters, converter,
                   logs, call, result>>

-----------------------------------------------------------------------------
(* Init *)

\* A fault of Init: the contracts it made in an earlier call are passed over.
BeginInit_onlyNew ==
    /\ Idle
    /\ Begin("Init", DOMAIN WatchedEvents \ DOMAIN Contracts)
    /\ UNCHANGED <<config, Contracts, filters, converter, logs>>

BeginInit ==
    /\ Idle
    /\ Begin("Init", DOMAIN WatchedEvents)
    /\ UNCHANGED <<config, Contracts, filters, converter, logs>>

\* A fault of Init: the contract is stored before its filters are created.
CreateFilterFails_contractStored(contractAddr) ==
    /\ \E created \in SUBSET Info(contractAddr).Filters \ {Info(contractAddr).Filters} :
           filters' = filters \cup created
    /\ Contracts' = Put(Contracts, contractAddr, Info(contractAddr))
    /\ ReturnErr("CreateFilter")

\* CreateFilter fails at some filter, after the ones before it were created.
CreateFilterFails(contractAddr) ==
    /\ \E created \in SUBSET Info(contractAddr).Filters \ {Info(contractAddr).Filters} :
           filters' = filters \cup created
    /\ ReturnErr("CreateFilter")
    /\ UNCHANGED Contracts

\* One pass of Init's loop: it returns the error of the parser, of the
\* retriever or of GenerateFilters, or of CreateFilter, or stores the contract.
InitContract(contractAddr) ==
    /\ ~Idle /\ call.name = "Init" /\ contractAddr \in call.todo
    /\ \/ /\ \E e \in {"Parse", "RetrieveFirstBlock", "RetrieveMostRecentBlock",
                      "GenerateFilters"} : ReturnErr(e)
          /\ UNCHANGED <<Contracts, filters>>
       \/ CreateFilterFails(contractAddr)
       \/ /\ filters' = filters \cup Info(contractAddr).Filters
          /\ Contracts' = Put(Contracts, contractAddr, Info(contractAddr))
          /\ Begin("Init", call.todo \ {contractAddr})
    /\ UNCHANGED <<config, converter, logs>>

-----------------------------------------------------------------------------
(* Execute *)

BeginExecute ==
    /\ Idle
    /\ IF DOMAIN Contracts = {}
       THEN ReturnErr("no initialized contracts")
       ELSE Begin("Execute", DOMAIN Contracts)
    /\ UNCHANGED <<config, Contracts, filters, converter, logs>>

\* A fault of Execute: the converter is not updated with the contract.
Update_skipped(contractAddr) == UNCHANGED converter

\* tr.Update(con)
Update(contractAddr) == converter' = contractAddr

\* One pass of Execute's outer loop: the logs of some of the contract's
\* filters are converted by the converter and persisted (a log the converter
\* answers nil for is skipped); the pass ends with an error of
\* GetWatchedEvents, Convert, PersistLogs or PollContract, or goes on.
ExecuteContract(contractAddr) ==
    /\ ~Idle /\ call.name = "Execute" /\ contractAddr \in call.todo
    /\ Update(contractAddr)
    /\ \E persisted \in SUBSET Contracts[contractAddr].Filters :
           logs' = logs \cup {[filter |-> f, contract |-> converter'] : f \in persisted}
    /\ \/ \E e \in {"GetWatchedEvents", "Convert", "PersistLogs", "PollContract"} :
              ReturnErr(e)
       \/ Begin("Execute", call.todo \ {contractAddr})
    /\ UNCHANGED <<config, Contracts, filters>>

\* return nil, of Init and of Execute
Return ==
    /\ ~Idle /\ call.todo = {}
    /\ ReturnErr(Nil)
    /\ UNCHANGED <<config, Contracts, filters, converter, logs>>

-----------------------------------------------------------------------------
Init ==
    /\ WatchedEvents = <<>> /\ ContractStart = <<>>
    /\ options = [o \in Options |-> {}]
    /\ Contracts = <<>>
    /\ filters = {} /\ logs = {}
    /\ converter = Nil
    /\ call = Nil /\ result = Nil

Next ==
    \/ \E a \in Addresses :
          \/ \E es \in SUBSET Events : SetEvents(a, es)
          \/ \E s \in Starts : SetStartingBlock(a, s)
          \/ \E o \in Options, on \in BOOLEAN : SetOption(o, a, on)
    \/ BeginInit \/ BeginExecute \/ Return
    \/ \E a \in DOMAIN WatchedEvents : InitContract(a)
    \/ \E a \in DOMAIN Contracts : ExecuteContract(a)

Spec == Init /\ [][Next]_vars

-----------------------------------------------------------------------------
(* Properties *)

LowerCase == {Lower[a] : a \in Addresses}

\* Type invariant: contracts are kept under their own lower-case address,
\* and only contracts that had watched events; a call in progress has a
\* name and a set of contracts left.
TypeOK ==
    /\ DOMAIN Contracts \subseteq DOMAIN WatchedEvents
    /\ DOMAIN WatchedEvents \subseteq LowerCase
    /\ \A a \in DOMAIN Contracts : Contracts[a].Address = a
    /\ call # Nil => call.name \in {"Init", "Execute"} /\ call.todo \subseteq LowerCase

\* Every filter of an initialized contract is in the filter repository,
\* whatever pass of Init failed and however often Init was called again:
\* Execute asks the repository for the logs of each of them (Init stores a
\* contract only after its last CreateFilter).
FiltersOfContractsExist ==
    \A a \in DOMAIN Contracts : Contracts[a].Filters \subseteq filters

\* A contract that Init stores starts no earlier than any starting block a
\* caller set for its address, however the address was capitalised (the
\* strings.ToLower of the setters and the comparison of firstBlock in Init).
StoredAsConfigured ==
    [][\A a \in DOMAIN Contracts' :
          (a \notin DOMAIN Contracts \/ Contracts'[a] # Contracts[a]) =>
              \A k \in DOMAIN ContractStart :
                  Lower[k] = a => Contracts'[a].StartingBlock >= ContractStart[k]]_vars

\* When Init returns nil, every address with a list of watched events has
\* the contract its configuration describes at that moment, whatever the
\* setters changed since an earlier Init or since an Init that failed half
\* way (Init makes the contract of every key of WatchedEvents anew and
\* overwrites the one t.Contracts held).
InitAppliesConfiguration ==
    [][(call # Nil /\ call.name = "Init" /\ call' = Nil /\ result' = Nil) =>
          \A a \in DOMAIN WatchedEvents :
              a \in DOMAIN Contracts' /\ Contracts'[a] = Info(a)]_vars

\* Every log in the event repository was converted with the contract whose
\* filter found it (Execute updates the shared converter before it converts
\* the logs of a contract).
LogsUnderTheirContract ==
    \A l \in logs : l.contract = l.filter[1]

=============================================================================
