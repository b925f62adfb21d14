# TLA+ models of ipfs-blockchain-watcher

This directory holds TLA+ specifications of the parts of
`ipfs-blockchain-watcher` whose source is in `src/`, the TLC configurations
that check them, and `PROJECT.json`, which lists the components, the runs, the
line ranges each definition was translated from, the mutants that show each
property can fail, the findings and the hazards.

Every module is checked with `tlc -workers 2 -config <cfg> <MC module>`.

## 1. The system

The watcher syncs chain data from an Ethereum or Bitcoin node, turns every
block into IPLD nodes, writes the nodes into a content-addressed block store
(IPFS, or Postgres in direct mode), writes their cids into a relational index,
and serves the data to subscribers, live and from the store.

```
upstream node -> Streamer -> Converter -> Publisher -> Indexer -> forward chan -> SubscriptionHub -> Filterer -> subscriber
                                            |             |                          ^
                                        BlockStore      Index --- Retriever -> Fetcher (historical)
BackFiller: Index.Gaps -> fetch -> Converter -> Publisher -> Indexer -> forward chan
```

### Inventory

| Part | Source | State | Operations | Hard behaviour | What must hold |
|---|---|---|---|---|---|
| Command lifecycle | `cmd/watch.go` | config, forward channel, WaitGroup, shutdown channel | `superNode`, `startServers` | `log.Fatal` after goroutines started; unbuffered signal channel; nil forward channel when Serve is off; Stop order; `wg.Wait` | exit only when every goroutine returned; an interrupt taken leads to exit; what is indexed is served; what a process that ended left undone is made up for |
| Configuration | `pkg/super_node/shared/config.go`, `utils/utils.go` | viper settings, `configs`, one shared `err` | `NewSuperNodeConfigs`, `BackFillFields`, `getEthNodeAndClient`, `LoadPostgres` | five fallible steps per chain sharing one error variable; `uint64(int64)` | configs follow their chain's settings; no config without its client |
| Component factory | `pkg/builders/builders.go`, the constructors of `btc/publisher.go` and of both `ipld_fetcher.go` | none | ten constructors | three switches over the same chain and mode; up to ten constructors that fail one by one | the parts of one service agree on chain and store; nothing is started over a part that was not built |
| Filterer (Ethereum) | `pkg/super_node/eth/filterer.go` | none (pure) | `Filter` and its helpers | empty list means "all"; receipt join on the transactions emitted; topic slots | the response is what the documented rule selects; relaxing a filter never removes an object |
| Historical fetcher (Ethereum) | `pkg/eth/ipld_fetcher.go` | none beyond the call | `Fetch`, six `Fetch*`, `fetch`, `fetchBatch` | the store changes between the calls; a batch may deliver fewer blocks, in any order | a success has every block asked for, each node with its own keys; Fetch returns |
| Historical fetcher (Bitcoin) | `pkg/btc/ipld_fetcher.go` | none beyond the call | `Fetch`, `FetchHeader`, `FetchTrxs` | as above | each block under its own cid |
| Publisher (Bitcoin) | `pkg/btc/publisher.go` | none beyond the call | `Publish`, `publishHeader`, `publishTransactions` | a DagPut failing in the middle | a CIDPayload names only stored blocks; Publish returns |
| DAG putters | `pkg/ipfs/dag_putters/btc_tx.go`, `eth_receipt.go` | none beyond the call | `DagPut` | `Add` failing at the i-th node of a list | the cids returned are stored, in the list's order |
| Ethereum block IPLD conversion | `pkg/ipfs/ipld/eth_block.go` | none | `FromBlock`, `processTransactions`, `processReceipts` | three fallible steps, one `err` | a block with a wrong root is rejected |
| Contract transformer (omni) | `pkg/omni/full/transformer/transformer.go` | six maps, `Contracts`, the shared converter | setters, `Init`, `Execute` | iteration over Go maps; a pass failing halfway; one converter for all contracts | stored contracts have their filters; logs are converted with their own contract |
| BlockStore | library | set of blocks | `GetBlock`, `GetBlocks`, `Add` | | content addressing |
| Pipeline, BackFiller, Index, Indexer, Retriever | package `watcher` and the repositories, not in `src/` | channels, rows | described in the specification | bounded channels, cancellation, gaps | per-block atomicity, shutdown |
| SubscriptionHub | package `watcher`, not in `src/` | reorder buffer, head, subscribers, their channels | dispatch, subscribe, unsubscribe, historical sub-task, eviction, stop | a subscription made while a block is dispatched; sends without the lock; a client that stops reading | per subscriber: the filter's responses that hold something, at increasing heights, nothing missed, the mark between historical and live; a slow client holds up nobody |
| Streamer client | `pkg/streamer/super_node_streamer.go` | the client's channel | `Stream` | subscribes at any moment | as for the hub |
| Trie backend | `pkg/super_node/eth/trie/backend.go` | none | constructor of a retriever and a fetcher | none | |
| Shared helpers | `pkg/super_node/shared/functions.go` | none | five list and address helpers | none | |
| Tests and mocks | `pkg/eth/publisher_test.go`, `pit_vow/repository_test.go`, `mocks/vat_slip/converter.go` | | | | |

The source files are a slice of the repository taken at more than one moment:
`config.go` has no `IPFSMode` while `builders.go` and `watch.go` read one, and
`publisher.go` calls a `DagPut` that takes one node while the putters of
`dag_putters` take a list. The models therefore compose only parts whose
interfaces agree in the sources: the fetchers and the putters meet at the
block store, the Bitcoin publisher and fetcher at the store and the index,
the command and the factory at the settings both read, the streamer and the
hub at the subscription call, the hub and the filterer at `Filter`.

## 2. Modules

| Module | Models | State and actions |
|---|---|---|
| `Watch` | `cmd/watch.go` | `pc` is the statement the main goroutine is at; one action per statement that calls out (`NewSuperNodeConfig`, `InitIPFSPlugins`, `NewSuperNode`, `Serve`, `startServers`, `Sync`, `BackFill`, `Notify`, `Receive`, `StopBackFill`, `Stop`, `Wait`), each with its `log.Fatal` branch; `Interrupt` is the user: before `signal.Notify` it ends the process, while the main goroutine waits at `<-shutdown` it is taken, and at any other moment the channel without a buffer drops it; and `Restart` whoever starts a process that ended again: everything in memory is as at the start, the store and the index are as they were left, and the chain has moved on. The goroutines the calls start (`Publish`, `Index`, `Forward`, `Dispatch`, `Return`) are modelled from the specification; the Sync worker takes the block at the head, the BackFill worker a height of `Gaps(1, head - 1)`. `Factory` is `Builders` instantiated over the configuration: `NewSuperNode`, `startServers` and `BackFill` construct the components of their process with it, keep them in `sn`, and fail when a constructor does. |
| `SuperNodeConfig` | `config.go`, `LoadPostgres` | the local variables of `NewSuperNodeConfigs`; one action per chain of the loop, `BackFillFields` inside it. Integers are `Width` bits wide. |
| `Builders` | `builders.go`, `NewIPLDPublisher` of `btc/publisher.go`, `NewIPLDFetcher` of both fetchers | each constructor is an operator from the settings to a component or an error; the actions call the constructors a service needs, one after the other up to the first that fails. |
| `SubscriptionHub` | `super_node_streamer.go`; the hub from the specification | `buffer`, `head`, `released` and `dispatching` are the hub, `status`, `settings`, `phase`, `hist`, `held` and `payloadChan` a subscription. `Stream` subscribes; `Release` and `Skip` take a block from the reorder buffer and note the subscribers; `Send` sees to one of them; `Query`, `Historical`, `Complete` and `Flush` are the historical sub-task; `Evict` is the slow-consumer timeout; `Receive` and `Unsubscribe` are the client. `Filterer` is `EthFilterer` instantiated over the settings of the clients and the blocks of the chain: `Response` is what `Filter` returns, or nothing when every collection of it is empty, and a payload carries it. |
| `DataPath` | what publisher and index promise together | `store` and `index` only grow; `Insert` needs the blocks of the manifest in the store; `Transaction` is both at once (direct store). |
| `EthFilterer` | `filterer.go` | every function is an operator under its own name; the one action calls `Filter` on a payload. Reference definitions of the documented rule stand beside them. |
| `BlockService` | the block store | `store` is the set of cids held; `GetBlocks` is every sequence of distinct held blocks asked for. |
| `EthIPLDFetcher`, `BtcIPLDFetcher` | the two `ipld_fetcher.go` | `pc` is the stage of the `Fetch` under way; one action per call of the block service. |
| `BtcPublisher` | `publisher.go` | `pc`, `header`, `txCids`, `done`; one action per DagPut, each able to fail. |
| `DagPutters` | `dag_putters/*.go` | `pc`, `cids`, `done`; the type assertion, one action per turn of the loop, the return. |
| `EthDataPath` | composition | `EthIPLDFetcher` and `DagPutters` instantiated over one `store`. |
| `BtcDataPath` | composition | `BtcPublisher` and `BtcIPLDFetcher` over one `store`, with the index between them: `Index` inserts the CIDPayload a Publish returned (or fails), `Retrieve` makes the CIDWrapper of a row. Implements `DataPath` with the rows as manifests. |
| `EthBlock` | `eth_block.go` | `FromBlock` as an operator; a trie is the list of what was added to it. |
| `OmniTransformer` | `transformer.go` | the maps of the transformer; one action per setter and per pass of the loops of `Init` and `Execute`. |
| `MC*` | | the finite values of the constants for TLC. |

Data is abstract: a cid is a tagged string, a block's bytes are a function of
its cid, an encoding is the tagged object, a hash the tagged preimage. Control
is kept: every early return, every error path and the order of the calls.

Composition follows one pattern: the composite module declares the variables
of both components, instantiates each component with `INSTANCE ... WITH`,
and its `Next` lets one component step while the variables of the other are
unchanged. The properties of the components are stated again in the composite
and checked there, where the other component interferes.

Refinement follows another: `DataPath` is instantiated in the detailed module
with its variables and constants replaced by expressions of the detailed
state (`Abstract == INSTANCE DataPath WITH ...`), and the detailed
specification is checked against `Abstract!Spec` as a temporal property. In
`BtcDataPath` a manifest is a CIDWrapper and `index` the set of wrappers the
rows give; in `Watch` a manifest is a height whose one block is the height
itself. Every step of a Publish, a Fetch or a worker is then a `Put`, an
`Insert`, a `Transaction` or a step that leaves store and index alone.

## 3. Runs

Twelve runs, eight that pass and four that show a disagreement between the code
and what the specification, a comment or a sibling function says.

| Run | Module, cfg | Distinct states | What it shows |
|---|---|---|---|
| `filter` | `MCEthFilterer`, `EthFilterer.cfg` | 208,006 | The receipts and state nodes of a response are exactly those the documented rule selects, and relaxing the settings never removes an object. |
| `filter_storage_leaves` | `MCEthFilterer`, `EthFilterer_storage.cfg` | violation | `filterStorage` emits intermediate storage nodes nobody asked for. |
| `eth_path` | `MCEthDataPath`, `EthDataPath.cfg` | 605,048 | With DagPuts adding lists node by node and failing anywhere, a Fetch returns an error or everything asked for, and nodes keep their keys; the cids of a DagPut are stored. |
| `btc_path` | `MCBtcDataPath`, `BtcDataPath.cfg` | 25,691 | With Publish and Fetch side by side and every DagPut and insert able to fail, what Publish returns is stored and pairs each transaction with its own cid, what the index names can be fetched, blocks come back under their own cid, and the whole implements `DataPath`. |
| `eth_block` | `MCEthBlock`, `EthBlock.cfg` | 2,366 | `FromBlock` rejects a block whose transactions do not have the declared root. |
| `eth_block_receipts` | `MCEthBlock`, `EthBlock_receipts.cfg` | violation | It does not reject a block whose receipts do not. |
| `config` | `MCSuperNodeConfig`, `SuperNodeConfig.cfg` | 115,328 | Configs returned without an error follow their own chain's settings and can be back-filled with. |
| `config_sync_dial` | `MCSuperNodeConfig`, `SuperNodeConfig_sync.cfg` | violation | A sync node that cannot be dialled is not an error unless Ethereum is the last chain. |
| `builders_chain` | `MCBuilders`, `Builders_chain.cfg` | violation | A Bitcoin service in direct mode indexes with the Ethereum object. |
| `omni` | `MCOmniTransformer`, `OmniTransformer.cfg` | 342,848 | Under every order of setters, `Init` and `Execute`, with any call failing, stored contracts have their filters and start where asked, logs are converted with their own contract, and an `Init` that returns nil leaves every watched contract as last configured. |
| `watch` | `MCWatch`, `Watch.cfg` | 384,520 | The command composed with the factory, ended at any statement and started again once: a goroutine runs only over components that were all constructed, publisher, indexer and fetcher share one store, the WaitGroup counts the running goroutines, a row is never without its blocks, `superNode` returns only when all are quiet, blocks indexed since the start reach the hub while the process serves, and an interrupt that is taken leads to the exit. |
| `hub` | `MCSubscriptionHub`, `SubscriptionHub.cfg` | 157,607 | The hub composed with the filterer, two clients subscribing at any moment while three blocks arrive in any order: each is sent the responses of `Filter` under its own settings that hold something, in increasing order around the mark, none is missed at the seam between historical and live, and a client that stops reading is evicted so that every dispatch ends. |

### Properties

Each module has one type invariant; the others are named below with the
hazard they are about.

* `ReceiptsAsSpecified`, `StateNodesAsSpecified`, `StorageNodesAsSpecified`
  compare what `Filter` returns with reference definitions written from the
  documented rule rather than from the code. `MonotoneUnderRelaxation` compares
  the responses to one payload under two settings, one a relaxation of the
  other.
* `FetchedWhatWasAskedFor` and `BlocksUnderTheirCid`: a batch fetch delivers
  any subset in any order; only the length comparison and the cid taken from
  the block itself make a success complete and correctly labelled.
* `KeysStayWithTheirNode`: state and storage nodes are fetched one at a time so
  that each stays with the keys of its row.
* `CidsAreStored`, `PublishedIsStored`: a list is written node by node and any
  write may fail; cids are returned only if every write succeeded.
* `IndexedCanBeFetched` relates three components: what the indexer took from
  a Publish is found by a later Fetch, whatever Publish is then under way.
* `ShutdownCompletes`, `DispatchCompletes` and `EventuallySent` are liveness
  properties (`~>`).
* `TransactionsVerified`, `ReceiptsVerified`: a block is published only with
  the roots its header declares.
* `ConfigsFollowSettings`, `BackFillReady`, `SyncReady`: each config is built
  from the keys of its own chain, and is complete for the processes it turns
  on.
* `OneStore`, `OneChain`: the independent switches of the constructors agree.
  `OneStore` is checked in `watch`, on the components the command keeps.
* `StartedOnlyWhatWasBuilt`: the error of any one of the constructors behind
  `NewSuperNode` and `NewBackFillService` ends the process before a goroutine
  is started.
* `ImplementsDataPath` (in `btc_path`): the refinement of
  `DataPath`. It fails if a row appears before its blocks, or if a block or a
  row is ever taken away, for instance by a failed insert that undoes the put.
* `FiltersOfContractsExist`, `LogsUnderTheirContract`, `StoredAsConfigured`:
  partial failure and map order in `Init` and `Execute`.
  `InitAppliesConfiguration`: an `Init` after setters changed the
  configuration, or after an `Init` that failed half way, renews every
  contract.
* `SentInOrder`, `NothingMissed`: the historical sub-task, the hub's
  dispatch and the moment of the subscription, taken together.
  `SentAsFiltered`: `Filter` answers a block inside the range with a response
  even when it selected nothing, and the hub is the one to drop it, on the
  live path and on the historical one; what is sent is the response under the
  subscriber's own settings.
  `DispatchCompletes` and `EventuallySent` are liveness properties: a client
  that does not read is evicted, and the other subscriber still gets every
  block its filter has something of.
* `ExitsOnlyWhenQuiet`, `ServedWhatWasIndexed`: the order of the statements of
  `superNode` (channel and hub before the workers, both Stops before the
  wait). `ServedWhatWasIndexed` is about the blocks indexed since the process
  started: the rows an earlier process left are served by the historical part
  of a subscription.

For every property of a passing run `PROJECT.json` names a mutant: a
definition, written beside the one it replaces, with the change a plausible
bug would make (an error dropped, a count not compared, a batch in the place
of single fetches, a Stop skipped, a range whose start is not compared). With the mutant in place TLC finds the
property violated under the run's own configuration.

### Bounds

| Bound | Value | Why it is enough |
|---|---|---|
| `filter`: addresses, topics | 2 each | every test of a list can succeed, fail, and be skipped by an empty list |
| `filter`: state nodes per block | up to 2, once with the same key | the map of the response keeps one entry of two nodes with one key |
| `filter`: transactions per block | up to 2 | the receipt join must tell a receipt it adds from one it does not |
| `filter`: topic filter length | 0, 1, 2, 4 slots | shorter than, and equal to, the four slots of a receipt |
| `eth_path`: `CIDStrings` | 10 cids | a block with two transactions, two receipts, two state nodes and a storage node, one uncle |
| `eth_path`: `MaxDifficulty` | 2 | a total difficulty that parses and one that does not |
| `eth_path`: lists given to DagPut | up to 2 objects | a failure at the first and at the second node; two objects with the same cid |
| `btc_path`: payloads | 4 | blocks of two, one and no transactions, and one rejected for its Merkle root |
| `eth_block`: lists | up to 2 of 2 objects, and one block whose header has no cid | every declared root is right for some lists and wrong for others; each of the three fallible steps of `FromBlock` fails in some behaviour |
| `config`: chains | lists of up to 2 out of 3 names | the shared error variable is overwritten by the pass after the one that set it |
| `config`: `Width` | 8 bits | the conversion of a negative batch size wraps as it does at 64 |
| `omni`: addresses | 3, two of them one contract | capitalisation; two contracts for map order |
| `watch`: `MaxHeight` | 2 | two blocks in flight, one per worker, and a gap below a row as well as above one |
| `watch`: `MaxRestarts` | 1 | one process that ended at any statement with a block half done, and one that finds what it left; a second restart meets no state the first does not |
| `watch`: `ChanBufferSize` | 1 | the channel is full with one block while the second worker wants to send |
| `watch`: `MaxInterrupts` | 2 | an interrupt that is lost, before the receive or during the shutdown, and one that is taken |
| `watch`: settings | every chain, store mode and toggle, with at most one thing unsound | each constructor fails alone in some behaviour, and every sound combination starts its goroutines |
| `hub`: `Subscribers` | 2 | one client that stops reading beside one that reads; two subscriptions at different heads |
| `hub`: `MaxHeight` | 3 | a block before, at and after the head a client joins at; blocks 2 and 3 before block 1, so that the buffer fills and 1 is given up |
| `hub`: `ReorderSize` | 2 | the smallest buffer that holds two later blocks while the head is missing |
| `hub`: `ChanSize` | 1 | a channel is full after one payload, so every send can wait and every wait can time out |
| `hub`: settings | transactions from `A1` in the open range from 1, headers in the range 2..3, and parameters that do not decode | a historical part, a block below a range, a block inside the range of which the filter selects nothing, a block of which the two get different responses, a rejected subscription |
| `hub`: `Blocks` | one transaction each, from `A1` at heights 1 and 3, from `A2` at height 2 | the first kind of subscriber is sent 1 and 3 and not 2, so its responses have a hole the order and the mark must bridge |

### Fairness

* `Watch`: weak fairness on the steps of each started goroutine (the Go
  scheduler runs every runnable goroutine) and on `StopBackFill`, `Stop` and
  `Wait` of the main goroutine, which return once an interrupt was taken.
  None on the statements before them, which dial and open files and may not
  return; none on `Interrupt` (when the user interrupts is up to the user) or
  on `Restart`.
* `SubscriptionHub`: weak fairness on the hub's dispatch and, for each
  subscriber, on its sub-task together with its eviction: both are goroutines
  of the server, and a send that waits has a timer (`SlowConsumerTimeout`)
  that goes off. None on the pipeline delivering blocks, and none on the
  clients: a client may never read and never unsubscribe.
* The other modules state safety only and assume no fairness. Whether a
  `Fetch` or a `Publish` returns is up to the block service, which the code
  calls with `context.Background()` and so without a deadline.

### Deadlock

Deadlock is checked except in `config`, `config_sync_dial`, `watch` and `hub`:
`NewSuperNodeConfigs` returns, the process of `superNode` ends, and a hub that
was stopped with its clients' channels empty has nothing left to do, so the
last state of those models has no successor.

## 4. Findings

| Run | Where | What |
|---|---|---|
| `eth_block_receipts` | `eth_block.go:49` | `FromBlock` assigns the error of `processReceipts` and returns `nil`: a block whose receipts do not match the header's `ReceiptHash` is published without receipts and without an error. |
| `config_sync_dial` | `config.go:103` | the error of the sync dial is tested nowhere in the loop and overwritten by the next pass; `BackFillFields` tests the same error. |
| `builders_chain` | `builders.go:63` | `NewCIDIndexer` returns the Ethereum publisher-and-indexer for Bitcoin in direct mode. |
| `filter_storage_leaves` | `filterer.go:266` | `filterStorage` never tests `Leaf` or `IntermediateNodes`. |

Observed while modelling, and stated in the properties as the code behaves:

* `Fetch` returns `nil` with every error (`eth/ipld_fetcher.go:75`), where the
  specification wants the partial result beside an `UnexpectedIPLDCount`.
* Emptying one of `Src` and `Dst` while the other is in use narrows the
  response (`filterer.go:125`); `MonotoneUnderRelaxation` covers emptying the
  last list in use.
* `BatchSize` is `uint64` of an `int64` setting (`config.go:184`): a negative
  setting wraps.
* `watch.go:75`: the forward channel is `nil` unless Serve is on and is handed
  to `Sync` and `NewBackFillService` as it is. The workers are modelled as not
  sending on a channel they were not given; a send on a nil channel would
  block a worker for ever and keep `wg.Wait()` from returning.
* `watch.go:100`: the shutdown channel has no buffer, so an interrupt that
  arrives between `signal.Notify` and the receive, or while `superNode` is
  stopping the service, is dropped; one that
  arrives before `signal.Notify` ends the process with blocks possibly
  published and not indexed. `TypeOK` of `Watch` states that the reverse never
  happens: a row is never without its block. Healing the gap is the back-filler's
  work, which is outside `src/`.
* `btc/publisher.go:53`: the error of the type assertion of the Bitcoin
  publisher says "eth publisher"; the model keeps the text of the code.
* `btc/publisher.go:106`: `publishTransactions` reads `trxMeta[i]` for every
  transaction; `BtcDataPath` assumes one metadata record per transaction
  (the per-object metadata of the specification's CIDManifest), since the
  converter that builds both lists is outside `src/`.
* `filterer.go:70`: `Filter` sets `BlockNumber` and returns a response for
  every block inside the range, also when every collection of it is empty,
  where the specification has it return nothing. The hub is modelled as
  dropping such a response (`SentAsFiltered`).

## 5. Not modelled

* `init()` of `watch.go`: it declares 28 flags and binds each to the viper
  key of the same setting. What it changes is what viper hands to
  `watcher.NewSuperNodeConfig`, which is outside `src/`; `Watch` starts from
  any value of the settings that `superNode` reads.
* The functions of `utils.go` other than `LoadPostgres`: they read and write
  files for the commands of other packages and are called by no source here.
  `CopyFile` creates its destination exclusively and leaves it behind when the
  copy fails, so that a second attempt fails on the file of the first; no
  module models the file system this would be a property of.
* `trie/backend.go`: `NewEthBackend(db, ipfsPath)` of package `trie` makes a
  retriever and a fetcher and returns the fetcher's error. `builders.go` calls
  `eth.NewEthBackend(db)`, a function of another package, so this one has no
  caller among the sources; the constructor of the fetcher it calls is
  modelled in `Builders`.
* `shared/functions.go`: five loops of one comparison each, called by none of
  the sources; none changes state.
* In the back-filler: the ticker, the batches and the validation level. One
  worker heals one height at a time.
* The test files and the mock: they test code that is not in `src/`.
* Package `watcher`, the repositories, the converters and the Ethereum
  publisher are outside `src/`. Where a module needs them they are modelled
  from the specification and marked `spec_modelled` in `PROJECT.json`: the
  workers of `Watch`, the hub of `SubscriptionHub`, the index of `BtcDataPath`
  and `DataPath`, the callers of `Filter`, `Fetch`, `Publish` and `FromBlock`.

What is left of `src/` has no state and no caller in it (`utils.go`,
`functions.go`, `trie/backend.go`) or only feeds code outside it (`init()`).
A module of any of these would be a function table with no behaviour of the
system for a property to be about. What is left of the system is outside
`src/`; more of it could only be written from the words of the specification,
and the modules already take from there everything the sources call or are
called by.

## 6. Plan

Built so far, in this order: the pure functions (`EthFilterer`, `EthBlock`,
`Builders`), the sequential procedures with partial failure
(`SuperNodeConfig`, `OmniTransformer`), the readers and writers of the block
store (`BlockService`, the fetchers, `BtcPublisher`, `DagPutters`) and their
compositions, the process lifecycle (`Watch`) and its composition with the
factory, the subscriptions (`SubscriptionHub`), and the abstract data path
(`DataPath`) with its refinement.

Since then: the restart of the process and the healing of gaps in `Watch`,
and the hub composed with the whole of `Filter`; then a reading of every
module against its source, the relations between constants the definitions
rely on stated as `ASSUME`s of the modules the runs extend (TLC checks them
of every instance), and the header without a cid in `eth_block`; then the moment between
`signal.Notify` and the receive in `Watch`, a factory that stops at the first
constructor that fails, and a payload with two state nodes of one key in
`filter`. Liveness of the single calls of the data path and the healing of
gaps are no longer stated: the first depends on the block service alone, the
second on a back-filler that is not among the sources.

Open:

1. **Batches of the back-filler.** Several fetchers over the gaps of one
   tick, with the cancellation at a batch boundary. The code is outside
   `src/`; the worker of `Watch` is a batch of one height with one fetcher,
   and larger batches would add interleavings of the same tail and no line
   of the sources.
2. **Uninitialised contracts.** `InitAppliesConfiguration` and `TypeOK` of
   `OmniTransformer` record that a contract configured without `SetEvents` is
   not initialised (`transformer.go:105`); whether it should be is open.
