------------------------------- MODULE Watch -------------------------------
(***************************************************************************)
(* The superNode command, src/cmd/watch.go: the life of the process from   *)
(* its configuration to its exit.                                          *)
(*                                                                         *)
(* superNode() is sequential: it builds the service, starts the processes  *)
(* the settings turn on (Serve, then the servers, then Sync, then          *)
(* BackFill), waits for an interrupt, stops the processes and waits for    *)
(* their goroutines.  Every failure before the wait is log.Fatal, which    *)
(* ends the process where it stands.  Each statement that calls out is one *)
(* action of the main goroutine.                                           *)
(*                                                                         *)
(* The service itself (package watcher) is not among the sources.  Its     *)
(* three processes are modelled from the specification: a worker of Sync   *)
(* and a worker of BackFill publish a block, index it and send it on the   *)
(* forward channel; the hub of Serve receives from that channel.  A block  *)
(* is its height.                                                          *)
(*                                                                         *)
(* A process that ended, by returning, by log.Fatal or by an interrupt, is *)
(* started again by whoever runs it.  Nothing in memory outlives the       *)
(* process; the block store and the index do, and the chain has moved on.  *)
(***************************************************************************)
EXTENDS Integers, Sequences, FiniteSets

CONSTANTS
    Settings,        \* the configurations NewSuperNodeConfig may return
    MaxHeight,       \* the heights the upstream node delivers are 1..MaxHeight
    ChanBufferSize,  \* PayloadChanBufferSize, the capacity of the forward channel
    MaxInterrupts,   \* how many interrupts the process is sent
    MaxRestarts,     \* how many times the process is started again
    Nil

VARIABLES
    superNodeConfig,     \* the configuration, Nil until it is loaded
    sn,                  \* the components the constructors returned, by field
    pc,                  \* the statement the main goroutine is at
    forwardPayloadChan,  \* Nil, or the blocks in the forward channel
    wg,                  \* the counter of the WaitGroup
    status,              \* of each goroutine: "none", "running" or "returned"
    quit,                \* the processes whose Stop was called
    listening,           \* the endpoints startServers has opened
    notified,            \* signal.Notify was called
    interrupts,          \* the interrupts sent so far
    restarts,            \* the times the process was started again
    recovered,           \* the heights the index had rows of when the process started
    head,                \* the height the upstream node delivers next
    holding,             \* of each worker: the block it is working on
    store,               \* the heights whose blocks the block store holds
    index,               \* the heights the index has rows of
    received             \* the heights the hub took from the forward channel

main == <<superNodeConfig, sn, pc, forwardPayloadChan, listening, notified>>
data == <<head, holding, store, index, received>>
faults == <<interrupts, restarts, recovered>>
vars == <<main, wg, status, quit, faults, data>>

ASSUME /\ {MaxHeight, ChanBufferSize} \subseteq Nat \ {0}
       /\ {MaxInterrupts, MaxRestarts} \subseteq Nat

Heights == 1..MaxHeight
Workers == {"Sync", "BackFill"}
Goroutines == Workers \cup {"Serve"}
Endpoints == <<"IPC", "WS", "HTTP">>

\* The process ended: by returning from superNode, by log.Fatal, or by the
\* interrupt it had not yet asked to be notified of.
Ended == pc \in {"exit", "fatal", "interrupted"}

\* The constructors of builders.go, called with the configuration.
Factory == INSTANCE Builders WITH settings <- superNodeConfig, todo <- <<>>

-----------------------------------------------------------------------------
(* The main goroutine *)

\* logWithCommand.Fatal(err): the process exits at once, its goroutines with it.
Fatal ==
    /\ pc' = "fatal"
    /\ UNCHANGED <<wg, status, quit, forwardPayloadChan, listening, notified>>

\* Go on to the statement at, having changed nothing else.
Goto(at) ==
    /\ pc' = at
    /\ UNCHANGED <<wg, status, quit, forwardPayloadChan, listening, notified>>

\* A call that starts the goroutine of process g under the WaitGroup.
Go(g) ==
    /\ status' = [status EXCEPT ![g] = "running"]
    /\ wg' = wg + 1

NewSuperNodeConfig ==
    /\ pc = "config"
    /\ \/ \E c \in Settings :
             /\ superNodeConfig' = c
             /\ Goto(IF c.IPFSMode = "LocalInterface" THEN "plugins" ELSE "new")
       \/ Fatal /\ UNCHANGED superNodeConfig
    /\ UNCHANGED <<sn, faults, data>>

InitIPFSPlugins ==
    /\ pc = "plugins"
    /\ Goto("new") \/ Fatal
    /\ UNCHANGED <<superNodeConfig, sn, faults, data>>

\* The constructors of these fields are called in turn, and return.
Constructed(fields) == [k \in DOMAIN fields |-> Factory!Construct(fields[k])]

\* One of them returned an error.
Failed(fields) == \E k \in DOMAIN fields : Constructed(fields)[k].err # Nil

\* The service keeps what they returned.
Keep(fields) ==
    sn' = [f \in DOMAIN sn \cup {fields[k] : k \in DOMAIN fields} |->
              IF f \in DOMAIN sn THEN sn[f] ELSE Factory!Construct(f)]

\* A fault of NewSuperNode: the error of a constructor is not returned.
NewSuperNode_errorLost ==
    /\ pc = "new"
    /\ Goto("serve") /\ Keep(Factory!ServiceFields(superNodeConfig))
    /\ UNCHANGED <<superNodeConfig, faults, data>>

\* watcher.NewSuperNode constructs what Sync and Serve need and returns the
\* first error of a constructor, which is fatal.
NewSuperNode ==
    /\ pc = "new"
    /\ LET fields == Factory!ServiceFields(superNodeConfig)
       IN  IF Failed(fields) THEN Fatal /\ UNCHANGED sn
           ELSE Goto("serve") /\ Keep(fields)
    /\ UNCHANGED <<superNodeConfig, faults, data>>

\* A fault of superNode: the forward channel is left nil.
Serve_noChannel ==
    /\ pc = "serve"
    /\ IF superNodeConfig.Serve
       THEN Go("Serve") /\ pc' = "servers"
       ELSE pc' = "sync" /\ UNCHANGED <<status, wg>>
    /\ UNCHANGED <<superNodeConfig, sn, forwardPayloadChan, quit, listening,
                   notified, faults, data>>

\* The forward channel is made, and the hub started, only if Serve is on.
Serve ==
    /\ pc = "serve"
    /\ IF superNodeConfig.Serve
       THEN /\ forwardPayloadChan' = <<>>
            /\ Go("Serve")
            /\ pc' = "servers"
       ELSE pc' = "sync" /\ UNCHANGED <<forwardPayloadChan, status, wg>>
    /\ UNCHANGED <<superNodeConfig, sn, quit, listening, notified, faults, data>>

\* startServers opens the three endpoints in turn and returns at the first
\* that fails; the ones opened before it stay open.  Each is given
\* superNode.APIs(), which has no error to return: the API of the chain is
\* served if its constructor returned one.
startServers ==
    /\ pc = "servers"
    /\ \E n \in 0..Len(Endpoints) :
          /\ listening' = {Endpoints[k] : k \in 1..n}
          /\ pc' = IF n = Len(Endpoints) THEN "sync" ELSE "fatal"
    /\ Keep(Factory!APIFields)
    /\ UNCHANGED <<superNodeConfig, forwardPayloadChan, wg, status, quit,
                   notified, faults, data>>

Sync ==
    /\ pc = "sync"
    /\ IF superNodeConfig.Sync
       THEN \/ Go("Sync") /\ pc' = "backfill"
            \/ pc' = "fatal" /\ UNCHANGED <<status, wg>>
       ELSE pc' = "backfill" /\ UNCHANGED <<status, wg>>
    /\ UNCHANGED <<superNodeConfig, sn, forwardPayloadChan, quit, listening,
                   notified, faults, data>>

\* NewBackFillService constructs what the back-filler needs, and BackFill
\* starts it if every constructor succeeded.
BackFill ==
    /\ pc = "backfill"
    /\ CASE ~superNodeConfig.BackFill ->
                pc' = "notify" /\ UNCHANGED <<sn, status, wg>>
         [] Failed(Factory!BackFillFields) ->
                pc' = "fatal" /\ UNCHANGED <<sn, status, wg>>
         [] OTHER ->
                Go("BackFill") /\ pc' = "notify" /\ Keep(Factory!BackFillFields)
    /\ UNCHANGED <<superNodeConfig, forwardPayloadChan, quit, listening,
                   notified, faults, data>>

\* shutdown := make(chan os.Signal); signal.Notify(shutdown, os.Interrupt)
Notify ==
    /\ pc = "notify"
    /\ notified' = TRUE
    /\ pc' = "shutdown"
    /\ UNCHANGED <<superNodeConfig, sn, forwardPayloadChan, wg, status, quit,
                   listening, faults, data>>

\* <-shutdown: the main goroutine waits at the receive.
Receive ==
    /\ pc = "shutdown"
    /\ Goto("receiving")
    /\ UNCHANGED <<superNodeConfig, sn, faults, data>>

\* An interrupt.  Before Notify it ends the process.  After it, the signal is
\* sent on the shutdown channel without blocking: the channel has no buffer,
\* so the signal is taken only while the main goroutine waits at <-shutdown,
\* and is lost otherwise: between Notify and the receive, and while the
\* process shuts down.
Interrupt ==
    /\ ~Ended /\ interrupts < MaxInterrupts
    /\ interrupts' = interrupts + 1
    /\ pc' = CASE ~notified        -> "interrupted"
               [] pc = "receiving" -> "stopBackFill"
               [] OTHER            -> pc
    /\ UNCHANGED <<superNodeConfig, sn, forwardPayloadChan, wg, status, quit,
                   listening, notified, restarts, recovered, data>>

\* A fault of superNode: Stop is called on a back-filler that was never made.
StopBackFill_unconditional ==
    /\ pc = "stopBackFill"
    /\ IF superNodeConfig.BackFill
       THEN quit' = quit \cup {"BackFill"} /\ pc' = "stop"
       ELSE pc' = "fatal" /\ UNCHANGED quit
    /\ UNCHANGED <<superNodeConfig, sn, forwardPayloadChan, wg, status, listening,
                   notified, faults, data>>

\* if superNodeConfig.BackFill { backFiller.Stop() }
StopBackFill ==
    /\ pc = "stopBackFill"
    /\ quit' = IF superNodeConfig.BackFill THEN quit \cup {"BackFill"} ELSE quit
    /\ pc' = "stop"
    /\ UNCHANGED <<superNodeConfig, sn, forwardPayloadChan, wg, status, listening,
                   notified, faults, data>>

\* A fault of superNode: the service is not stopped before it is waited for.
Stop_skipped ==
    /\ pc = "stop"
    /\ pc' = "wait"
    /\ UNCHANGED <<superNodeConfig, sn, forwardPayloadChan, wg, status, quit,
                   listening, notified, faults, data>>

\* superNode.Stop() ends Sync and Serve.
Stop ==
    /\ pc = "stop"
    /\ quit' = quit \cup {"Sync", "Serve"}
    /\ pc' = "wait"
    /\ UNCHANGED <<superNodeConfig, sn, forwardPayloadChan, wg, status, listening,
                   notified, faults, data>>

\* A fault of superNode: it returns without waiting.
Wait_notWaiting ==
    /\ pc = "wait"
    /\ pc' = "exit"
    /\ UNCHANGED <<superNodeConfig, sn, forwardPayloadChan, wg, status, quit,
                   listening, notified, faults, data>>

\* wg.Wait() returns when the counter is zero, and superNode with it.
Wait ==
    /\ pc = "wait" /\ wg = 0
    /\ pc' = "exit"
    /\ UNCHANGED <<superNodeConfig, sn, forwardPayloadChan, wg, status, quit,
                   listening, notified, faults, data>>

superNode ==
    \/ NewSuperNodeConfig \/ InitIPFSPlugins \/ NewSuperNode
    \/ Serve \/ startServers \/ Sync \/ BackFill
    \/ Notify \/ Receive \/ StopBackFill \/ Stop \/ Wait

-----------------------------------------------------------------------------
(* The goroutines of the service, from the specification *)

Running(g) == status[g] = "running" /\ ~Ended

\* A worker that is between two blocks.
Free(w) == Running(w) /\ holding[w] = Nil

Hold(w, h, stage) == holding' = [holding EXCEPT ![w] = [height |-> h, stage |-> stage]]

Drop(w) == holding' = [holding EXCEPT ![w] = Nil]

\* Index.Gaps(from, to): the heights of from..to the index has no rows of.
Gaps(from, to) == {h \in from..to : h \notin index}

\* What a worker takes next: Sync the block at the head of the chain,
\* BackFill a block of a gap of the range known so far, which is taken to be
\* the heights the upstream node has delivered.
Source(w) == IF w = "Sync" THEN {head} \cap Heights ELSE Gaps(1, head - 1)

\* With the direct store the blocks and the rows of a block are written in
\* one transaction.
Direct == superNodeConfig.IPFSMode = "DirectPostgres"

\* A worker takes block h: Sync with it moves on to the next height.
Take(w, h) ==
    /\ Free(w) /\ w \notin quit
    /\ h \in Source(w)
    /\ head' = IF w = "Sync" THEN head + 1 ELSE head
    /\ UNCHANGED <<main, wg, status, quit, faults, received>>

\* The blocks of h are put in the store, with their rows in the direct mode.
Published(w, h) ==
    /\ store' = store \cup {h}
    /\ IF Direct
       THEN index' = index \cup {h} /\ Hold(w, h, "indexed")
       ELSE UNCHANGED index /\ Hold(w, h, "published")

\* A worker takes a block, converts it and publishes it.  A block that cannot
\* be converted or published is skipped and leaves a gap.
Publish(w) ==
    \E h \in Heights :
        Take(w, h) /\ (Published(w, h) \/ UNCHANGED <<holding, store, index>>)

\* The rows of the block worker w published are written.
Indexed(w) ==
    /\ Running(w) /\ holding[w] # Nil /\ holding[w].stage = "published"
    /\ index' = index \cup {holding[w].height}
    /\ Hold(w, holding[w].height, "indexed")
    /\ UNCHANGED <<main, wg, status, quit, faults, head, store, received>>

\* The rows of the published block are written, or are not, and then the
\* block is given up: its blocks stay in the store and its height is a gap.
Index(w) ==
    \/ Indexed(w)
    \/ /\ Running(w) /\ holding[w] # Nil /\ holding[w].stage = "published"
       /\ Drop(w)
       /\ UNCHANGED <<main, wg, status, quit, faults, head, store, index, received>>

\* The indexed block is sent on the forward channel.  The send waits for room
\* in the channel; a worker that was handed no channel has nothing to send
\* on, and a worker that is told to stop gives the send up.
Forward(w) ==
    /\ Running(w) /\ holding[w] # Nil /\ holding[w].stage = "indexed"
    /\ \/ /\ forwardPayloadChan # Nil
          /\ Len(forwardPayloadChan) < ChanBufferSize
          /\ forwardPayloadChan' = Append(forwardPayloadChan, holding[w].height)
       \/ /\ forwardPayloadChan = Nil \/ w \in quit
          /\ UNCHANGED forwardPayloadChan
    /\ Drop(w)
    /\ UNCHANGED <<superNodeConfig, sn, pc, listening, notified, wg, status, quit,
                   faults, head, store, index, received>>

\* The hub takes a block from the forward channel for its subscribers.
Dispatch ==
    /\ Running("Serve") /\ "Serve" \notin quit
    /\ forwardPayloadChan # Nil /\ forwardPayloadChan # <<>>
    /\ received' = received \cup {Head(forwardPayloadChan)}
    /\ forwardPayloadChan' = Tail(forwardPayloadChan)
    /\ UNCHANGED <<superNodeConfig, sn, pc, listening, notified, wg, status, quit,
                   faults, head, holding, store, index>>

\* A goroutine that was told to stop returns when it has finished the block
\* it was working on.
Return(g) ==
    /\ Running(g) /\ g \in quit
    /\ g \in Workers => holding[g] = Nil
    /\ status' = [status EXCEPT ![g] = "returned"]
    /\ wg' = wg - 1
    /\ UNCHANGED <<main, quit, faults, data>>

Work(w) == Index(w) \/ Forward(w) \/ Return(w)

\* The process is started again after it ended.  What it had in memory is
\* gone: the components, the channel, the goroutines and the blocks the
\* workers held.  The store and the index are as it left them, the upstream
\* node delivers from wherever the chain is by now, and the configuration is
\* read anew.
Restart ==
    /\ Ended /\ restarts < MaxRestarts
    /\ restarts' = restarts + 1
    /\ superNodeConfig' = Nil /\ sn' = <<>> /\ pc' = "config"
    /\ forwardPayloadChan' = Nil /\ listening' = {} /\ notified' = FALSE
    /\ wg' = 0 /\ quit' = {}
    /\ status' = [g \in Goroutines |-> "none"]
    /\ holding' = [w \in Workers |-> Nil]
    /\ received' = {}
    /\ recovered' = index
    /\ head' \in head..MaxHeight + 1
    /\ UNCHANGED <<interrupts, store, index>>

Init ==
    /\ superNodeConfig = Nil
    /\ sn = <<>>
    /\ pc = "config"
    /\ forwardPayloadChan = Nil
    /\ wg = 0
    /\ status = [g \in Goroutines |-> "none"]
    /\ quit = {}
    /\ listening = {}
    /\ notified = FALSE
    /\ interrupts = 0
    /\ restarts = 0
    /\ recovered = {}
    /\ head = 1
    /\ holding = [w \in Workers |-> Nil]
    /\ store = {}
    /\ index = {}
    /\ received = {}

Next ==
    \/ superNode /\ ~Ended
    \/ Interrupt
    \/ Restart
    \/ \E w \in Workers : Publish(w) \/ Work(w)
    \/ Dispatch
    \/ Return("Serve")

\* The goroutines of the service are scheduled and finish the step they are
\* at, and the main goroutine, once it has taken the interrupt, goes on to
\* its exit: the two Stops return, and wg.Wait() returns when it can.
\* Nothing is assumed of the calls before that, which dial and open files,
\* of the user who interrupts, or of whoever starts the process again.
Spec ==
    /\ Init /\ [][Next]_vars
    /\ WF_vars(StopBackFill \/ Stop \/ Wait)
    /\ \A w \in Workers : WF_vars(Work(w))
    /\ WF_vars(Dispatch \/ Return("Serve"))

-----------------------------------------------------------------------------
(* Properties *)

\* Type invariant.  The counter of the WaitGroup is the number of goroutines
\* that run; a goroutine runs only if its process is turned on; log.Fatal is
\* called only before signal.Notify, never while the process shuts down.
TypeOK ==
    /\ pc \in {"config", "plugins", "new", "serve", "servers", "sync",
               "backfill", "notify", "shutdown", "receiving", "stopBackFill", "stop",
               "wait", "exit", "fatal", "interrupted"}
    /\ superNodeConfig \in Settings \cup {Nil}
    /\ Factory!TypeOK
    /\ forwardPayloadChan # Nil =>
          /\ Len(forwardPayloadChan) <= ChanBufferSize
          /\ \A k \in DOMAIN forwardPayloadChan : forwardPayloadChan[k] \in Heights
    /\ status \in [Goroutines -> {"none", "running", "returned"}]
    /\ wg = Cardinality({g \in Goroutines : status[g] = "running"})
    /\ \A g \in Goroutines : status[g] # "none" => superNodeConfig[g]
    /\ quit \subseteq Goroutines
    /\ interrupts \in 0..MaxInterrupts
    /\ restarts \in 0..MaxRestarts
    /\ recovered \subseteq index
    /\ head \in 1..MaxHeight + 1
    /\ store \subseteq Heights /\ index \subseteq store /\ received \subseteq index
    /\ pc = "fatal" => ~notified

\* The components a process works with.
FieldsOf(g) ==
    CASE g = "Sync"     -> Factory!SyncFields
      [] g = "Serve"    -> Factory!ServeFields
      [] g = "BackFill" -> Factory!BackFillFields

\* No goroutine of a process was started unless every component of that
\* process was constructed and none of the constructors returned an error:
\* NewSuperNode and NewBackFillService return the error of a constructor of
\* builders.go, and superNode() ends the process on it before Serve, Sync or
\* BackFill is called.
StartedOnlyWhatWasBuilt ==
    \A g \in Goroutines : status[g] # "none" =>
        \A k \in DOMAIN FieldsOf(g) : FieldsOf(g)[k] \in Factory!Built

\* The publisher, the indexer and the fetcher of the service that runs agree
\* on where blocks are kept, and it is where the configuration says (the
\* inner switches of NewIPLDPublisher, NewCIDIndexer and NewIPLDFetcher).
OneStore == Factory!OneStore

\* superNode returns only when every goroutine it started has returned and no
\* block is half done: wg.Wait() is the last statement, after both Stops, and
\* every goroutine was started under the WaitGroup.
ExitsOnlyWhenQuiet ==
    pc = "exit" =>
        /\ \A g \in Goroutines : status[g] # "running"
        /\ \A w \in Workers : holding[w] = Nil

\* The blocks a worker is about to send.
Held == {holding[w].height : w \in {v \in Workers : holding[v] # Nil /\ holding[v].stage = "indexed"}}

\* The blocks in the forward channel.
Queued == IF forwardPayloadChan = Nil THEN {} ELSE {forwardPayloadChan[k] : k \in DOMAIN forwardPayloadChan}

\* While the process serves and has not been told to stop, every block that
\* Sync or BackFill indexed since it started reaches the hub: superNode makes
\* the forward channel and starts Serve before it starts Sync and BackFill,
\* which are handed the channel when they start.
ServedWhatWasIndexed ==
    (superNodeConfig # Nil /\ superNodeConfig.Serve /\ quit = {} /\ ~Ended) =>
        index \ recovered \subseteq received \cup Queued \cup Held

\* Once the interrupt is taken the process exits: BackFill, then Sync and
\* Serve are told to stop, each goroutine returns after the block it is
\* working on, and wg.Wait() returns.
ShutdownCompletes == (pc = "stopBackFill") ~> (pc = "exit")

=============================================================================
