--------------------------- MODULE SubscriptionHub ---------------------------
(***************************************************************************)
(* The hub of the Serve process and the clients that subscribe to it.      *)
(*                                                                         *)
(* A client subscribes with src/pkg/streamer/super_node_streamer.go: it    *)
(* hands the server a channel and the parameters of its subscription.  The *)
(* hub itself (package watcher) is not among the sources and is modelled   *)
(* from the specification:                                                 *)
(*   - the pipeline indexes a block and then sends it on the forward       *)
(*     channel, in no particular order of heights;                         *)
(*   - the hub keeps what it received in a reorder buffer and dispatches   *)
(*     the block at its head, or the lowest block it has when the buffer   *)
(*     is full, to the subscribers it finds under a brief lock, one send   *)
(*     at a time and without the lock;                                     *)
(*   - a subscriber whose range starts below the head is first sent the    *)
(*     indexed blocks below the head by a sub-task of its own, then a      *)
(*     mark that this is complete, then the live blocks kept for it;       *)
(*   - a subscriber whose channel stays full is evicted.                   *)
(* The hub is composed with the Ethereum filterer: what a subscriber is    *)
(* sent for a block is what Filter of EthFilterer builds from the          *)
(* subscriber's settings and the converted payload of the block, and a     *)
(* block is sent to it only when that response holds something.            *)
(***************************************************************************)
EXTENDS Integers, Sequences, FiniteSets, FiniteSetsExt

CONSTANTS
    Subscribers,   \* the clients, each with one channel
    Params,        \* what a client may pass for rlpParams
    Settings,      \* the members of Params that decode to SubscriptionSettings
    MaxHeight,     \* the pipeline delivers the heights 1..MaxHeight
    ChanSize,      \* the capacity of a subscriber's channel
    ReorderSize,   \* the capacity of the reorder buffer
    Blocks,        \* of each height: the eth.IPLDPayload the converter made of it
    Nil

VARIABLES
    index,        \* the heights the index has rows of
    buffer,       \* the reorder buffer: the heights received and not dispatched
    head,         \* the live head: the height the hub dispatches next
    released,     \* the heights the hub has dispatched
    dispatching,  \* the dispatch under way: [height, pending], or Nil
    quit,         \* the hub was told to stop
    status,       \* of each client: "none", "rejected", "active", "evicted", "closed"
    settings,     \* of each subscriber: its SubscriptionSettings
    upto,         \* of each subscriber: the head when it subscribed
    phase,        \* of each subscriber: "query", "historical", "flush" or "live"
    hist,         \* of each subscriber: the heights its sub-task has still to send
    held,         \* of each subscriber: the live heights kept until the mark
    payloadChan,  \* of each client: the payloads in its channel
    delivered     \* of each client: the payloads it took from its channel

pipeline == <<index, buffer, head, released>>
subs     == <<settings, upto, phase, hist, held>>
vars     == <<pipeline, dispatching, quit, status, subs, payloadChan, delivered>>

ASSUME /\ Settings \subseteq Params
       /\ {MaxHeight, ChanSize, ReorderSize} \subseteq Nat \ {0}
       /\ DOMAIN Blocks = 1..MaxHeight

Heights == 1..MaxHeight

\* The filterer of the hub, over the one stream of this chain.
Filterer == INSTANCE EthFilterer
                WITH Subscriptions <- {[settings |-> Settings,
                                        payloads |-> {Blocks[h] : h \in Heights}]},
                     ForeignSettings <- {}, ForeignPayloads <- {},
                     filter <- Nil, payload <- Nil, result <- Nil

Collections ==
    {"HeadersRlp", "UnclesRlp", "TransactionsRlp", "ReceiptsRlp", "StateNodesRlp",
     "StorageNodesRlp"}

\* What the hub has for a subscriber with settings f of the block at height
\* h: the response of Filter, or nothing when Filter fails, the block is
\* outside the range (the zero response) or every collection of the response
\* is empty.
Response(f, h) ==
    LET r == Filterer!Filter(f, Blocks[h])
    IN  IF r.err = Nil /\ \E c \in Collections : r.response[c] # <<>>
        THEN r.response ELSE Nil

\* Filter is a pure function: its responses, by settings and height.
Responses == [f \in Settings, h \in Heights |-> Response(f, h)]

\* watcher.SubscriptionPayload: the response to a block, or the mark that ends
\* the historical part
Payload(f, h) == [Height |-> h, Data |-> Responses[f, h], Flag |-> "EmptyFlag"]
BackFillComplete == [Height |-> 0, Data |-> Nil, Flag |-> "BackFillCompleteFlag"]

\* The filter of subscriber s has a response to block h.
Responds(s, h) == Responses[settings[s], h] # Nil

Active(s) == status[s] = "active"
Full(s) == Len(payloadChan[s]) = ChanSize

\* A payload is put in the channel of a subscriber.
Enqueue(s, p) == payloadChan' = [payloadChan EXCEPT ![s] = Append(@, p)]

-----------------------------------------------------------------------------
(* The pipeline *)

\* A worker has indexed block h and sends it on the forward channel; the hub
\* receives it, and drops it if the head has passed it.  The send waits while
\* the reorder buffer is full.
Forward(h) ==
    /\ ~quit /\ h \notin index
    /\ h >= head => Cardinality(buffer) < ReorderSize
    /\ index' = index \cup {h}
    /\ buffer' = IF h >= head THEN buffer \cup {h} ELSE buffer
    /\ UNCHANGED <<head, released, dispatching, quit, status, subs, payloadChan, delivered>>

-----------------------------------------------------------------------------
(* The hub *)

\* The hub takes block h from the buffer and, under the lock, moves the head
\* past it and notes the subscribers of this moment.
Take(h) ==
    /\ head' = h + 1
    /\ buffer' = buffer \ {h}
    /\ released' = released \cup {h}
    /\ LET found == {s \in Subscribers : Active(s)}
       IN  dispatching' = IF found = {} THEN Nil ELSE [height |-> h, pending |-> found]
    /\ UNCHANGED <<index, quit, status, subs, payloadChan, delivered>>

\* The block at the head is there.
Release == ~quit /\ dispatching = Nil /\ head \in buffer /\ Take(head)

\* The buffer is full of later blocks: the block at the head is given up, and
\* is a gap for a later subscriber's historical part to fill.
Skip ==
    /\ ~quit /\ dispatching = Nil
    /\ head \notin buffer /\ Cardinality(buffer) = ReorderSize
    /\ Take(Min(buffer))

\* Subscriber s has been seen to.
Seen(s) ==
    dispatching' = IF dispatching.pending = {s} THEN Nil
                   ELSE [dispatching EXCEPT !.pending = @ \ {s}]

\* A fault of Send: a live block is sent at once to a subscriber whose
\* historical part is not complete.
Send_beforeTheMark(s) ==
    /\ dispatching # Nil /\ s \in dispatching.pending
    /\ Seen(s)
    /\ IF Active(s) /\ Responds(s, dispatching.height)
       THEN ~Full(s) /\ Enqueue(s, Payload(settings[s], dispatching.height))
       ELSE UNCHANGED payloadChan
    /\ UNCHANGED <<pipeline, quit, status, subs, delivered>>

\* The hub sees to one of the subscribers it found: nothing for one that is
\* gone meanwhile or whose filter has no response; the block is kept for one
\* whose historical part is not complete, and sent to the others.  The send
\* waits for room in the channel.
Send(s) ==
    /\ dispatching # Nil /\ s \in dispatching.pending
    /\ Seen(s)
    /\ CASE ~Active(s) \/ ~Responds(s, dispatching.height) ->
                UNCHANGED <<payloadChan, held>>
         [] Active(s) /\ Responds(s, dispatching.height) /\ phase[s] # "live" ->
                /\ held' = [held EXCEPT ![s] = @ \cup {dispatching.height}]
                /\ UNCHANGED payloadChan
         [] OTHER ->
                /\ ~Full(s)
                /\ Enqueue(s, Payload(settings[s], dispatching.height))
                /\ UNCHANGED held
    /\ UNCHANGED <<pipeline, quit, status, settings, upto, phase, hist, delivered>>

\* Something is waiting to be sent to subscriber s.
Waiting(s) ==
    \/ phase[s] \in {"historical", "flush"}
    \/ /\ dispatching # Nil /\ s \in dispatching.pending
       /\ phase[s] = "live" /\ Responds(s, dispatching.height)

\* A fault of Evict: the send waits for as long as the channel is full.
Evict_never(s) ==
    /\ FALSE
    /\ UNCHANGED vars

\* SlowConsumer: the channel of s stayed full for SlowConsumerTimeout while
\* something was waiting to be sent; s is evicted and its channel closed.
Evict(s) ==
    /\ Active(s) /\ Full(s) /\ Waiting(s)
    /\ status' = [status EXCEPT ![s] = "evicted"]
    /\ UNCHANGED <<pipeline, dispatching, quit, subs, payloadChan, delivered>>

\* The hub is told to stop: it gives up the dispatch under way and closes the
\* channels of its subscribers.
Stop ==
    /\ ~quit
    /\ quit' = TRUE
    /\ dispatching' = Nil
    /\ status' = [s \in Subscribers |-> IF Active(s) THEN "closed" ELSE status[s]]
    /\ UNCHANGED <<pipeline, subs, payloadChan, delivered>>

-----------------------------------------------------------------------------
(* A subscription *)

\* A fault of Subscribe: parameters that do not decode are subscribed.
Subscribe_unparsed(s, namespace, method, rlpParams) ==
    /\ ~quit /\ status[s] = "none"
    /\ status' = [status EXCEPT ![s] = "active"]
    /\ settings' = [settings EXCEPT ![s] = rlpParams]
    /\ upto' = [upto EXCEPT ![s] = head]
    /\ phase' = [phase EXCEPT ![s] = "live"]
    /\ UNCHANGED <<pipeline, dispatching, quit, hist, held, payloadChan, delivered>>

\* A fault of Subscribe: while a block is dispatched the head is taken to be
\* that block.
Subscribe_headUnderWay(s, namespace, method, rlpParams) ==
    /\ ~quit /\ status[s] = "none"
    /\ rlpParams \in Settings
    /\ LET seen == IF dispatching # Nil THEN dispatching.height ELSE head
       IN  /\ upto' = [upto EXCEPT ![s] = seen]
           /\ phase' = [phase EXCEPT ![s] = IF rlpParams.Start < seen THEN "query" ELSE "live"]
    /\ status' = [status EXCEPT ![s] = "active"]
    /\ settings' = [settings EXCEPT ![s] = rlpParams]
    /\ UNCHANGED <<pipeline, dispatching, quit, hist, held, payloadChan, delivered>>

\* rpc.Client.Subscribe, and the hub's side of it: a call of another
\* namespace or method, or with parameters that do not decode
\* (BadSubscription), is answered with an error; otherwise s is a subscriber
\* from the head on, and has a historical part if its range starts below it.
Subscribe(s, namespace, method, rlpParams) ==
    /\ ~quit /\ status[s] = "none"
    /\ IF namespace = "vdb" /\ method = "stream" /\ rlpParams \in Settings
       THEN /\ status' = [status EXCEPT ![s] = "active"]
            /\ settings' = [settings EXCEPT ![s] = rlpParams]
            /\ upto' = [upto EXCEPT ![s] = head]
            /\ phase' = [phase EXCEPT ![s] = IF rlpParams.Start < head THEN "query" ELSE "live"]
       ELSE /\ status' = [status EXCEPT ![s] = "rejected"]
            /\ UNCHANGED <<settings, upto, phase>>
    /\ UNCHANGED <<pipeline, dispatching, quit, hist, held, payloadChan, delivered>>

\* SuperNodeStreamer.Stream: the client subscribes to the stream of the vdb
\* namespace with its channel and its parameters.
Stream(payloadChanOf, rlpParams) == Subscribe(payloadChanOf, "vdb", "stream", rlpParams)

\* The sub-task of s asks the index for the blocks of its range below the
\* head it subscribed at.
Query(s) ==
    /\ Active(s) /\ phase[s] = "query"
    /\ hist' = [hist EXCEPT ![s] = {h \in index : h < upto[s] /\ Responds(s, h)}]
    /\ phase' = [phase EXCEPT ![s] = "historical"]
    /\ UNCHANGED <<pipeline, dispatching, quit, status, settings, upto, held,
                   payloadChan, delivered>>

\* It fetches and sends the lowest block it has still to send.
Historical(s) ==
    /\ Active(s) /\ phase[s] = "historical" /\ hist[s] # {} /\ ~Full(s)
    /\ Enqueue(s, Payload(settings[s], Min(hist[s])))
    /\ hist' = [hist EXCEPT ![s] = @ \ {Min(@)}]
    /\ UNCHANGED <<pipeline, dispatching, quit, status, settings, upto, phase,
                   held, delivered>>

\* A fault of Complete: the live blocks kept for s are forgotten.
Complete_heldForgotten(s) ==
    /\ Active(s) /\ phase[s] = "historical" /\ hist[s] = {} /\ ~Full(s)
    /\ Enqueue(s, BackFillComplete)
    /\ phase' = [phase EXCEPT ![s] = "live"]
    /\ UNCHANGED <<pipeline, dispatching, quit, status, settings, upto, hist,
                   held, delivered>>

\* It has sent them all and sends the mark.
Complete(s) ==
    /\ Active(s) /\ phase[s] = "historical" /\ hist[s] = {} /\ ~Full(s)
    /\ Enqueue(s, BackFillComplete)
    /\ phase' = [phase EXCEPT ![s] = IF held[s] = {} THEN "live" ELSE "flush"]
    /\ UNCHANGED <<pipeline, dispatching, quit, status, settings, upto, hist,
                   held, delivered>>

\* The live blocks kept for s are sent, the lowest first.
Flush(s) ==
    /\ Active(s) /\ phase[s] = "flush" /\ ~Full(s)
    /\ Enqueue(s, Payload(settings[s], Min(held[s])))
    /\ held' = [held EXCEPT ![s] = @ \ {Min(@)}]
    /\ phase' = [phase EXCEPT ![s] = IF held'[s] = {} THEN "live" ELSE "flush"]
    /\ UNCHANGED <<pipeline, dispatching, quit, status, settings, upto, hist,
                   delivered>>

SubTask(s) == Query(s) \/ Historical(s) \/ Complete(s) \/ Flush(s)

\* The client takes a payload from its channel; what a closed channel still
\* holds can be taken too.
Receive(s) ==
    /\ payloadChan[s] # <<>>
    /\ delivered' = [delivered EXCEPT ![s] = Append(@, Head(payloadChan[s]))]
    /\ payloadChan' = [payloadChan EXCEPT ![s] = Tail(@)]
    /\ UNCHANGED <<pipeline, dispatching, quit, status, subs>>

\* The client ends its subscription.
Unsubscribe(s) ==
    /\ Active(s)
    /\ status' = [status EXCEPT ![s] = "closed"]
    /\ UNCHANGED <<pipeline, dispatching, quit, subs, payloadChan, delivered>>

-----------------------------------------------------------------------------
Init ==
    /\ index = {} /\ buffer = {} /\ head = 1 /\ released = {}
    /\ dispatching = Nil
    /\ quit = FALSE
    /\ status = [s \in Subscribers |-> "none"]
    /\ settings = [s \in Subscribers |-> Nil]
    /\ upto = [s \in Subscribers |-> 0]
    /\ phase = [s \in Subscribers |-> "live"]
    /\ hist = [s \in Subscribers |-> {}]
    /\ held = [s \in Subscribers |-> {}]
    /\ payloadChan = [s \in Subscribers |-> <<>>]
    /\ delivered = [s \in Subscribers |-> <<>>]

Dispatch == Release \/ Skip \/ \E s \in Subscribers : Send(s) \/ Evict(s)

Next ==
    \/ \E h \in Heights : Forward(h)
    \/ Dispatch
    \/ Stop
    \/ \E s \in Subscribers, p \in Params : Stream(s, p)
    \/ \E s \in Subscribers : SubTask(s)
    \/ \E s \in Subscribers : Receive(s)
    \/ \E s \in Subscribers : Unsubscribe(s)

\* The goroutine of the hub and the sub-tasks are scheduled, and the timer of
\* a send that waits goes off.  Nothing is assumed of the clients.
Spec ==
    /\ Init /\ [][Next]_vars
    /\ WF_vars(Dispatch)
    /\ \A s \in Subscribers : WF_vars(SubTask(s) \/ Evict(s))

-----------------------------------------------------------------------------
(* Properties *)

\* What was sent to a client so far, and the heights of the blocks in it.
SentTo(s) == delivered[s] \o payloadChan[s]
IsBlock(p) == p.Flag = "EmptyFlag"
SentHeights(s) == {SentTo(s)[i].Height : i \in {j \in DOMAIN SentTo(s) : IsBlock(SentTo(s)[j])}}

\* Type invariant: a subscriber has settings that decoded, only a subscriber
\* was ever sent anything, and no channel holds more than its capacity.
TypeOK ==
    /\ index \subseteq Heights /\ buffer \subseteq index /\ released \subseteq index
    /\ Cardinality(buffer) <= ReorderSize
    /\ head \in 1..MaxHeight + 1
    /\ \A h \in buffer : h >= head
    /\ \A h \in released : h < head
    /\ dispatching # Nil =>
          dispatching.height \in released /\ dispatching.pending \in SUBSET Subscribers \ {{}}
    /\ status \in [Subscribers -> {"none", "rejected", "active", "evicted", "closed"}]
    /\ \A s \in Subscribers :
          /\ status[s] \in {"none", "rejected"} <=> settings[s] = Nil
          /\ settings[s] \in Settings \cup {Nil}
          /\ settings[s] = Nil => SentTo(s) = <<>>
          /\ phase[s] \in {"query", "historical", "flush", "live"}
          /\ hist[s] \subseteq index /\ held[s] \subseteq released
          /\ phase[s] = "flush" => held[s] # {}
          /\ Len(payloadChan[s]) <= ChanSize

\* What a subscriber is sent of a block is the response of Filter to that
\* block under the subscriber's own settings; the block is not below the
\* Start of the settings nor beyond their End, if they have one, and the
\* response holds something: a block outside the range, or with nothing of
\* what the subscriber asked for, is not sent, on the live path and on the
\* historical one alike (Filter answers a block inside the range with a
\* response even when every collection of it is empty; the hub is the one to
\* drop it).
SentAsFiltered ==
    \A s \in Subscribers :
        \A i \in DOMAIN SentTo(s) :
            LET p == SentTo(s)[i]
            IN  IsBlock(p) =>
                  /\ p.Data = Filterer!Filter(settings[s], Blocks[p.Height]).response
                  /\ settings[s].Start <= p.Height
                  /\ settings[s].End > 0 => p.Height <= settings[s].End
                  /\ \E c \in Collections : p.Data[c] # <<>>

\* Within one subscriber the blocks are sent in strictly increasing order of
\* height; the mark of the historical part is sent once, after every block
\* below the head the subscriber joined at and before every block from that
\* head on (the sub-task sends the historical blocks lowest first, and the hub
\* keeps the live ones for a subscriber until its mark is sent).
SentInOrder ==
    \A s \in Subscribers :
        LET sent == SentTo(s)
        IN  \A i, j \in DOMAIN sent : i < j =>
                  CASE IsBlock(sent[i]) /\ IsBlock(sent[j]) -> sent[i].Height < sent[j].Height
                    [] IsBlock(sent[i]) -> sent[i].Height < upto[s]
                    [] IsBlock(sent[j]) -> sent[j].Height >= upto[s]
                    [] OTHER            -> FALSE

\* Block h is on its way to subscriber s.
OnItsWay(s, h) ==
    \/ phase[s] = "query" /\ h < upto[s]
    \/ h \in hist[s] \cup held[s]
    \/ dispatching # Nil /\ dispatching.height = h /\ s \in dispatching.pending

\* No block the filter of a subscriber responds to that the hub has dispatched is missed
\* while the subscriber stays: it was sent or is on its way, whether the hub
\* dispatched it before the subscription (then the index has it, since a block
\* is indexed before it is forwarded, and the historical part covers it) or
\* after it (then the hub found the subscriber under the lock).  The seam is
\* the block being dispatched while the subscription is made.
NothingMissed ==
    \A s \in Subscribers : Active(s) =>
        \A h \in released : Responds(s, h) => h \in SentHeights(s) \/ OnItsWay(s, h)

\* A dispatch ends, whatever the clients do: a subscriber that does not take
\* what it is sent is evicted, and does not hold up the others.
DispatchCompletes == (dispatching # Nil) ~> (dispatching = Nil)

\* Every dispatched block of the range of a subscriber is in the end sent to
\* it, unless the subscriber leaves or is evicted first: the historical part
\* ends, the mark is sent and the blocks kept meanwhile follow it.
EventuallySent ==
    \A s \in Subscribers, h \in Heights :
        (Active(s) /\ h \in released /\ Responds(s, h))
            ~> (~Active(s) \/ h \in SentHeights(s))

=============================================================================
