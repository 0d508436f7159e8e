------------------------------ MODULE SSEBroker ------------------------------
(* SSEBroker (internal/web/sse.go): the event streams of the dashboard.  Every   *)
(* stream is a handler goroutine that subscribes a channel, pumps it to its      *)
(* peer and unsubscribes it; Publish walks the subscribed channels under the     *)
(* read lock.  Events are numbered in the order they are published.              *)
EXTENDS Integers, Sequences, FiniteSets

CONSTANTS
    Streams,      \* the streams clients open, each with a channel of its own
    MaxClients,   \* maxSSESubscribers
    Buffer,       \* sseChannelBuffer
    MaxEvents     \* bound: how many events are published

ASSUME SSEAssumption ==
    MaxClients \in Nat \ {0} /\ Buffer \in Nat \ {0} /\ MaxEvents \in Nat

VARIABLES
    stream,      \* per stream: where ServeHTTP is
    subscribed,  \* SSEBroker.clients
    queue,       \* per stream: the channel's buffer
    closed,      \* channels that are closed
    peer,        \* streams whose peer still reads
    published,   \* events published so far
    pending,     \* channels the publish in progress has not visited
    received     \* history: the events each stream's peer was sent

sseVars == <<stream, subscribed, queue, closed, peer, published, pending, received>>

SSEInit ==
    /\ stream = [s \in Streams |-> "new"]
    /\ subscribed = {} /\ closed = {} /\ peer = Streams
    /\ queue = [s \in Streams |-> << >>]
    /\ published = 0 /\ pending = {}
    /\ received = [s \in Streams |-> << >>]

\* A publish holds the read lock until it has visited every channel.
ReadLocked == pending # {}

\* ServeHTTP subscribes, or answers 503 when the broker is full.
Subscribe(s) ==
    /\ stream[s] = "new" /\ ~ReadLocked
    /\ IF Cardinality(subscribed) >= MaxClients
       THEN stream' = [stream EXCEPT ![s] = "refused"] /\ UNCHANGED subscribed
       ELSE stream' = [stream EXCEPT ![s] = "pumping"] /\ subscribed' = subscribed \cup {s}
    /\ UNCHANGED <<queue, closed, peer, published, pending, received>>

\* publishStats publishes only while somebody listens.
PublishStart ==
    /\ ~ReadLocked /\ subscribed # {} /\ published < MaxEvents
    /\ published' = published + 1
    /\ pending' = subscribed
    /\ UNCHANGED <<stream, subscribed, queue, closed, peer, received>>

\* Variant: a full channel takes the event all the same.
PublishSendGrows(s) ==
    /\ s \in pending
    /\ pending' = pending \ {s}
    /\ queue' = [queue EXCEPT ![s] = Append(@, published)]
    /\ UNCHANGED <<stream, subscribed, closed, peer, published, received>>

\* The non-blocking send: a full channel drops the event.
PublishSend(s) ==
    /\ s \in pending
    /\ pending' = pending \ {s}
    /\ queue' = [queue EXCEPT ![s] = IF Len(@) < Buffer THEN Append(@, published) ELSE @]
    /\ UNCHANGED <<stream, subscribed, closed, peer, published, received>>

\* pump takes an event from the channel and writes it; a failed write ends it.
PumpEvent(s) ==
    /\ stream[s] = "pumping" /\ queue[s] # << >>
    /\ queue' = [queue EXCEPT ![s] = Tail(@)]
    /\ IF s \in peer
       THEN received' = [received EXCEPT ![s] = Append(@, Head(queue[s]))] /\ UNCHANGED stream
       ELSE stream' = [stream EXCEPT ![s] = "leaving"] /\ UNCHANGED received
    /\ UNCHANGED <<subscribed, closed, peer, published, pending>>

\* Variant: without keep-alive frames only an event shows that the peer is gone.
KeepAliveNever(s) ==
    /\ stream[s] = "pumping" /\ s \notin peer /\ queue[s] # << >>
    /\ stream' = [stream EXCEPT ![s] = "leaving"]
    /\ UNCHANGED <<subscribed, queue, closed, peer, published, pending, received>>

\* pump writes a keep-alive frame, which a vanished peer does not take.
KeepAlive(s) ==
    /\ stream[s] = "pumping" /\ s \notin peer
    /\ stream' = [stream EXCEPT ![s] = "leaving"]
    /\ UNCHANGED <<subscribed, queue, closed, peer, published, pending, received>>

\* The peer closes the connection, and the request context ends.
ContextEnds(s) ==
    /\ stream[s] = "pumping"
    /\ stream' = [stream EXCEPT ![s] = "leaving"]
    /\ peer' = peer \ {s}
    /\ UNCHANGED <<subscribed, queue, closed, published, pending, received>>

\* The peer vanishes without closing the connection.
PeerVanishes(s) ==
    /\ stream[s] = "pumping" /\ s \in peer
    /\ peer' = peer \ {s}
    /\ UNCHANGED <<stream, subscribed, queue, closed, published, pending, received>>

\* Variant: the channel is removed without the lock.
UnsubscribeNoLock(s) ==
    /\ stream[s] = "leaving"
    /\ subscribed' = subscribed \ {s}
    /\ stream' = [stream EXCEPT ![s] = "removed"]
    /\ UNCHANGED <<queue, closed, peer, published, pending, received>>

\* Unsubscribe: the channel leaves the set under the lock and is closed after it.
Unsubscribe(s) ==
    /\ stream[s] = "leaving" /\ ~ReadLocked
    /\ subscribed' = subscribed \ {s}
    /\ stream' = [stream EXCEPT ![s] = "removed"]
    /\ UNCHANGED <<queue, closed, peer, published, pending, received>>

CloseChannel(s) ==
    /\ stream[s] = "removed"
    /\ closed' = closed \cup {s}
    /\ stream' = [stream EXCEPT ![s] = "gone"]
    /\ UNCHANGED <<subscribed, queue, peer, published, pending, received>>

Pump(s) == PumpEvent(s) \/ KeepAlive(s) \/ ContextEnds(s)
ServeStream(s) == Subscribe(s) \/ Pump(s) \/ Unsubscribe(s) \/ CloseChannel(s)

SSENext ==
    \/ PublishStart
    \/ \E s \in Streams : PublishSend(s) \/ ServeStream(s) \/ PeerVanishes(s)

\* Goroutines are scheduled, the keep-alive ticker fires, and a publish ends.
SSEFair ==
    \A s \in Streams :
        /\ WF_sseVars(PublishSend(s)) /\ WF_sseVars(KeepAlive(s))
        /\ WF_sseVars(Unsubscribe(s)) /\ WF_sseVars(CloseChannel(s))

SSESpec == SSEInit /\ [][SSENext]_sseVars /\ SSEFair

-----------------------------------------------------------------------------
SSETypeOK ==
    /\ stream \in [Streams -> {"new", "refused", "pumping", "leaving", "removed", "gone"}]
    /\ subscribed \subseteq Streams /\ closed \subseteq Streams /\ peer \subseteq Streams
    /\ pending \subseteq Streams
    /\ queue \in [Streams -> Seq(1..MaxEvents)] /\ \A s \in Streams : Len(queue[s]) <= Buffer
    /\ received \in [Streams -> Seq(1..MaxEvents)]
    /\ published \in 0..MaxEvents

\* Publish never sends to a closed channel, which would panic the process, and
\* the broker never holds more than MaxClients streams.
NoSendOnClosed ==
    /\ pending \cap closed = {} /\ pending \subseteq subscribed
    /\ Cardinality(subscribed) <= MaxClients

\* Dropping events on a full channel never reorders or repeats them: a stream
\* sees each event at most once, in the order of publication.
InOrder ==
    \A s \in Streams : LET seen == received[s] \o queue[s]
                       IN  \A i, j \in DOMAIN seen : i < j => seen[i] < seen[j]

\* What a peer received and what its channel holds, all of it up to event n.
Flow(got, waiting, n) ==
    /\ \A i, j \in DOMAIN got : i < j => got[i] < got[j]
    /\ \A i, j \in DOMAIN waiting : i < j => waiting[i] < waiting[j]
    /\ \A i \in DOMAIN got, j \in DOMAIN waiting : got[i] < waiting[j]
    /\ \A i \in DOMAIN got : got[i] <= n
    /\ \A i \in DOMAIN waiting : waiting[i] <= n

\* Why it is so: the broker holds exactly the channels whose streams pump or
\* leave, a channel is closed by the stream that has left, and a channel that has
\* yet to be visited holds events before the one being published.
SSEInv ==
    /\ SSETypeOK /\ NoSendOnClosed /\ IsFiniteSet(subscribed)
    /\ pending # {} => published > 0
    /\ subscribed = {s \in Streams : stream[s] \in {"pumping", "leaving"}}
    /\ closed = {s \in Streams : stream[s] = "gone"}
    /\ \A s \in Streams :
          Flow(received[s], queue[s], IF s \in pending THEN published - 1 ELSE published)

\* A peer that vanished gives its slot back, even when nothing is published.
VanishedLeaves == \A s \in Streams : (s \notin peer) ~> (s \notin subscribed)

=============================================================================
