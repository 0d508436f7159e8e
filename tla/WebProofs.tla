------------------------------ MODULE WebProofs ------------------------------
EXTENDS MCWeb, FiniteSetTheorems, SequenceTheorems, TLAPS

(* The safety of what runs inside the web process, for any number of loops,    *)
(* requests, streams, events and leases: the server's start and end, the       *)
(* event streams and the lease watcher.  Each has an inductive invariant; the  *)
(* last section combines them for the process as a whole.                      *)

-----------------------------------------------------------------------------
(* The server's life.                                                          *)

\* The exit of the process, which is drained only by DrainBackground.
LEMMA ExitStep ==
    ASSUME ServerInv, Exit, drained' \in {"no", "yes", "timeout"},
           drained' = "yes" => \A l \in Counted : loops[l] = "gone"
    PROVE  ServerInv'
<1>. USE DEF ServerInv, ServerTypeOK, Exit, startup, Loops
<1>1. ServerTypeOK'
  BY DEF Stepping, WebServing
<1>2. CountedFinish'
  <2>1. drained' = "yes" => Stepping \cap Counted = {}
    BY DEF Stepping
  <2>2. WebServing \cap Counted = {}
    BY ServerAssumption DEF WebServing
  <2>. QED BY <2>1, <2>2 DEF CountedFinish
<1>3. RestoredBeforeServing'
  BY DEF ServerSound, RestoredBeforeServing
<1>. QED BY <1>1, <1>2, <1>3 DEF ServerSound

\* Every step of Serve, its loops, its requests and the signal preserves ServerInv.
LEMMA ServerStep == ServerInv /\ [ServerNext]_serverVars => ServerInv'
<1>. SUFFICES ASSUME ServerInv, [ServerNext]_serverVars PROVE ServerInv'
  OBVIOUS
<1>. USE DEF ServerInv, ServerSound
<1>1. CASE EnsureSessionSecret
  <2>1. secret' \in [live : BOOLEAN, saved : BOOLEAN]
    <3>1. PICK stored \in {TRUE, secret.saved} : secret' = [live |-> TRUE, saved |-> stored]
      BY <1>1, Zenon DEF EnsureSessionSecret
    <3>2. secret.saved \in BOOLEAN
      BY DEF ServerTypeOK
    <3>. QED BY <3>1, <3>2, Zenon
  <2>. QED BY <1>1, <2>1 DEF EnsureSessionSecret, ServerTypeOK, CountedFinish, RestoredBeforeServing
<1>2. CASE NewServer
  BY <1>2 DEF NewServer, ServerTypeOK, CountedFinish, RestoredBeforeServing
<1>3. CASE LoadSavedState
  BY <1>3 DEF LoadSavedState, ServerTypeOK, CountedFinish, RestoredBeforeServing
<1>4. ASSUME NEW l \in Loops, StartLoop(l) PROVE ServerInv'
  BY <1>4 DEF StartLoop, startup, ServerTypeOK, CountedFinish, RestoredBeforeServing
<1>5. CASE StartShutdownWatcher
  BY <1>5 DEF StartShutdownWatcher, startup, ServerTypeOK, CountedFinish, RestoredBeforeServing
<1>6. CASE Listen \/ Terminate \/ ListenReturns
  <2>1. CASE Listen
    BY <2>1 DEF Listen, startup, ServerTypeOK, CountedFinish, RestoredBeforeServing
  <2>2. CASE Terminate
    BY <2>2 DEF Terminate, startup, ServerTypeOK, CountedFinish, RestoredBeforeServing
  <2>3. CASE ListenReturns
    BY <2>3 DEF ListenReturns, startup, ServerTypeOK, CountedFinish, RestoredBeforeServing
  <2>. QED BY <1>6, <2>1, <2>2, <2>3
<1>7. CASE CloseListener
  BY <1>7 DEF CloseListener, StopBackgroundSweepers, ServerTypeOK, CountedFinish,
              RestoredBeforeServing
<1>8. CASE server # "exited" /\ drained' = drained /\ Exit
  BY <1>8, ExitStep
<1>9. CASE ListenerDies
  <2>1. CASE signalled
    BY <1>9, <2>1 DEF ListenerDies, startup, ServerTypeOK, CountedFinish, RestoredBeforeServing
  <2>2. CASE ~signalled
    BY <1>8, <1>9, <2>2 DEF ListenerDies
  <2>. QED BY <2>1, <2>2
<1>10. CASE DrainBackground
  BY <1>10, ExitStep DEF DrainBackground, Drained
<1>11. ASSUME NEW l \in Loops, LoopStep(l) PROVE ServerInv'
  BY <1>11 DEF LoopStep, startup, ServerTypeOK, CountedFinish, RestoredBeforeServing
<1>12. ASSUME NEW r \in Requests, TakeRequest(r) \/ Answer(r) PROVE ServerInv'
  BY <1>12 DEF TakeRequest, Answer, startup, ServerTypeOK, CountedFinish, RestoredBeforeServing
<1>13. CASE UNCHANGED serverVars
  BY <1>13 DEF serverVars, startup, ServerTypeOK, CountedFinish, RestoredBeforeServing
<1>14. CASE RunServe
  BY <1>14, <1>1, <1>2, <1>8 DEF RunServe
<1>15. CASE TLSFails
  BY <1>15, <1>8 DEF TLSFails
<1>. QED
  BY <1>3, <1>4, <1>5, <1>6, <1>7, <1>9, <1>10, <1>11, <1>12, <1>13, <1>14, <1>15
  DEF ServerNext, Serve

\* A process that has just started has served nothing and drained nothing.
LEMMA ServerStart == ServerInit => ServerInv
<1>. SUFFICES ASSUME ServerInit PROVE ServerInv
  OBVIOUS
<1>1. secret \in [live : BOOLEAN, saved : BOOLEAN]
  BY Zenon DEF ServerInit
<1>. QED
  BY <1>1, Zenon DEF ServerInit, ServerInv, ServerTypeOK, ServerSound, CountedFinish, RestoredBeforeServing

\* Nothing is served before the saved state is back and every loop was started,
\* and a drain that did not time out cuts off no loop the wait group counts
\* (Serve, drainBackground).
THEOREM ServerIsSound == ServerSpec => []ServerSound
<1>1. ServerInv => ServerSound
  BY DEF ServerInv
<1>. QED BY <1>1, ServerStart, ServerStep, PTL DEF ServerSpec

-----------------------------------------------------------------------------
(* The lease watcher.                                                          *)

\* A watcher that has not started has seen nothing.
LEMMA LeaseStart == LeaseInit => LeaseInv
<1>. SUFFICES ASSUME LeaseInit PROVE LeaseInv
  OBVIOUS
<1>1. debounceArmed \in BOOLEAN /\ leaseMissed \in BOOLEAN /\ leaseCtx \in BOOLEAN /\ ~debounceArmed
  BY Zenon DEF LeaseInit
<1>2. fsEvents = 0 /\ ~(fsEvents > 0) /\ fsEvents \in Nat
  BY DEF LeaseInit
<1>. QED BY <1>1, <1>2 DEF LeaseInit, LeaseInv, LeaseTypeOK, LeaseSeen, Watching

\* Every step of dhcp6c, the watcher and its dispatch preserves LeaseInv.
LEMMA LeaseStep == LeaseInv /\ [LeaseNext]_leaseVars => LeaseInv'
<1>. SUFFICES ASSUME LeaseInv, [LeaseNext]_leaseVars PROVE LeaseInv'
  OBVIOUS
<1>. USE DEF LeaseInv, LeaseTypeOK, LeaseSeen, Watching
<1>1. ASSUME NEW l \in Leases \cup {NoLease}, LeaseWrite(l) PROVE LeaseInv'
  BY <1>1 DEF LeaseWrite
<1>2. CASE StartLeaseWatcher \/ LeaseShutdown
  <2>1. leaseCtx' \in BOOLEAN
    BY <1>2, Zenon DEF StartLeaseWatcher, LeaseShutdown
  <2>. QED BY <1>2, <2>1 DEF StartLeaseWatcher, LeaseShutdown
<1>3. CASE WatcherEvent
  <2>1. debounceArmed' \in BOOLEAN /\ debounceArmed'
    BY <1>3 DEF WatcherEvent, Arm
  <2>. QED BY <1>3, <2>1 DEF WatcherEvent
<1>4. CASE DebounceFires \/ WatcherStops
  <2>1. debounceArmed' \in BOOLEAN /\ ~debounceArmed'
    BY <1>4, Zenon DEF DebounceFires, WatcherStops
  <2>2. LeaseTypeOK'
    BY <1>4, <2>1 DEF DebounceFires, WatcherStops
  <2>. QED BY <1>4, <2>1, <2>2 DEF DebounceFires, WatcherStops
<1>5. CASE DispatchRead \/ DispatchReadFails
  BY <1>5, Zenon DEF DispatchRead, DispatchReadFails
<1>6. CASE DispatchCompare
  BY <1>6 DEF DispatchCompare
<1>7. CASE RefreshRADropIn \/ DispatchCallback
  BY <1>7 DEF RefreshRADropIn, DispatchCallback
<1>8. CASE UNCHANGED leaseVars
  BY <1>8 DEF leaseVars
<1>. QED
  BY <1>1, <1>2, <1>3, <1>4, <1>5, <1>6, <1>7, <1>8
  DEF LeaseNext, LeaseGoroutine, RunLeaseWatcher, DispatchLeaseLocked

\* A watcher that waits with nothing pending has given the hook the lease on disk,
\* whenever the file was written (runLeaseWatcher, dispatchLeaseLocked).
THEOREM LeaseIsSeen == LeaseSpec => []LeaseSeen
<1>1. LeaseInv => LeaseSeen
  BY DEF LeaseInv
<1>. QED BY <1>1, LeaseStart, LeaseStep, PTL DEF LeaseSpec

-----------------------------------------------------------------------------
(* The event streams.                                                          *)

\* Publish puts an event behind everything that came before it.
LEMMA FlowAppend ==
    ASSUME NEW got \in Seq(Nat), NEW waiting \in Seq(Nat), NEW n \in Nat,
           Flow(got, waiting, n - 1)
    PROVE  Flow(got, Append(waiting, n), n)
<1>. DEFINE longer == Append(waiting, n)
            m == Len(waiting)
<1>1. /\ m \in Nat /\ DOMAIN waiting = 1..m /\ DOMAIN longer = 1..(m + 1) /\ longer[m + 1] = n
      /\ \A i \in DOMAIN waiting : longer[i] = waiting[i] /\ waiting[i] \in Nat
      /\ \A i \in DOMAIN got : got[i] \in Nat
  OBVIOUS
<1>. HIDE DEF longer, m
<1>2. \A i \in 1..(m + 1) : i \in 1..m \/ i = m + 1
  BY <1>1
<1>3. \A i, j \in 1..(m + 1) : i < j => i \in 1..m
  BY <1>1
<1>4. \A i \in DOMAIN waiting : waiting[i] < n
  BY <1>1 DEF Flow
<1>5. \A i \in DOMAIN got : got[i] < n
  BY <1>1 DEF Flow
<1>6. ASSUME NEW i \in DOMAIN longer, NEW j \in DOMAIN longer, i < j PROVE longer[i] < longer[j]
  <2>1. i \in DOMAIN waiting /\ longer[i] = waiting[i] /\ waiting[i] < n
    BY <1>1, <1>3, <1>4, <1>6
  <2>2. CASE j \in DOMAIN waiting
    <3>1. waiting[i] < waiting[j]
      BY <1>6, <2>1, <2>2 DEF Flow
    <3>. QED BY <1>1, <2>1, <2>2, <3>1
  <2>3. CASE j = m + 1
    BY <1>1, <2>1, <2>3
  <2>. QED BY <1>1, <1>2, <2>2, <2>3
<1>7. \A i \in DOMAIN got, j \in DOMAIN longer : got[i] < longer[j]
  BY <1>1, <1>2, <1>5, Zenon DEF Flow
<1>8. ASSUME NEW i \in DOMAIN longer PROVE longer[i] <= n
  <2>1. CASE i \in DOMAIN waiting
    BY <1>1, <1>4, <2>1
  <2>2. CASE i = m + 1
    BY <1>1, <2>2
  <2>. QED BY <1>1, <1>2, <2>1, <2>2
<1>9. Flow(got, longer, n)
  BY <1>1, <1>5, <1>6, <1>7, <1>8 DEF Flow
<1>. QED BY <1>9 DEF longer

\* The pump moves the oldest event of the channel to the peer.
LEMMA FlowMove ==
    ASSUME NEW got \in Seq(Nat), NEW waiting \in Seq(Nat), NEW n \in Int,
           waiting # << >>, Flow(got, waiting, n)
    PROVE  Flow(Append(got, Head(waiting)), Tail(waiting), n) /\ Flow(got, Tail(waiting), n)
<1>. DEFINE rest == Tail(waiting)
           more == Append(got, Head(waiting))
<1>1. /\ rest \in Seq(Nat) /\ Head(waiting) = waiting[1] /\ 1 \in DOMAIN waiting /\ waiting[1] \in Nat
      /\ \A i \in DOMAIN rest : i + 1 \in DOMAIN waiting /\ rest[i] = waiting[i + 1] /\ 1 < i + 1
  OBVIOUS
<1>2. /\ DOMAIN more = 1..(Len(got) + 1) /\ more[Len(got) + 1] = waiting[1]
      /\ \A i \in DOMAIN got : more[i] = got[i] /\ got[i] \in Nat
      /\ DOMAIN got = 1..Len(got) /\ Len(got) \in Nat
  BY <1>1
<1>3. DOMAIN rest \subseteq Nat /\ \A i \in DOMAIN rest : rest[i] \in Nat
  BY <1>1
<1>. HIDE DEF rest, more
<1>4. \A i, j \in DOMAIN rest : i < j => rest[i] < rest[j]
  <2>. SUFFICES ASSUME NEW i \in DOMAIN rest, NEW j \in DOMAIN rest, i < j PROVE rest[i] < rest[j]
    OBVIOUS
  <2>1. i + 1 < j + 1
    BY <1>3
  <2>2. waiting[i + 1] < waiting[j + 1]
    BY <2>1, <1>1 DEF Flow
  <2>. QED BY <2>2, <1>1
<1>5. \A i \in DOMAIN rest : rest[i] <= n /\ waiting[1] < rest[i]
  BY <1>1, <1>3 DEF Flow
<1>6. \A i \in DOMAIN more : i \in DOMAIN got \/ i = Len(got) + 1
  BY <1>2
<1>7. \A i, j \in DOMAIN more : i < j => i \in DOMAIN got
  BY <1>2
<1>8. Flow(got, rest, n)
  BY <1>1, <1>3, <1>4, <1>5 DEF Flow
<1>9. Flow(more, rest, n)
  <2>1. \A i, j \in DOMAIN more : i < j => more[i] < more[j]
    <3>. SUFFICES ASSUME NEW i \in DOMAIN more, NEW j \in DOMAIN more, i < j PROVE more[i] < more[j]
      OBVIOUS
    <3>1. i \in DOMAIN got /\ more[i] = got[i]
      BY <1>2, <1>7
    <3>2. CASE j \in DOMAIN got
      BY <3>1, <3>2, <1>2 DEF Flow
    <3>3. CASE j = Len(got) + 1
      BY <3>1, <3>3, <1>1, <1>2 DEF Flow
    <3>. QED BY <3>2, <3>3, <1>6
  <2>2. \A i \in DOMAIN more : more[i] <= n
    BY <1>1, <1>2, <1>6 DEF Flow
  <2>3. \A i \in DOMAIN more, j \in DOMAIN rest : more[i] < rest[j]
    BY <1>1, <1>2, <1>5, <1>6, <1>8, Zenon DEF Flow
  <2>. QED BY <1>4, <1>5, <2>1, <2>2, <2>3 DEF Flow
<1>. QED BY <1>8, <1>9 DEF rest, more

\* An event that is published is newer than all others.
LEMMA FlowLater ==
    ASSUME NEW got \in Seq(Nat), NEW waiting \in Seq(Nat), NEW n \in Int, NEW m \in Int,
           n <= m, Flow(got, waiting, n)
    PROVE  Flow(got, waiting, m)
  BY DEF Flow

\* A flow is what InOrder says of the two sequences put together.
LEMMA FlowInOrder ==
    ASSUME NEW got \in Seq(Nat), NEW waiting \in Seq(Nat), NEW n \in Int, Flow(got, waiting, n)
    PROVE  LET seen == got \o waiting
           IN  \A i, j \in DOMAIN seen : i < j => seen[i] < seen[j]
<1>. DEFINE seen == got \o waiting
            m == Len(got)
<1>1. /\ m \in Nat /\ DOMAIN got = 1..m /\ DOMAIN waiting \subseteq Int
      /\ \A i \in DOMAIN seen : i \in Int /\ (i \in DOMAIN got \/ (i > m /\ i - m \in DOMAIN waiting))
  OBVIOUS
<1>2. \A i \in DOMAIN got : seen[i] = got[i]
  OBVIOUS
<1>3. \A i \in DOMAIN seen : i > m => seen[i] = waiting[i - m]
  OBVIOUS
<1>. HIDE DEF seen, m
<1>4. ASSUME NEW i \in DOMAIN seen, NEW j \in DOMAIN seen, i < j PROVE seen[i] < seen[j]
  <2>1. CASE i \in DOMAIN got /\ j \in DOMAIN got
    BY <1>2, <1>4, <2>1 DEF Flow
  <2>2. CASE i \in DOMAIN got /\ j > m /\ j - m \in DOMAIN waiting
    BY <1>2, <1>3, <2>2 DEF Flow
  <2>3. CASE i > m /\ i - m \in DOMAIN waiting
    <3>1. j > m /\ j - m \in DOMAIN waiting /\ i - m < j - m
      BY <1>1, <1>4, <2>3
    <3>2. waiting[i - m] < waiting[j - m]
      BY <2>3, <3>1 DEF Flow
    <3>. QED BY <1>3, <2>3, <3>1, <3>2
  <2>. QED BY <1>1, <2>1, <2>2, <2>3
<1>. QED BY <1>4 DEF seen

\* A new broker holds no stream.
LEMMA SSEStart == SSEInit => SSEInv
<1>. SUFFICES ASSUME SSEInit PROVE SSEInv
  OBVIOUS
<1>1. SSETypeOK
  BY SSEAssumption DEF SSEInit, SSETypeOK
<1>2. NoSendOnClosed /\ IsFiniteSet(subscribed)
  BY FS_EmptySet, SSEAssumption DEF SSEInit, NoSendOnClosed
<1>3. \A s \in Streams : Flow(received[s], queue[s], published)
  BY DEF SSEInit, Flow
<1>. QED BY <1>1, <1>2, <1>3 DEF SSEInit, SSEInv

\* What a channel and its peer hold are sequences of event numbers.
LEMMA EventTypes ==
    ASSUME SSEInv, NEW s \in Streams
    PROVE  /\ received[s] \in Seq(Nat) /\ queue[s] \in Seq(Nat) /\ published \in Nat
           /\ received[s] \in Seq(1..MaxEvents) /\ queue[s] \in Seq(1..MaxEvents)
<1>1. 1..MaxEvents \subseteq Nat /\ published \in Nat
  BY SSEAssumption DEF SSEInv, SSETypeOK
<1>2. received[s] \in Seq(1..MaxEvents) /\ queue[s] \in Seq(1..MaxEvents)
  BY DEF SSEInv, SSETypeOK
<1>3. \A e \in Seq(1..MaxEvents) : e \in Seq(Nat)
  BY <1>1, SeqMonotonic, Zenon
<1>. QED BY ONLY <1>1, <1>2, <1>3

\* Subscribe: a stream joins while there is a free place.
LEMMA SubscribeStep ==
    ASSUME SSEInv, NEW s \in Streams, Subscribe(s) PROVE SSEInv'
<1>1. stream[s] = "new" /\ s \notin subscribed /\ s \notin closed
  BY DEF Subscribe, SSEInv
<1>2. SSETypeOK'
  BY Zenon DEF Subscribe, SSEInv, SSETypeOK
<1>3. IsFiniteSet(subscribed)' /\ (Cardinality(subscribed) <= MaxClients)'
  <2>1. CASE subscribed' = subscribed
    BY <2>1 DEF Subscribe, SSEInv, NoSendOnClosed
  <2>2. CASE subscribed' = subscribed \cup {s} /\ ~(Cardinality(subscribed) >= MaxClients)
    <3>1. IsFiniteSet(subscribed) /\ Cardinality(subscribed) \in Nat
      BY FS_CardinalityType DEF SSEInv
    <3>2. IsFiniteSet(subscribed') /\ Cardinality(subscribed') = Cardinality(subscribed) + 1
      BY <3>1, <2>2, <1>1, FS_AddElement
    <3>. QED BY <2>2, <3>1, <3>2, SSEAssumption
  <2>. QED BY <2>1, <2>2 DEF Subscribe
<1>4. NoSendOnClosed'
  BY <1>3 DEF Subscribe, SSEInv, NoSendOnClosed
<1>5. /\ subscribed' = {t \in Streams : stream'[t] \in {"pumping", "leaving"}}
      /\ closed' = {t \in Streams : stream'[t] = "gone"}
  BY <1>1 DEF Subscribe, SSEInv, SSETypeOK
<1>. QED BY <1>2, <1>3, <1>4, <1>5 DEF Subscribe, SSEInv

\* PublishStart: what was published so far is older than the new event.
LEMMA PublishStartStep ==
    ASSUME SSEInv, PublishStart PROVE SSEInv'
<1>1. SSETypeOK'
  BY SSEAssumption DEF PublishStart, SSEInv, SSETypeOK
<1>2. NoSendOnClosed'
  BY DEF PublishStart, SSEInv, NoSendOnClosed
<1>3. ASSUME NEW s \in Streams
      PROVE  Flow(received'[s], queue'[s], IF s \in pending' THEN published' - 1 ELSE published')
  <2>1. published \in Nat /\ published' = published + 1 /\ pending = {}
    BY EventTypes DEF PublishStart, ReadLocked
  <2>2. Flow(received[s], queue[s], published)
    BY <2>1 DEF SSEInv
  <2>3. Flow(received[s], queue[s], published + 1)
    BY <2>1, <2>2, EventTypes, FlowLater
  <2>4. published' - 1 = published
    BY <2>1
  <2>. QED BY <2>1, <2>2, <2>3, <2>4 DEF PublishStart
<1>4. published' > 0
  BY DEF PublishStart, SSEInv, SSETypeOK
<1>. QED BY <1>1, <1>2, <1>3, <1>4 DEF PublishStart, SSEInv

\* PublishSend: the event goes to the end of a channel, or is dropped.
LEMMA PublishSendStep ==
    ASSUME SSEInv, NEW s \in Streams, PublishSend(s) PROVE SSEInv'
<1>. DEFINE q == IF Len(queue[s]) < Buffer THEN Append(queue[s], published) ELSE queue[s]
<1>1. published \in 1..MaxEvents /\ published \in Nat
  BY SSEAssumption DEF PublishSend, SSEInv, SSETypeOK
<1>2. queue' = [queue EXCEPT ![s] = q]
  BY DEF PublishSend
<1>3. q \in Seq(1..MaxEvents) /\ Len(q) <= Buffer
  <2>1. queue[s] \in Seq(1..MaxEvents) /\ Len(queue[s]) <= Buffer /\ Len(queue[s]) \in Nat /\ Buffer \in Nat
    BY EventTypes, SSEAssumption DEF SSEInv, SSETypeOK
  <2>2. /\ Append(queue[s], published) \in Seq(1..MaxEvents)
        /\ Len(Append(queue[s], published)) = Len(queue[s]) + 1
    BY <2>1, <1>1
  <2>3. CASE Len(queue[s]) < Buffer
    BY <2>1, <2>2, <2>3
  <2>4. CASE ~(Len(queue[s]) < Buffer)
    BY <2>1, <2>4
  <2>. QED BY <2>3, <2>4
<1>4. Flow(received[s], q, published)
  <2>1. Flow(received[s], queue[s], published - 1)
    BY DEF SSEInv, PublishSend
  <2>2. Flow(received[s], Append(queue[s], published), published)
    BY <1>1, <2>1, EventTypes, FlowAppend
  <2>3. Flow(received[s], queue[s], published)
    <3>1. received[s] \in Seq(Nat) /\ queue[s] \in Seq(Nat)
      BY EventTypes
    <3>2. published - 1 \in Int /\ published \in Int /\ published - 1 <= published
      BY <1>1
    <3>. QED BY ONLY <3>1, <3>2, <2>1, FlowLater
  <2>. QED BY <2>2, <2>3
<1>. HIDE DEF q
<1>5. SSETypeOK'
  BY <1>2, <1>3, Zenon DEF PublishSend, SSEInv, SSETypeOK
<1>6. NoSendOnClosed'
  BY DEF PublishSend, SSEInv, NoSendOnClosed
<1>7. ASSUME NEW t \in Streams
      PROVE  Flow(received'[t], queue'[t], IF t \in pending' THEN published' - 1 ELSE published')
  BY <1>2, <1>4, Zenon DEF PublishSend, SSEInv, SSETypeOK
<1>. QED BY <1>5, <1>6, <1>7, Zenon DEF PublishSend, SSEInv

\* PumpEvent: the oldest event of the channel reaches the peer, or is lost with it.
LEMMA PumpEventStep ==
    ASSUME SSEInv, NEW s \in Streams, PumpEvent(s) PROVE SSEInv'
<1>1. stream[s] = "pumping" /\ queue[s] # << >> /\ queue' = [queue EXCEPT ![s] = Tail(queue[s])]
  BY DEF PumpEvent
<1>2. /\ Tail(queue[s]) \in Seq(1..MaxEvents) /\ Len(Tail(queue[s])) <= Buffer
      /\ Append(received[s], Head(queue[s])) \in Seq(1..MaxEvents)
  <2>1. received[s] \in Seq(1..MaxEvents) /\ queue[s] \in Seq(1..MaxEvents)
    BY EventTypes
  <2>2. Len(queue[s]) <= Buffer /\ Buffer \in Nat
    BY SSEAssumption DEF SSEInv, SSETypeOK
  <2>3. Tail(queue[s]) \in Seq(1..MaxEvents) /\ Head(queue[s]) \in 1..MaxEvents
    BY ONLY <1>1, <2>1, HeadTailProperties, Zenon
  <2>4. Len(Tail(queue[s])) = Len(queue[s]) - 1 /\ Len(queue[s]) \in Nat
    BY ONLY <1>1, <2>1
  <2>5. Append(received[s], Head(queue[s])) \in Seq(1..MaxEvents)
    BY ONLY <2>1, <2>3
  <2>6. Len(Tail(queue[s])) <= Buffer
    BY ONLY <2>2, <2>4
  <2>. QED BY <2>3, <2>5, <2>6
<1>3. \/ stream' = stream /\ received' = [received EXCEPT ![s] = Append(received[s], Head(queue[s]))]
      \/ received' = received /\ stream' = [stream EXCEPT ![s] = "leaving"]
  BY DEF PumpEvent
<1>4. SSETypeOK'
  <2>1. queue' \in [Streams -> Seq(1..MaxEvents)] /\ \A t \in Streams : Len(queue'[t]) <= Buffer
    BY <1>1, <1>2 DEF SSEInv, SSETypeOK
  <2>2. received' \in [Streams -> Seq(1..MaxEvents)]
    BY <1>2, <1>3, Zenon DEF SSEInv, SSETypeOK
  <2>3. stream' \in [Streams -> {"new", "refused", "pumping", "leaving", "removed", "gone"}]
    BY <1>3, Zenon DEF SSEInv, SSETypeOK
  <2>. QED BY <2>1, <2>2, <2>3 DEF PumpEvent, SSEInv, SSETypeOK
<1>5. NoSendOnClosed'
  BY DEF PumpEvent, SSEInv, NoSendOnClosed
<1>6. /\ subscribed' = {t \in Streams : stream'[t] \in {"pumping", "leaving"}}
      /\ closed' = {t \in Streams : stream'[t] = "gone"}
  BY <1>1, <1>3 DEF PumpEvent, SSEInv, SSETypeOK
<1>7. ASSUME NEW t \in Streams
      PROVE  Flow(received'[t], queue'[t], IF t \in pending' THEN published' - 1 ELSE published')
  <2>. DEFINE n == IF t \in pending THEN published - 1 ELSE published
  <2>1. n \in Int /\ Flow(received[t], queue[t], n)
    <3>1. published \in Nat
      BY EventTypes
    <3>2. n \in Int
      BY ONLY <3>1
    <3>. QED BY <3>2 DEF SSEInv
  <2>. HIDE DEF n
  <2>2. t = s => /\ Flow(Append(received[t], Head(queue[t])), Tail(queue[t]), n)
                 /\ Flow(received[t], Tail(queue[t]), n)
    BY <1>1, <2>1, EventTypes, FlowMove
  <2>3. Flow(received'[t], queue'[t], n)
    <3>1. CASE t = s
      <4>1. queue'[t] = Tail(queue[t])
        BY <1>1, <3>1 DEF SSEInv, SSETypeOK
      <4>2. received'[t] = Append(received[t], Head(queue[t])) \/ received'[t] = received[t]
        BY <1>3, <3>1 DEF SSEInv, SSETypeOK
      <4>. QED BY <3>1, <4>1, <4>2, <2>2, Zenon
    <3>2. CASE t # s
      BY <3>2, <1>1, <1>3, <2>1 DEF SSEInv, SSETypeOK
    <3>. QED BY <3>1, <3>2
  <2>. QED BY <2>3 DEF n, PumpEvent
<1>. QED BY <1>4, <1>5, <1>6, <1>7 DEF PumpEvent, SSEInv

\* A peer that goes, and the pump that ends with it, leave the channel in place.
LEMMA LeaveStep ==
    ASSUME SSEInv, NEW s \in Streams, KeepAlive(s) \/ ContextEnds(s) \/ PeerVanishes(s) PROVE SSEInv'
<1>1. SSETypeOK'
  BY Zenon DEF KeepAlive, ContextEnds, PeerVanishes, SSEInv, SSETypeOK
<1>2. /\ subscribed' = {t \in Streams : stream'[t] \in {"pumping", "leaving"}}
      /\ closed' = {t \in Streams : stream'[t] = "gone"}
  BY DEF KeepAlive, ContextEnds, PeerVanishes, SSEInv, SSETypeOK
<1>3. UNCHANGED <<subscribed, queue, closed, published, pending, received>>
  BY DEF KeepAlive, ContextEnds, PeerVanishes
<1>. QED BY <1>1, <1>2, <1>3, Zenon DEF SSEInv, NoSendOnClosed

\* Unsubscribe: no publish in progress still has the channel to visit.
LEMMA UnsubscribeStep ==
    ASSUME SSEInv, NEW s \in Streams, Unsubscribe(s) PROVE SSEInv'
<1>1. SSETypeOK'
  BY DEF Unsubscribe, SSEInv, SSETypeOK
<1>2. /\ subscribed' = {t \in Streams : stream'[t] \in {"pumping", "leaving"}}
      /\ closed' = {t \in Streams : stream'[t] = "gone"}
  BY DEF Unsubscribe, SSEInv, SSETypeOK
<1>3. IsFiniteSet(subscribed') /\ Cardinality(subscribed') <= MaxClients
  <2>1. IsFiniteSet(subscribed) /\ Cardinality(subscribed) \in Nat
    BY FS_CardinalityType DEF SSEInv
  <2>2. s \in subscribed /\ subscribed' = subscribed \ {s}
    BY DEF Unsubscribe, SSEInv
  <2>3. IsFiniteSet(subscribed') /\ Cardinality(subscribed') = Cardinality(subscribed) - 1
    BY <2>1, <2>2, FS_RemoveElement
  <2>4. Cardinality(subscribed) <= MaxClients /\ MaxClients \in Nat
    BY SSEAssumption DEF SSEInv, NoSendOnClosed
  <2>. QED BY ONLY <2>1, <2>3, <2>4
<1>4. NoSendOnClosed'
  BY <1>3 DEF Unsubscribe, ReadLocked, SSEInv, NoSendOnClosed
<1>. QED BY <1>1, <1>2, <1>3, <1>4 DEF Unsubscribe, SSEInv

\* CloseChannel: the channel that is closed has left the broker.
LEMMA CloseChannelStep ==
    ASSUME SSEInv, NEW s \in Streams, CloseChannel(s) PROVE SSEInv'
<1>1. SSETypeOK'
  BY DEF CloseChannel, SSEInv, SSETypeOK
<1>2. /\ subscribed' = {t \in Streams : stream'[t] \in {"pumping", "leaving"}}
      /\ closed' = {t \in Streams : stream'[t] = "gone"}
  BY DEF CloseChannel, SSEInv, SSETypeOK
<1>3. s \notin pending
  BY DEF CloseChannel, SSEInv, NoSendOnClosed
<1>4. NoSendOnClosed'
  BY <1>3 DEF CloseChannel, SSEInv, NoSendOnClosed
<1>. QED BY <1>1, <1>2, <1>4, Zenon DEF CloseChannel, SSEInv

\* Every step of the broker, its streams and their peers preserves SSEInv.
LEMMA SSEStep == SSEInv /\ [SSENext]_sseVars => SSEInv'
<1>1. SSEInv /\ UNCHANGED sseVars => SSEInv'
  BY DEF sseVars, SSEInv, SSETypeOK, NoSendOnClosed
<1>. QED
  BY <1>1, SubscribeStep, PublishStartStep, PublishSendStep, PumpEventStep, LeaveStep,
     UnsubscribeStep, CloseChannelStep
  DEF SSENext, ServeStream, Pump

\* SSEInv gives the order of the events of every stream.
LEMMA SSEInOrder == SSEInv => InOrder
<1>. SUFFICES ASSUME SSEInv, NEW s \in Streams
     PROVE  LET seen == received[s] \o queue[s]
            IN  \A i, j \in DOMAIN seen : i < j => seen[i] < seen[j]
  BY Zenon DEF InOrder
<1>. DEFINE n == IF s \in pending THEN published - 1 ELSE published
<1>1. n \in Int /\ Flow(received[s], queue[s], n)
  <2>1. published \in Nat
    BY EventTypes
  <2>2. n \in Int
    BY ONLY <2>1
  <2>. QED BY <2>2, Zenon DEF SSEInv
<1>. HIDE DEF n
<1>2. received[s] \in Seq(Nat) /\ queue[s] \in Seq(Nat)
  BY EventTypes
<1>. QED BY ONLY <1>1, <1>2, FlowInOrder, Zenon

\* Publish never sends to a closed channel and never has more than MaxClients to
\* visit, and no stream sees an event twice or before an earlier one, whichever
\* streams come and go during a publish (Publish, Unsubscribe, pump).
THEOREM StreamsAreOrdered == SSESpec => [](NoSendOnClosed /\ InOrder)
<1>1. SSEInv => NoSendOnClosed /\ InOrder
  BY SSEInOrder DEF SSEInv
<1>. QED BY <1>1, SSEStart, SSEStep, PTL DEF SSESpec

-----------------------------------------------------------------------------
(* The process.                                                                *)

WebInv == ServerInv /\ SSEInv /\ LeaseInv

\* The parts share no state, so the invariants of the three hold together.
LEMMA WebInvariance == WebSpec => []WebInv
<1>1. WebInit => WebInv
  BY ServerStart, SSEStart, LeaseStart DEF WebInit, WebInv
<1>2. WebInv /\ [WebNext]_<<part, serverVars, sseVars, leaseVars, logVars>> => WebInv'
  BY ServerStep, SSEStep, LeaseStep DEF WebNext, WebInv
<1>. QED BY <1>1, <1>2, PTL DEF WebSpec

\* In the process as a whole, the server starts and ends as ServerSound says.
THEOREM ServerStartsAndEnds == WebSpec => []ServerSound
<1>1. WebInv => ServerSound
  BY DEF WebInv, ServerInv
<1>. QED BY <1>1, WebInvariance, PTL

\* In the process as a whole, what is fed to the streams and to the lease hook is
\* true and in order.
THEOREM FeedsAreSound == WebSpec => []FeedsSound
<1>1. WebInv => FeedsSound
  BY SSEInOrder DEF WebInv, SSEInv, LeaseInv, FeedsSound
<1>. QED BY <1>1, WebInvariance, PTL

=============================================================================
