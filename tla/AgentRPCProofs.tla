--------------------------- MODULE AgentRPCProofs ---------------------------
EXTENDS AgentRPC, FiniteSetTheorems, TLAPS

(* IInv of AgentRPC is inductive, so a reply reaches only its own call, a     *)
(* command runs at most once and the agent keeps to its slots, for every set  *)
(* of calls, every number of slots and any number of crashes.  One lemma per  *)
(* action shows that the action preserves IInv.                               *)

-----------------------------------------------------------------------------

\* Handlers that leave, and peers that leave, keep the agent within its slots.
LEMMA SlotsShrink ==
    ASSUME SlotsInv, others \in Nat, MaxConns \in Nat, others' \in Nat, others' <= others,
           {k \in Calls : handler'[k] \in Serving} \subseteq {k \in Calls : handler[k] \in Serving}
    PROVE  SlotsInv'
<1>. DEFINE S == {k \in Calls : handler[k] \in Serving}
            T == {k \in Calls : handler'[k] \in Serving}
<1>1. IsFiniteSet(S) /\ Cardinality(S) + others <= MaxConns
  BY DEF SlotsInv, Slots
<1>2. IsFiniteSet(T) /\ Cardinality(T) <= Cardinality(S)
  BY <1>1, FS_Subset
<1>3. Cardinality(S) \in Nat /\ Cardinality(T) \in Nat
  BY <1>1, <1>2, FS_CardinalityType
<1>4. Cardinality(T) + others' <= MaxConns
  BY <1>1, <1>2, <1>3
<1>. QED BY <1>2, <1>4 DEF SlotsInv, Slots

\* The empty agent and the client that has made no call satisfy IInv.
LEMMA InitIInv == Init => IInv
<1>. SUFFICES ASSUME Init PROVE IInv
  OBVIOUS
<1>. USE AgentAssumption DEF Init
<1>1. TypeOK /\ ConnInv /\ CallInv /\ FlightInv /\ OwnReply /\ ExactlyOnce
  BY DEF TypeOK, ConnInv, CallInv, FlightInv, OwnReply, ExactlyOnce, Returned, Serving, Unsent
<1>2. SlotsInv
  <2>1. {k \in Calls : handler[k] \in Serving} = {}
    BY DEF Serving
  <2>. QED BY <2>1, FS_EmptySet DEF SlotsInv, Slots
<1>. QED BY <1>1, <1>2 DEF IInv

\* A step that changes nothing keeps what holds.
LEMMA StutterStep ==
    ASSUME IInv, UNCHANGED vars
    PROVE  IInv'
<1>. USE DEF vars, client, wire, agent, history
<1>1. TypeOK' /\ SlotsInv'
  BY DEF IInv, TypeOK, SlotsInv, Slots
<1>2. ConnInv' /\ CallInv'
  BY DEF IInv, ConnInv, CallInv
<1>3. FlightInv'
  BY DEF IInv, FlightInv
<1>4. OwnReply' /\ ExactlyOnce'
  BY DEF IInv, OwnReply, ExactlyOnce
<1>. QED BY <1>1, <1>2, <1>3, <1>4 DEF IInv

\* A connection that is left alone, or dropped by the client, is as it was.
LEMMA ConnFrame ==
    ASSUME ConnInv, UNCHANGED <<handler, command, request, reply>>, conn' \in {conn, Nil},
           completed \subseteq completed'
    PROVE  ConnInv'
  BY DEF ConnInv

\* Calls notice nothing of what handlers do with a connection that exists.
LEMMA CallFrame ==
    ASSUME CallInv, UNCHANGED <<pc, conn, used, canceller, started>>,
           \A k \in Calls : handler[k] = "none" => handler'[k] = "none"
    PROVE  CallInv'
  BY DEF CallInv

\* What is in flight stays its owner's while no call that sent something moves.
LEMMA FlightFrame ==
    ASSUME FlightInv, UNCHANGED <<request, command, reply, used, started>>,
           conn' \in {conn, Nil}, Nil \notin Calls, completed \subseteq completed',
           \A c \in Calls : pc[c] \in {"sent", "failed"} => pc'[c] = pc[c],
           \A k \in Calls : handler[k] = "closed" => handler'[k] = "closed"
    PROVE  FlightInv'
<1>. SUFFICES ASSUME NEW k \in Calls, NEW c \in Calls
     PROVE  /\ c \in {request[k], command[k], reply[k]} => used[c] = k /\ pc'[c] \in {"sent", "failed"}
            /\ request[k] = c => started[c] = 0
            /\ c \in {command[k], reply[k]} => started[c] = 1
            /\ reply[k] = c => c \in completed'
            /\ c \in {command[k], reply[k]} /\ conn' = k => pc'[c] = "sent"
            /\ request[k] = c /\ conn' = k /\ handler'[k] # "closed" => pc'[c] = "sent"
  BY DEF FlightInv
<1>. QED BY DEF FlightInv

\* Nothing is received, started or undone.
LEMMA RunFrame ==
    ASSUME OwnReply, ExactlyOnce, UNCHANGED <<got, started>>, completed \subseteq completed',
           \A c \in Calls : pc'[c] = "ok" => pc[c] = "ok"
    PROVE  OwnReply' /\ ExactlyOnce'
  BY DEF OwnReply, ExactlyOnce

\* No slot is taken or given back.
LEMMA SlotsFrame ==
    ASSUME SlotsInv, UNCHANGED <<handler, others>>
    PROVE  SlotsInv'
  BY DEF SlotsInv, Slots

\* The end of a context changes nothing on the wire.
LEMMA ContextDoneStep ==
    ASSUME IInv, NEW c \in Calls, ContextDone(c)
    PROVE  IInv'
<1>. USE AgentAssumption DEF ContextDone, client, wire, agent, history
<1>1. TypeOK'
  BY DEF IInv, TypeOK, Serving, Returned
<1>2. ConnInv'
  BY ConnFrame, Zenon DEF IInv
<1>3. CallInv'
  BY CallFrame, Zenon DEF IInv
<1>4. FlightInv'
  BY FlightFrame, Zenon DEF IInv
<1>5. OwnReply' /\ ExactlyOnce'
  BY RunFrame, Zenon DEF IInv
<1>6. SlotsInv'
  BY SlotsFrame, Zenon DEF IInv
<1>. QED BY <1>1, <1>2, <1>3, <1>4, <1>5, <1>6, Zenon DEF IInv

\* A call that starts has nothing on the wire.
LEMMA BeginStep ==
    ASSUME IInv, NEW c \in Calls, Begin(c)
    PROVE  IInv'
<1>. USE AgentAssumption DEF Begin, client, wire, agent, history
<1>1. TypeOK'
  BY DEF IInv, TypeOK, Serving, Returned
<1>2. ConnInv'
  BY ConnFrame, Zenon DEF IInv
<1>3. CallInv'
  BY DEF IInv, TypeOK, CallInv, Unsent
<1>4. FlightInv'
  BY FlightFrame DEF IInv, TypeOK
<1>5. OwnReply' /\ ExactlyOnce'
  BY RunFrame DEF IInv, TypeOK
<1>6. SlotsInv'
  BY SlotsFrame, Zenon DEF IInv
<1>. QED BY <1>1, <1>2, <1>3, <1>4, <1>5, <1>6, Zenon DEF IInv

\* The mutex goes to one call at a time.
LEMMA LockStep ==
    ASSUME IInv, NEW c \in Calls, Lock(c)
    PROVE  IInv'
<1>. USE AgentAssumption DEF Lock, client, wire, agent, history
<1>1. TypeOK'
  BY DEF IInv, TypeOK, Serving, Returned
<1>2. ConnInv'
  BY ConnFrame, Zenon DEF IInv
<1>3. CallInv'
  BY DEF IInv, TypeOK, CallInv, Unsent
<1>4. FlightInv'
  BY FlightFrame DEF IInv, TypeOK
<1>5. OwnReply' /\ ExactlyOnce'
  BY RunFrame DEF IInv, TypeOK
<1>6. SlotsInv'
  BY SlotsFrame, Zenon DEF IInv
<1>. QED BY <1>1, <1>2, <1>3, <1>4, <1>5, <1>6, Zenon DEF IInv

\* ensureConn with a connection changes nothing on it.
LEMMA ReuseStep ==
    ASSUME IInv, NEW c \in Calls, Reuse(c)
    PROVE  IInv'
<1>. USE AgentAssumption DEF Reuse, client, wire, agent, history
<1>1. TypeOK'
  BY DEF IInv, TypeOK, Serving, Returned
<1>2. ConnInv'
  BY ConnFrame, Zenon DEF IInv
<1>3. CallInv'
  BY DEF IInv, TypeOK, CallInv, Unsent
<1>4. FlightInv'
  BY FlightFrame DEF IInv, TypeOK
<1>5. OwnReply' /\ ExactlyOnce'
  BY RunFrame DEF IInv, TypeOK
<1>6. SlotsInv'
  BY SlotsFrame, Zenon DEF IInv
<1>. QED BY <1>1, <1>2, <1>3, <1>4, <1>5, <1>6, Zenon DEF IInv

\* A new connection carries nothing, and its handler waits in the backlog.
LEMMA DialStep ==
    ASSUME IInv, NEW c \in Calls, Dial(c)
    PROVE  IInv'
<1>. USE AgentAssumption DEF Dial, client, wire, agent, history
<1>1. TypeOK'
  BY DEF IInv, TypeOK, Serving, Returned
<1>2. ConnInv'
  BY DEF IInv, TypeOK, ConnInv, CallInv
<1>3. CallInv'
  BY DEF IInv, TypeOK, CallInv, Unsent
<1>4. FlightInv'
  BY DEF IInv, TypeOK, FlightInv, CallInv, ConnInv, Unsent
<1>5. OwnReply' /\ ExactlyOnce'
  BY RunFrame DEF IInv, TypeOK
<1>6. SlotsInv'
  BY SlotsShrink DEF IInv, TypeOK, Serving
<1>. QED BY <1>1, <1>2, <1>3, <1>4, <1>5, <1>6, Zenon DEF IInv

\* A call that cannot connect leaves no connection behind.
LEMMA DialFailsStep ==
    ASSUME IInv, NEW c \in Calls, DialFails(c)
    PROVE  IInv'
<1>. USE AgentAssumption DEF DialFails, Return, client, wire, agent, history
<1>1. TypeOK'
  BY DEF IInv, TypeOK, Serving, Returned
<1>2. ConnInv'
  BY ConnFrame, Zenon DEF IInv
<1>3. CallInv'
  BY DEF IInv, TypeOK, CallInv, Unsent
<1>4. FlightInv'
  BY FlightFrame DEF IInv, TypeOK
<1>5. OwnReply' /\ ExactlyOnce'
  BY RunFrame DEF IInv, TypeOK
<1>6. SlotsInv'
  BY SlotsFrame, Zenon DEF IInv
<1>. QED BY <1>1, <1>2, <1>3, <1>4, <1>5, <1>6, Zenon DEF IInv

\* A call that is armed uses the connection the client holds.
LEMMA SetDeadlineStep ==
    ASSUME IInv, NEW c \in Calls, SetDeadline(c)
    PROVE  IInv'
<1>. USE AgentAssumption DEF SetDeadline, client, wire, agent, history
<1>1. TypeOK'
  BY DEF IInv, TypeOK, Serving, Returned
<1>2. ConnInv'
  BY ConnFrame, Zenon DEF IInv
<1>3. CallInv'
  BY DEF IInv, TypeOK, CallInv, Unsent
<1>4. FlightInv'
  BY DEF IInv, TypeOK, FlightInv
<1>5. OwnReply' /\ ExactlyOnce'
  BY RunFrame DEF IInv, TypeOK
<1>6. SlotsInv'
  BY SlotsFrame, Zenon DEF IInv
<1>. QED BY <1>1, <1>2, <1>3, <1>4, <1>5, <1>6, Zenon DEF IInv

\* cancelOnDone expires a connection its call used.
LEMMA CancelOnDoneStep ==
    ASSUME IInv, NEW c \in Calls, CancelOnDone(c)
    PROVE  IInv'
<1>. USE AgentAssumption DEF CancelOnDone, client, wire, agent, history
<1>1. TypeOK'
  BY DEF IInv, TypeOK, Serving, Returned, CallInv
<1>2. ConnInv'
  BY ConnFrame, Zenon DEF IInv
<1>3. CallInv'
  BY DEF IInv, TypeOK, CallInv
<1>4. FlightInv'
  BY FlightFrame, Zenon DEF IInv
<1>5. OwnReply' /\ ExactlyOnce'
  BY RunFrame, Zenon DEF IInv
<1>6. SlotsInv'
  BY SlotsFrame, Zenon DEF IInv
<1>. QED BY <1>1, <1>2, <1>3, <1>4, <1>5, <1>6, Zenon DEF IInv

\* A cancelOnDone that is told to stop changes nothing else.
LEMMA CancelStoppedStep ==
    ASSUME IInv, NEW c \in Calls, CancelStopped(c)
    PROVE  IInv'
<1>. USE AgentAssumption DEF CancelStopped, client, wire, agent, history
<1>1. TypeOK'
  BY DEF IInv, TypeOK, Serving, Returned
<1>2. ConnInv'
  BY ConnFrame, Zenon DEF IInv
<1>3. CallInv'
  BY DEF IInv, TypeOK, CallInv
<1>4. FlightInv'
  BY FlightFrame, Zenon DEF IInv
<1>5. OwnReply' /\ ExactlyOnce'
  BY RunFrame, Zenon DEF IInv
<1>6. SlotsInv'
  BY SlotsFrame, Zenon DEF IInv
<1>. QED BY <1>1, <1>2, <1>3, <1>4, <1>5, <1>6, Zenon DEF IInv

\* A request goes out on a connection that carries nothing, or takes the connection with it.
LEMMA SendStep ==
    ASSUME IInv, NEW c \in Calls, Send(c)
    PROVE  IInv'
<1>. USE AgentAssumption DEF Send, FailCall, Return, client, wire, agent, history
<1>1. TypeOK'
  BY DEF IInv, TypeOK, Serving, Returned
<1>2. ConnInv'
  BY DEF IInv, TypeOK, ConnInv, CallInv, FlightInv
<1>3. CallInv'
  BY DEF IInv, TypeOK, CallInv, Unsent
<1>4. FlightInv'
  BY DEF IInv, TypeOK, FlightInv, CallInv, ConnInv, Unsent
<1>5. OwnReply' /\ ExactlyOnce'
  BY RunFrame DEF IInv, TypeOK
<1>6. SlotsInv'
  BY SlotsFrame, Zenon DEF IInv
<1>. QED BY <1>1, <1>2, <1>3, <1>4, <1>5, <1>6, Zenon DEF IInv

\* The reply on the connection is the caller's own, or says busy.
LEMMA ReceiveStep ==
    ASSUME IInv, NEW c \in Calls, Receive(c)
    PROVE  IInv'
<1>. USE AgentAssumption DEF Receive, Return, client, wire, agent, history
<1>1. TypeOK'
  BY DEF IInv, TypeOK, Serving, Returned, CallInv
<1>2. ConnInv'
  BY DEF IInv, TypeOK, ConnInv
<1>3. CallInv'
  BY DEF IInv, TypeOK, CallInv, Unsent
<1>4. FlightInv'
  BY DEF IInv, TypeOK, FlightInv, CallInv, ConnInv
<1>5. OwnReply' /\ ExactlyOnce'
  BY DEF IInv, TypeOK, OwnReply, ExactlyOnce, FlightInv, CallInv, ConnInv
<1>6. SlotsInv'
  BY SlotsFrame, Zenon DEF IInv
<1>. QED BY <1>1, <1>2, <1>3, <1>4, <1>5, <1>6, Zenon DEF IInv

\* A call that fails takes the connection, and what it carries, with it.
LEMMA ReceiveFailsStep ==
    ASSUME IInv, NEW c \in Calls, ReceiveFails(c)
    PROVE  IInv'
<1>. USE AgentAssumption DEF ReceiveFails, FailCall, Return, client, wire, agent, history
<1>1. TypeOK'
  BY DEF IInv, TypeOK, Serving, Returned
<1>2. ConnInv'
  BY ConnFrame, Zenon DEF IInv
<1>3. CallInv'
  BY DEF IInv, TypeOK, CallInv, Unsent
<1>4. FlightInv'
  BY DEF IInv, TypeOK, FlightInv
<1>5. OwnReply' /\ ExactlyOnce'
  BY RunFrame DEF IInv, TypeOK
<1>6. SlotsInv'
  BY SlotsFrame, Zenon DEF IInv
<1>. QED BY <1>1, <1>2, <1>3, <1>4, <1>5, <1>6, Zenon DEF IInv

\* So does a call that times out.
LEMMA CallTimeoutStep ==
    ASSUME IInv, NEW c \in Calls, CallTimeout(c)
    PROVE  IInv'
<1>. USE AgentAssumption DEF CallTimeout, FailCall, Return, client, wire, agent, history
<1>1. TypeOK'
  BY DEF IInv, TypeOK, Serving, Returned
<1>2. ConnInv'
  BY ConnFrame, Zenon DEF IInv
<1>3. CallInv'
  BY DEF IInv, TypeOK, CallInv, Unsent
<1>4. FlightInv'
  BY DEF IInv, TypeOK, FlightInv
<1>5. OwnReply' /\ ExactlyOnce'
  BY RunFrame DEF IInv, TypeOK
<1>6. SlotsInv'
  BY SlotsFrame, Zenon DEF IInv
<1>. QED BY <1>1, <1>2, <1>3, <1>4, <1>5, <1>6, Zenon DEF IInv

\* A connection takes a free slot, or is refused and closed.
LEMMA AcceptStep ==
    ASSUME IInv, NEW k \in Calls, Accept(k)
    PROVE  IInv'
<1>. USE AgentAssumption DEF Accept, client, wire, agent, history
<1>1. TypeOK'
  BY DEF IInv, TypeOK, Serving, Returned
<1>2. ConnInv'
  BY DEF IInv, TypeOK, ConnInv
<1>3. CallInv'
  BY CallFrame DEF IInv, TypeOK
<1>4. FlightInv'
  BY DEF IInv, TypeOK, FlightInv
<1>5. OwnReply' /\ ExactlyOnce'
  BY RunFrame, Zenon DEF IInv
<1>6. SlotsInv'
  <2>1. CASE Slots < MaxConns
    <3>. DEFINE S == {j \in Calls : handler[j] \in Serving}
                T == {j \in Calls : handler'[j] \in Serving}
    <3>1. T = S \cup {k} /\ k \notin S
      BY <2>1 DEF IInv, TypeOK, Serving
    <3>2. IsFiniteSet(S) /\ Cardinality(S) + others < MaxConns
      BY <2>1 DEF IInv, SlotsInv, Slots
    <3>. HIDE DEF S, T
    <3>3. IsFiniteSet(T) /\ Cardinality(T) = Cardinality(S) + 1
      BY <3>1, <3>2, FS_AddElement
    <3>5. Cardinality(S) \in Nat
      BY <3>2, FS_CardinalityType
    <3>4. Cardinality(T) + others' <= MaxConns
      BY <3>2, <3>3, <3>5 DEF IInv, TypeOK
    <3>. QED BY <3>3, <3>4 DEF SlotsInv, Slots, T
  <2>2. CASE ~(Slots < MaxConns)
    <3>1. {j \in Calls : handler'[j] \in Serving} \subseteq {j \in Calls : handler[j] \in Serving}
      BY <2>2 DEF IInv, TypeOK, Serving
    <3>. QED BY <3>1, SlotsShrink DEF IInv, TypeOK
  <2>. QED BY <2>1, <2>2
<1>. QED BY <1>1, <1>2, <1>3, <1>4, <1>5, <1>6, Zenon DEF IInv

\* Another peer takes a free slot.
LEMMA OtherConnectsStep ==
    ASSUME IInv, OtherConnects
    PROVE  IInv'
<1>. USE AgentAssumption DEF OtherConnects, client, wire, agent, history
<1>1. TypeOK'
  BY DEF IInv, TypeOK, Serving, Returned
<1>2. ConnInv'
  BY ConnFrame, Zenon DEF IInv
<1>3. CallInv'
  BY CallFrame, Zenon DEF IInv
<1>4. FlightInv'
  BY FlightFrame, Zenon DEF IInv
<1>5. OwnReply' /\ ExactlyOnce'
  BY RunFrame, Zenon DEF IInv
<1>6. SlotsInv'
  <2>. DEFINE S == {j \in Calls : handler[j] \in Serving}
  <2>1. IsFiniteSet(S) /\ Cardinality(S) + others < MaxConns /\ Cardinality(S) \in Nat
    BY FS_CardinalityType DEF IInv, SlotsInv, Slots
  <2>2. Cardinality(S) + others' <= MaxConns
    BY <2>1 DEF IInv, TypeOK
  <2>. QED BY <2>1, <2>2 DEF SlotsInv, Slots
<1>. QED BY <1>1, <1>2, <1>3, <1>4, <1>5, <1>6, Zenon DEF IInv

\* Another peer gives its slot back.
LEMMA OtherLeavesStep ==
    ASSUME IInv, OtherLeaves
    PROVE  IInv'
<1>. USE AgentAssumption DEF OtherLeaves, client, wire, agent, history
<1>1. TypeOK'
  BY DEF IInv, TypeOK, Serving, Returned
<1>2. ConnInv'
  BY ConnFrame, Zenon DEF IInv
<1>3. CallInv'
  BY CallFrame, Zenon DEF IInv
<1>4. FlightInv'
  BY FlightFrame, Zenon DEF IInv
<1>5. OwnReply' /\ ExactlyOnce'
  BY RunFrame, Zenon DEF IInv
<1>6. SlotsInv'
  BY SlotsShrink DEF IInv, TypeOK, Serving
<1>. QED BY <1>1, <1>2, <1>3, <1>4, <1>5, <1>6, Zenon DEF IInv

\* A request becomes a command, once.
LEMMA DispatchStep ==
    ASSUME IInv, NEW k \in Calls, Dispatch(k)
    PROVE  IInv'
<1>. USE AgentAssumption DEF Dispatch, client, wire, agent, history
<1>1. TypeOK'
  BY DEF IInv, TypeOK, Serving, Returned
<1>2. ConnInv'
  BY DEF IInv, TypeOK, ConnInv
<1>3. CallInv'
  BY DEF IInv, TypeOK, CallInv, FlightInv, Unsent
<1>4. FlightInv'
  BY DEF IInv, TypeOK, FlightInv, ConnInv
<1>5. OwnReply' /\ ExactlyOnce'
  BY DEF IInv, TypeOK, OwnReply, ExactlyOnce, FlightInv
<1>6. SlotsInv'
  BY SlotsShrink DEF IInv, TypeOK, Serving
<1>. QED BY <1>1, <1>2, <1>3, <1>4, <1>5, <1>6, Zenon DEF IInv

\* An idle handler leaves.
LEMMA HangUpStep ==
    ASSUME IInv, NEW k \in Calls, HangUp(k)
    PROVE  IInv'
<1>. USE AgentAssumption DEF HangUp, client, wire, agent, history
<1>1. TypeOK'
  BY DEF IInv, TypeOK, Serving, Returned
<1>2. ConnInv'
  BY DEF IInv, TypeOK, ConnInv
<1>3. CallInv'
  BY CallFrame DEF IInv, TypeOK
<1>4. FlightInv'
  BY FlightFrame DEF IInv, TypeOK
<1>5. OwnReply' /\ ExactlyOnce'
  BY RunFrame, Zenon DEF IInv
<1>6. SlotsInv'
  BY SlotsShrink DEF IInv, TypeOK, Serving
<1>. QED BY <1>1, <1>2, <1>3, <1>4, <1>5, <1>6, Zenon DEF IInv

\* A handler whose peer left is told.
LEMMA WatchPeerStep ==
    ASSUME IInv, NEW k \in Calls, WatchPeer(k)
    PROVE  IInv'
<1>. USE AgentAssumption DEF WatchPeer, client, wire, agent, history
<1>1. TypeOK'
  BY DEF IInv, TypeOK, Serving, Returned
<1>2. ConnInv'
  BY DEF IInv, TypeOK, ConnInv
<1>3. CallInv'
  BY CallFrame DEF IInv, TypeOK
<1>4. FlightInv'
  BY FlightFrame DEF IInv, TypeOK
<1>5. OwnReply' /\ ExactlyOnce'
  BY RunFrame, Zenon DEF IInv
<1>6. SlotsInv'
  BY SlotsShrink DEF IInv, TypeOK, Serving
<1>. QED BY <1>1, <1>2, <1>3, <1>4, <1>5, <1>6, Zenon DEF IInv

\* A command that ended is completed.
LEMMA FinishStep ==
    ASSUME IInv, NEW k \in Calls, Finish(k)
    PROVE  IInv'
<1>. USE AgentAssumption DEF Finish, client, wire, agent, history
<1>1. TypeOK'
  BY DEF IInv, TypeOK, Serving, Returned, ConnInv
<1>2. ConnInv'
  BY DEF IInv, TypeOK, ConnInv
<1>3. CallInv'
  BY CallFrame DEF IInv, TypeOK
<1>4. FlightInv'
  BY FlightFrame DEF IInv, TypeOK
<1>5. OwnReply' /\ ExactlyOnce'
  BY RunFrame, Zenon DEF IInv
<1>6. SlotsInv'
  BY SlotsShrink DEF IInv, TypeOK, Serving
<1>. QED BY <1>1, <1>2, <1>3, <1>4, <1>5, <1>6, Zenon DEF IInv

\* A killed command leaves no reply.
LEMMA AbortStep ==
    ASSUME IInv, NEW k \in Calls, Abort(k)
    PROVE  IInv'
<1>. USE AgentAssumption DEF Abort, client, wire, agent, history
<1>1. TypeOK'
  BY DEF IInv, TypeOK, Serving, Returned, ConnInv
<1>2. ConnInv'
  BY DEF IInv, TypeOK, ConnInv
<1>3. CallInv'
  BY CallFrame DEF IInv, TypeOK
<1>4. FlightInv'
  BY DEF IInv, TypeOK, FlightInv
<1>5. OwnReply' /\ ExactlyOnce'
  BY RunFrame, Zenon DEF IInv
<1>6. SlotsInv'
  BY SlotsShrink DEF IInv, TypeOK, Serving
<1>. QED BY <1>1, <1>2, <1>3, <1>4, <1>5, <1>6, Zenon DEF IInv

\* The reply of a command is put on its own connection.
LEMMA RespondStep ==
    ASSUME IInv, NEW k \in Calls, Respond(k)
    PROVE  IInv'
<1>. USE AgentAssumption DEF Respond, client, wire, agent, history
<1>1. TypeOK'
  <2>1. command' \in [Calls -> Calls \cup {Nil}]
    BY DEF IInv, TypeOK
  <2>2. reply' \in [Calls -> Calls \cup {Nil, Busy}]
    BY DEF IInv, TypeOK
  <2>3. handler' \in [Calls -> {"none", "backlog", "closed"} \cup Serving]
    BY DEF IInv, TypeOK, Serving
  <2>. QED BY <2>1, <2>2, <2>3 DEF IInv, TypeOK
<1>2. ConnInv'
  BY DEF IInv, TypeOK, ConnInv, FlightInv
<1>3. CallInv'
  BY CallFrame DEF IInv, TypeOK
<1>4. FlightInv'
  BY DEF IInv, TypeOK, FlightInv, ConnInv
<1>5. OwnReply' /\ ExactlyOnce'
  BY RunFrame, Zenon DEF IInv
<1>6. SlotsInv'
  BY SlotsShrink DEF IInv, TypeOK, Serving
<1>. QED BY <1>1, <1>2, <1>3, <1>4, <1>5, <1>6, Zenon DEF IInv

\* A dying agent takes every command and request with it.
LEMMA AgentDiesStep ==
    ASSUME IInv, AgentDies
    PROVE  IInv'
<1>. USE AgentAssumption DEF AgentDies, client, wire, agent, history
<1>1. TypeOK'
  <2>1. handler' \in [Calls -> {"none", "backlog", "closed"} \cup Serving]
    BY DEF IInv, TypeOK
  <2>2. command' \in [Calls -> Calls \cup {Nil}] /\ request' \in [Calls -> Calls \cup {Nil}]
    BY DEF IInv, TypeOK
  <2>3. crashes \in 0..MaxCrashes /\ crashes < MaxCrashes /\ MaxCrashes \in Nat
    BY DEF IInv, TypeOK
  <2>4. crashes + 1 \in 0..MaxCrashes
    BY ONLY <2>3
  <2>5. others' \in Nat /\ up' \in BOOLEAN /\ crashes' \in 0..MaxCrashes
    BY ONLY <2>4, AgentDies, Zenon DEF AgentDies
  <2>. QED BY <2>1, <2>2, <2>5 DEF IInv, TypeOK
<1>2. ConnInv'
  BY DEF IInv, TypeOK, ConnInv
<1>3. CallInv'
  BY CallFrame, Zenon DEF IInv
<1>4. FlightInv'
  BY DEF IInv, TypeOK, FlightInv
<1>5. OwnReply' /\ ExactlyOnce'
  BY RunFrame, Zenon DEF IInv
<1>6. SlotsInv'
  BY SlotsShrink DEF IInv, TypeOK, Serving
<1>. QED BY <1>1, <1>2, <1>3, <1>4, <1>5, <1>6, Zenon DEF IInv

\* A starting agent serves nothing yet.
LEMMA AgentStartsStep ==
    ASSUME IInv, AgentStarts
    PROVE  IInv'
<1>. USE AgentAssumption DEF AgentStarts, client, wire, agent, history
<1>1. TypeOK'
  BY DEF IInv, TypeOK, Serving, Returned
<1>2. ConnInv'
  BY ConnFrame, Zenon DEF IInv
<1>3. CallInv'
  BY CallFrame, Zenon DEF IInv
<1>4. FlightInv'
  BY FlightFrame, Zenon DEF IInv
<1>5. OwnReply' /\ ExactlyOnce'
  BY RunFrame, Zenon DEF IInv
<1>6. SlotsInv'
  BY SlotsFrame, Zenon DEF IInv
<1>. QED BY <1>1, <1>2, <1>3, <1>4, <1>5, <1>6, Zenon DEF IInv

-----------------------------------------------------------------------------

\* Every step of the client, the agent and its peers preserves IInv.
LEMMA NextIInv == IInv /\ [Next]_vars => IInv'
<1>. SUFFICES ASSUME IInv, [Next]_vars PROVE IInv'
  OBVIOUS
<1>1. ASSUME NEW c \in Calls, CallStep(c) PROVE IInv'
  BY <1>1, LockStep, ReuseStep, DialStep, DialFailsStep, SetDeadlineStep, SendStep, ReceiveStep,
     ReceiveFailsStep, CallTimeoutStep DEF CallStep
<1>2. ASSUME NEW k \in Calls, HandlerStep(k) PROVE IInv'
  BY <1>2, AcceptStep, DispatchStep, HangUpStep, RespondStep DEF HandlerStep
<1>3. CASE UNCHANGED vars
  BY <1>3, StutterStep
<1>. QED
  BY <1>1, <1>2, <1>3, ContextDoneStep, BeginStep, CancelOnDoneStep, CancelStoppedStep,
     WatchPeerStep, FinishStep, AbortStep, OtherConnectsStep, OtherLeavesStep, AgentDiesStep,
     AgentStartsStep DEF Next

\* IInv holds in every state, whatever the interleaving of calls, cancellations,
\* handlers and crashes (Client.Call, Server.handleConn).
THEOREM AgentInvariant == Spec => []IInv
<1>. QED BY InitIInv, NextIInv, PTL DEF Spec

\* No call ever gets the reply of another one, although the client never looks
\* at the response ID (Client.roundTrip).
THEOREM RepliesAreOwn == Spec => []OwnReply
<1>1. IInv => OwnReply
  BY DEF IInv
<1>. QED BY <1>1, AgentInvariant, PTL

\* A call that succeeded had its command run once and to the end, and no command
\* runs twice (Client.Call, Server.dispatch).
THEOREM CommandsRunOnce == Spec => []ExactlyOnce
<1>1. IInv => ExactlyOnce
  BY DEF IInv
<1>. QED BY <1>1, AgentInvariant, PTL

\* The agent never serves more connections, nor runs more commands, than it has
\* slots (Server.Serve, connSlots).
THEOREM SlotsAreBounded == Spec => []SlotsBounded
<1>1. IInv => SlotsBounded
  <2>. SUFFICES ASSUME IInv PROVE SlotsBounded
    OBVIOUS
  <2>. DEFINE S == {k \in Calls : handler[k] \in Serving}
  <2>1. IsFiniteSet(S) /\ Cardinality(S) + others <= MaxConns /\ others \in Nat
    BY DEF IInv, SlotsInv, Slots, TypeOK
  <2>2. Commands \subseteq S
    BY DEF Commands, Serving
  <2>3. Cardinality(Commands) <= Cardinality(S) /\ Cardinality(Commands) \in Nat /\ Cardinality(S) \in Nat
    BY <2>1, <2>2, FS_Subset, FS_CardinalityType
  <2>4. Cardinality(Commands) <= MaxConns
    BY <2>1, <2>3, AgentAssumption
  <2>. QED BY <2>1, <2>4 DEF SlotsBounded, Slots
<1>. QED BY <1>1, AgentInvariant, PTL

=============================================================================
