------------------------------ MODULE AgentRPC ------------------------------
(* The call path between the unprivileged web process and the root agent:     *)
(* Client (internal/agent/client.go), one connection behind a mutex, and      *)
(* Server (internal/agent/server.go), one handler goroutine per connection    *)
(* and a bounded number of them.                                              *)
(*                                                                            *)
(* A call is made once and a connection is named after the call that dialled  *)
(* it.  Commands are opaque: what matters is which call a command or a reply  *)
(* belongs to, and when it starts and stops.                                  *)
EXTENDS Naturals, FiniteSets

CONSTANTS
    Calls,       \* the calls the web process makes
    Nil,         \* no connection, no holder, no reply
    Busy,        \* the errAgentBusy reply
    MaxConns,    \* capacity of connSlots
    MaxCrashes   \* bound: how often the agent dies

ASSUME AgentAssumption ==
    /\ Nil \notin Calls /\ Busy \notin Calls /\ Nil # Busy
    /\ MaxConns \in Nat \ {0} /\ MaxCrashes \in Nat

VARIABLES
    pc,         \* where each call is
    live,       \* calls whose context is not done
    mu,         \* holder of Client.mu
    conn,       \* Client.conn
    canceller,  \* each call's cancelOnDone goroutine
    used,       \* the connection each call uses
    got,        \* the reply each call decoded
    open,       \* connections the client has not closed
    expired,    \* connections whose deadline is in the past
    request,    \* per connection: the request in the socket
    reply,      \* per connection: the reply in the socket
    handler,    \* per connection: its handler goroutine in the agent
    command,    \* per connection: the call whose command it runs
    others,     \* connections of other peers that hold a slot
    up,         \* whether the agent listens
    crashes,    \* how often it has died
    started,    \* history: how often each call's command was started
    completed   \* history: calls whose command ran to its end

client == <<pc, live, mu, conn, canceller, used, got>>
wire == <<open, expired, request, reply>>
agent == <<handler, command, others, up, crashes>>
history == <<started, completed>>
vars == <<client, wire, agent, history>>

Serving == {"idle", "busy", "cancelled", "finished"}
Slots == Cardinality({k \in Calls : handler[k] \in Serving}) + others
\* Connections whose handler runs a command.
Commands == {k \in Calls : handler[k] \in {"busy", "cancelled"}}

Init ==
    /\ pc = [c \in Calls |-> "new"] /\ live = Calls
    /\ mu = Nil /\ conn = Nil
    /\ canceller = [c \in Calls |-> "none"]
    /\ used = [c \in Calls |-> Nil] /\ got = [c \in Calls |-> Nil]
    /\ open = {} /\ expired = {}
    /\ request = [k \in Calls |-> Nil] /\ reply = [k \in Calls |-> Nil]
    /\ handler = [k \in Calls |-> "none"] /\ command = [k \in Calls |-> Nil]
    /\ others = 0 /\ up = TRUE /\ crashes = 0
    /\ started = [c \in Calls |-> 0] /\ completed = {}

-----------------------------------------------------------------------------
(* Client.Call.                                                               *)

\* The context of a call ends: its deadline, its cancellation, or the cancel a
\* caller defers until after the call.
ContextDone(c) ==
    /\ c \in live
    /\ live' = live \ {c}
    /\ UNCHANGED <<pc, mu, conn, canceller, used, got, wire, agent, history>>

\* A call whose context is already done opens nothing.
Begin(c) ==
    /\ pc[c] = "new"
    /\ pc' = [pc EXCEPT ![c] = IF c \in live THEN "queued" ELSE "failed"]
    /\ UNCHANGED <<live, mu, conn, canceller, used, got, wire, agent, history>>

\* The mutex, and the second look at the context.
Lock(c) ==
    /\ pc[c] = "queued" /\ mu = Nil
    /\ IF c \in live
       THEN mu' = c /\ pc' = [pc EXCEPT ![c] = "locked"]
       ELSE pc' = [pc EXCEPT ![c] = "failed"] /\ UNCHANGED mu
    /\ UNCHANGED <<live, conn, canceller, used, got, wire, agent, history>>

\* The call returns: the mutex is released and its cancelOnDone is told to stop.
Return(c, result) ==
    /\ pc' = [pc EXCEPT ![c] = result]
    /\ mu' = Nil
    /\ canceller' = [canceller EXCEPT ![c] = IF @ = "watching" THEN "stopping" ELSE @]

\* ensureConn: an existing connection is used as it is.
Reuse(c) ==
    /\ pc[c] = "locked" /\ conn # Nil
    /\ pc' = [pc EXCEPT ![c] = "connected"]
    /\ UNCHANGED <<live, mu, conn, canceller, used, got, wire, agent, history>>

Dial(c) ==
    /\ pc[c] = "locked" /\ conn = Nil
    /\ up
    /\ conn' = c
    /\ open' = open \cup {c}
    /\ handler' = [handler EXCEPT ![c] = "backlog"]
    /\ pc' = [pc EXCEPT ![c] = "connected"]
    /\ UNCHANGED <<live, mu, canceller, used, got, expired, request, reply,
                   command, others, up, crashes, history>>

DialFails(c) ==
    /\ pc[c] = "locked" /\ conn = Nil
    /\ ~up \/ c \notin live
    /\ Return(c, "failed")
    /\ UNCHANGED <<live, conn, used, got, wire, agent, history>>

\* SetDeadline for this call, and `go cancelOnDone`.
SetDeadline(c) ==
    /\ pc[c] = "connected"
    /\ expired' = expired \ {conn}
    /\ used' = [used EXCEPT ![c] = conn]
    /\ canceller' = [canceller EXCEPT ![c] = "watching"]
    /\ pc' = [pc EXCEPT ![c] = "armed"]
    /\ UNCHANGED <<live, mu, conn, got, open, request, reply, agent, history>>

\* cancelOnDone: the context is done.  When the call has returned meanwhile both
\* channels are ready and select may take either.
CancelOnDone(c) ==
    /\ canceller[c] \in {"watching", "stopping"} /\ c \notin live
    /\ expired' = expired \cup {used[c]}
    /\ canceller' = [canceller EXCEPT ![c] = "gone"]
    /\ UNCHANGED <<pc, live, mu, conn, used, got, open, request, reply, agent, history>>

CancelStopped(c) ==
    /\ canceller[c] = "stopping"
    /\ canceller' = [canceller EXCEPT ![c] = "gone"]
    /\ UNCHANGED <<pc, live, mu, conn, used, got, wire, agent, history>>

\* failCall that returns without closing the connection.
FailCallKeepsConn(c) == Return(c, "failed") /\ UNCHANGED <<conn, open>>

\* close that leaves the closed connection in place.
FailCallKeepsPointer(c) ==
    /\ Return(c, "failed")
    /\ open' = open \ {conn} /\ UNCHANGED conn

\* failCall: the connection is dropped with the call.
FailCall(c) ==
    /\ Return(c, "failed")
    /\ open' = open \ {conn} /\ conn' = Nil

\* Encode: fails on an expired deadline or a connection the agent has closed.
Send(c) ==
    /\ pc[c] = "armed"
    /\ IF conn \in expired \/ handler[conn] = "closed"
       THEN FailCall(c) /\ UNCHANGED request
       ELSE /\ request' = [request EXCEPT ![conn] = c]
            /\ pc' = [pc EXCEPT ![c] = "sent"]
            /\ UNCHANGED <<mu, conn, canceller, open>>
    /\ UNCHANGED <<live, used, got, expired, reply, agent, history>>

\* Decode takes the next reply, whatever its ID; an RPC error fails the call and
\* keeps the connection.
Receive(c) ==
    /\ pc[c] = "sent" /\ conn \notin expired
    /\ reply[conn] # Nil
    /\ got' = [got EXCEPT ![c] = reply[conn]]
    /\ reply' = [reply EXCEPT ![conn] = Nil]
    /\ Return(c, IF reply[conn] = Busy THEN "failed" ELSE "ok")
    /\ UNCHANGED <<live, conn, used, open, expired, request, agent, history>>

\* Decode fails: the deadline, or the end of the stream.
ReceiveFails(c) ==
    /\ pc[c] = "sent"
    /\ conn \in expired \/ (handler[conn] = "closed" /\ reply[conn] = Nil)
    /\ FailCall(c)
    /\ UNCHANGED <<live, used, got, expired, request, reply, agent, history>>

\* callTimeout, for a context without a deadline.
CallTimeout(c) ==
    /\ pc[c] = "sent"
    /\ FailCall(c)
    /\ UNCHANGED <<live, used, got, expired, request, reply, agent, history>>

-----------------------------------------------------------------------------
(* Server: the accept loop and one handleConn goroutine per connection.       *)

\* The accept loop without the bound.
AcceptAll(k) ==
    /\ handler[k] = "backlog" /\ up
    /\ handler' = [handler EXCEPT ![k] = "idle"]
    /\ UNCHANGED <<client, wire, command, others, up, crashes, history>>

\* A connection takes a slot, or is told the agent is busy and closed.
Accept(k) ==
    /\ handler[k] = "backlog" /\ up
    /\ IF Slots < MaxConns
       THEN handler' = [handler EXCEPT ![k] = "idle"] /\ UNCHANGED reply
       ELSE handler' = [handler EXCEPT ![k] = "closed"] /\ reply' = [reply EXCEPT ![k] = Busy]
    /\ UNCHANGED <<client, open, expired, request, command, others, up, crashes, history>>

\* Another authorised peer (root at a shell) connects or leaves.
OtherConnects ==
    /\ up /\ Slots < MaxConns
    /\ others' = others + 1
    /\ UNCHANGED <<client, wire, handler, command, up, crashes, history>>

OtherLeaves ==
    /\ others > 0
    /\ others' = others - 1
    /\ UNCHANGED <<client, wire, handler, command, up, crashes, history>>

\* A request is decoded and dispatched; it is readable even when its sender has
\* closed the connection since.
Dispatch(k) ==
    /\ handler[k] = "idle" /\ request[k] # Nil
    /\ command' = [command EXCEPT ![k] = request[k]]
    /\ started' = [started EXCEPT ![request[k]] = @ + 1]
    /\ request' = [request EXCEPT ![k] = Nil]
    /\ handler' = [handler EXCEPT ![k] = "busy"]
    /\ UNCHANGED <<client, open, expired, reply, others, up, crashes, completed>>

\* An idle handler reads the end of the stream.
HangUp(k) ==
    /\ handler[k] = "idle" /\ request[k] = Nil /\ k \notin open
    /\ handler' = [handler EXCEPT ![k] = "closed"]
    /\ UNCHANGED <<client, wire, command, others, up, crashes, history>>

\* dispatch without watchPeer: nobody notices.
WatchPeerNever(k) == FALSE /\ UNCHANGED vars

\* watchPeer sees the peer close and cancels the handler's context.
WatchPeer(k) ==
    /\ handler[k] = "busy" /\ k \notin open
    /\ handler' = [handler EXCEPT ![k] = "cancelled"]
    /\ UNCHANGED <<client, wire, command, others, up, crashes, history>>

\* The command ends, by itself or by the budget the request carried.
Finish(k) ==
    /\ handler[k] = "busy"
    /\ completed' = completed \cup {command[k]}
    /\ handler' = [handler EXCEPT ![k] = "finished"]
    /\ UNCHANGED <<client, wire, command, others, up, crashes, started>>

\* The cancelled command is killed, or was past the point of cancelling.
Abort(k) ==
    /\ handler[k] = "cancelled"
    /\ completed' \in {completed, completed \cup {command[k]}}
    /\ command' = [command EXCEPT ![k] = Nil]
    /\ handler' = [handler EXCEPT ![k] = "closed"]
    /\ UNCHANGED <<client, wire, others, up, crashes, started>>

\* The response is written, unless the peer is gone.
Respond(k) ==
    /\ handler[k] = "finished"
    /\ IF k \in open
       THEN /\ reply' = [reply EXCEPT ![k] = command[k]]
            /\ handler' = [handler EXCEPT ![k] = "idle"]
       ELSE /\ handler' = [handler EXCEPT ![k] = "closed"]
            /\ UNCHANGED reply
    /\ command' = [command EXCEPT ![k] = Nil]
    /\ UNCHANGED <<client, open, expired, request, others, up, crashes, history>>

-----------------------------------------------------------------------------
(* The agent dies with its commands, and systemd starts it again.             *)

AgentDies ==
    /\ up /\ crashes < MaxCrashes
    /\ up' = FALSE /\ crashes' = crashes + 1
    /\ handler' = [k \in Calls |-> IF handler[k] = "none" THEN "none" ELSE "closed"]
    /\ command' = [k \in Calls |-> Nil]
    /\ request' = [k \in Calls |-> Nil]
    /\ others' = 0
    /\ UNCHANGED <<client, open, expired, reply, history>>

AgentStarts ==
    /\ ~up
    /\ up' = TRUE
    /\ UNCHANGED <<client, wire, handler, command, others, crashes, history>>

-----------------------------------------------------------------------------

CallStep(c) ==
    \/ Lock(c) \/ Reuse(c) \/ Dial(c) \/ DialFails(c) \/ SetDeadline(c)
    \/ Send(c) \/ Receive(c) \/ ReceiveFails(c) \/ CallTimeout(c)

HandlerStep(k) ==
    \/ Accept(k) \/ Dispatch(k) \/ HangUp(k) \/ Respond(k)

Next ==
    \/ \E c \in Calls :
        \/ ContextDone(c) \/ Begin(c) \/ CallStep(c)
        \/ CancelOnDone(c) \/ CancelStopped(c)
        \/ HandlerStep(c) \/ WatchPeer(c) \/ Finish(c) \/ Abort(c)
    \/ OtherConnects \/ OtherLeaves
    \/ AgentDies \/ AgentStarts

\* Goroutines that can run do, a killed command dies and systemd restarts the
\* agent.  A command may run for ever (Finish), a peer may stay (OtherLeaves)
\* and a context may never end.  Lock is strongly fair: Go mutexes hand over to
\* a waiter that has been passed over.
Fairness ==
    /\ \A c \in Calls :
        /\ WF_vars(CallStep(c)) /\ SF_vars(Lock(c))
        /\ WF_vars(HandlerStep(c)) /\ WF_vars(WatchPeer(c)) /\ WF_vars(Abort(c))
        /\ WF_vars(CancelOnDone(c) \/ CancelStopped(c))
    /\ WF_vars(AgentStarts)

Spec == Init /\ [][Next]_vars
FairSpec == Spec /\ Fairness

-----------------------------------------------------------------------------
(* Properties.                                                                *)

Returned == {"ok", "failed"}

\* Every variable keeps its type, the mutex is held by the call that is inside
\* it, and the client's connection is one it has not closed.
TypeOK ==
    /\ pc \in [Calls -> {"new", "queued", "locked", "connected", "armed", "sent"} \cup Returned]
    /\ live \subseteq Calls /\ mu \in Calls \cup {Nil} /\ conn \in Calls \cup {Nil}
    /\ canceller \in [Calls -> {"none", "watching", "stopping", "gone"}]
    /\ used \in [Calls -> Calls \cup {Nil}] /\ got \in [Calls -> Calls \cup {Nil, Busy}]
    /\ open \subseteq Calls /\ expired \subseteq Calls
    /\ request \in [Calls -> Calls \cup {Nil}]
    /\ reply \in [Calls -> Calls \cup {Nil, Busy}]
    /\ handler \in [Calls -> {"none", "backlog", "closed"} \cup Serving]
    /\ command \in [Calls -> Calls \cup {Nil}]
    /\ others \in Nat /\ up \in BOOLEAN /\ crashes \in 0..MaxCrashes
    /\ started \in [Calls -> Nat] /\ completed \subseteq Calls
    /\ \A c \in Calls : mu = c <=> pc[c] \in {"locked", "connected", "armed", "sent"}
    /\ conn # Nil => conn \in open

\* A call never gets another call's reply, although Decode does not look at the
\* response ID: every failed call takes its connection with it (roundTrip).
OwnReply == \A c \in Calls : got[c] \in {c, Nil, Busy}

\* A call that succeeded had its command run once, to the end, and no call's
\* command runs twice: nothing on this path retries.
ExactlyOnce ==
    /\ \A c \in Calls : started[c] <= 1
    /\ \A c \in Calls : pc[c] = "ok" => started[c] = 1 /\ c \in completed

\* The agent never serves more than MaxConns connections, so it never runs more
\* commands than that as root (connSlots).
SlotsBounded == Slots <= MaxConns /\ Cardinality(Commands) <= MaxConns

\* A command whose caller has gone stops ("The command it abandoned must stop
\* too, or it runs as root to its own timeout beside the retry",
\* cancel_on_disconnect_test.go), even when it would never end by itself.
AbandonedStops ==
    \A k \in Calls : (handler[k] = "busy" /\ k \notin open) ~> handler[k] # "busy"

\* Every call returns: a wedged agent, a command that never ends or an agent
\* that dies cannot hold the client's mutex for ever (callTimeout).
EveryCallReturns == \A c \in Calls : pc[c] = "queued" ~> pc[c] \in Returned

\* A call uses no connection that an earlier call learned was refused: "the
\* client redials on its next call, so a refusal is recoverable" (Serve).
RefusedIsRedialled ==
    \A c, d \in Calls : pc[c] = "armed" /\ got[d] = Busy /\ used[d] # Nil => conn # used[d]

-----------------------------------------------------------------------------
(* The inductive invariant.  What travels on a connection belongs to the call *)
(* that sent it there, and while the client still holds the connection that   *)
(* call is the one inside the mutex.                                          *)

\* Where a call is before its request is on the wire.
Unsent == {"new", "queued", "locked", "connected", "armed"}

\* A connection carries one exchange at a time, and its handler knows it.
ConnInv ==
    /\ conn # Nil => handler[conn] # "none"
    /\ \A k \in Calls :
        /\ command[k] # Nil <=> handler[k] \in {"busy", "cancelled", "finished"}
        /\ command[k] # Nil => request[k] = Nil /\ reply[k] = Nil
        /\ reply[k] \in Calls => request[k] = Nil
        /\ reply[k] = Busy => handler[k] = "closed"
        /\ handler[k] = "none" => request[k] = Nil /\ reply[k] = Nil
        /\ handler[k] = "finished" => command[k] \in completed

\* What a call in each place has done.
CallInv ==
    \A c \in Calls :
        /\ pc[c] \in {"new", "queued", "locked"} => handler[c] = "none"
        /\ pc[c] \in {"connected", "armed", "sent"} => conn # Nil
        /\ pc[c] \in {"armed", "sent"} => used[c] = conn
        /\ canceller[c] \in {"watching", "stopping"} => used[c] # Nil
        /\ pc[c] \in Unsent => started[c] = 0

\* Whose request, command or reply a connection carries.
FlightInv ==
    \A k, c \in Calls :
        /\ c \in {request[k], command[k], reply[k]} => used[c] = k /\ pc[c] \in {"sent", "failed"}
        /\ request[k] = c => started[c] = 0
        /\ c \in {command[k], reply[k]} => started[c] = 1
        /\ reply[k] = c => c \in completed
        /\ c \in {command[k], reply[k]} /\ conn = k => pc[c] = "sent"
        /\ request[k] = c /\ conn = k /\ handler[k] # "closed" => pc[c] = "sent"

\* The connections that hold a slot are finitely many, and within the bound.
SlotsInv == IsFiniteSet({k \in Calls : handler[k] \in Serving}) /\ Slots <= MaxConns

\* The facts about the two ends of the socket that hold together after every
\* step, and from which OwnReply, ExactlyOnce and SlotsBounded follow.
IInv ==
    TypeOK /\ ConnInv /\ CallInv /\ FlightInv /\ OwnReply /\ ExactlyOnce /\ SlotsInv

=============================================================================
