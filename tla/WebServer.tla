------------------------------ MODULE WebServer ------------------------------
(* The life of the web process: runServe (cmd/lankeeper/serve.go) and Serve      *)
(* (internal/web/server.go).  Serve starts the background loops, listens, and    *)
(* after a signal waits for the loops its wait group counts.  A loop is idle or  *)
(* in the middle of a step; what the steps do is modelled elsewhere.             *)
EXTENDS Naturals

CONSTANTS
    Counted,       \* loops Serve starts with the wait group bg
    Uncounted,     \* loops it starts without: the health checks
    Requests       \* HTTP requests

ASSUME ServerAssumption ==
    Counted \cap Uncounted = {} /\ Requests \cap (Counted \cup Uncounted) = {}

VARIABLES
    server,     \* where Serve is
    signalled,  \* the context of NotifyContext is done
    loops,      \* per loop: none, idle, busy, gone
    requests,   \* per HTTP request: none, running, answered
    shutdown,   \* the shutdown watcher: none, waiting, closing, done
    secret,     \* the session secret: in the config, and on disk
    sweepers,   \* the tickers of the rate limiters and the login guard: none, running, stopped
    restored,   \* loadSavedState has run
    drained,    \* how the wait for bg ended: no, yes, timeout
    cut         \* history: loops and requests the exit of the process cut off

startup == <<secret, sweepers, restored>>
serverVars == <<server, signalled, loops, requests, shutdown, startup, drained, cut>>

Loops == Counted \cup Uncounted
Stepping == {l \in Loops : loops[l] = "busy"}
WebServing == {r \in Requests : requests[r] = "running"}

ServerInit ==
    /\ server = "loading" /\ signalled = FALSE
    /\ loops = [l \in Loops |-> "none"]
    /\ requests = [r \in Requests |-> "none"]
    /\ shutdown = "none" /\ drained = "no" /\ cut = {}
    /\ sweepers = "none" /\ restored = FALSE
    /\ secret \in [live : {FALSE}, saved : BOOLEAN]

\* The process ends, and with it every goroutine.
Exit ==
    /\ server' = "exited"
    /\ loops' = [l \in Loops |-> "gone"]
    /\ cut' = Stepping \cup WebServing
    /\ shutdown' = "done"
    /\ requests' = [r \in Requests |-> IF requests[r] = "running" THEN "none" ELSE requests[r]]
    /\ UNCHANGED <<signalled, startup>>

\* runServe: the session secret, saved if that works; then NewServer, which wires
\* the services and starts the sweepers. An unreadable config or template ends it.
EnsureSessionSecret ==
    /\ server = "loading" /\ ~secret.live
    /\ \E stored \in {TRUE, secret.saved} : secret' = [live |-> TRUE, saved |-> stored]
    /\ UNCHANGED <<server, signalled, loops, requests, shutdown, sweepers, restored, drained, cut>>

NewServer ==
    /\ server = "loading" /\ secret.live
    /\ server' = "starting" /\ sweepers' = "running"
    /\ UNCHANGED <<signalled, loops, requests, shutdown, secret, restored, drained, cut>>
RunServe ==
    \/ EnsureSessionSecret \/ NewServer
    \/ server = "loading" /\ drained' = drained /\ Exit

\* Serve starts its loops one after the other and puts the saved state back between
\* them; its failures are logged.
LoadSavedState ==
    /\ server = "starting" /\ ~restored
    /\ restored' = TRUE
    /\ UNCHANGED <<server, signalled, loops, requests, shutdown, secret, sweepers, drained, cut>>
\* A loop that is switched off, or a lease watcher that cannot watch its file, never runs.
StartLoop(l) ==
    /\ server = "starting" /\ loops[l] = "none"
    /\ \E started \in {"idle", "gone"} : loops' = [loops EXCEPT ![l] = started]
    /\ UNCHANGED <<server, signalled, requests, shutdown, startup, drained, cut>>

StartShutdownWatcher ==
    /\ server = "starting" /\ restored /\ \A l \in Loops : loops[l] # "none"
    /\ shutdown = "none"
    /\ shutdown' = "waiting"
    /\ server' = "tls"
    /\ UNCHANGED <<signalled, loops, requests, startup, drained, cut>>

\* EnsureTLSCert and the certificate reloader; a failure returns at once.
Listen ==
    /\ server = "tls"
    /\ server' = "listening"
    /\ UNCHANGED <<signalled, loops, requests, shutdown, startup, drained, cut>>

TLSFails == server = "tls" /\ drained' = drained /\ Exit

Terminate ==
    /\ ~signalled /\ server # "exited"
    /\ signalled' = TRUE
    /\ UNCHANGED <<server, loops, requests, shutdown, startup, drained, cut>>

StopBackgroundSweepers == sweepers' = "stopped"
\* The watcher stops the sweepers and closes the listener; Shutdown then waits for the requests.
CloseListener ==
    /\ signalled /\ shutdown = "waiting"
    /\ shutdown' = "closing" /\ StopBackgroundSweepers
    /\ UNCHANGED <<server, signalled, loops, requests, secret, restored, drained, cut>>

\* ListenAndServeTLS returns as soon as Shutdown is called.
ListenReturns ==
    /\ server = "listening" /\ shutdown = "closing"
    /\ server' = "draining"
    /\ UNCHANGED <<signalled, loops, requests, shutdown, startup, drained, cut>>

\* The listener dies for another reason: with a live context nothing is drained.
ListenerDies ==
    /\ server = "listening" /\ shutdown # "closing"
    /\ IF signalled
       THEN server' = "draining" /\ UNCHANGED <<signalled, loops, requests, shutdown, startup, drained, cut>>
       ELSE drained' = drained /\ Exit

Drained == \A l \in Counted : loops[l] = "gone"
\* Variant: nothing is waited for.
DrainAtOnce == server = "draining" /\ drained' = "yes" /\ Exit
\* Variant: the wait group is waited for without a timeout.
DrainNoTimeout == server = "draining" /\ Drained /\ drained' = "yes" /\ Exit
\* drainBackground: the wait group reaches zero, or the timeout passes.
DrainBackground ==
    /\ server = "draining"
    /\ \/ Drained /\ drained' = "yes"
       \/ ~Drained /\ drained' = "timeout"
    /\ Exit

Serve ==
    \/ \E l \in Loops : StartLoop(l)
    \/ LoadSavedState \/ StartShutdownWatcher \/ Listen \/ TLSFails
    \/ CloseListener \/ ListenReturns \/ ListenerDies \/ DrainBackground

\* A loop starts a step while the context is live, finishes one in any case, and
\* leaves once the context is done.
LoopStep(l) ==
    /\ server # "exited"
    /\ \/ loops[l] = "idle" /\ ~signalled /\ loops' = [loops EXCEPT ![l] = "busy"]
       \/ loops[l] = "busy" /\ loops' = [loops EXCEPT ![l] = "idle"]
       \/ loops[l] = "idle" /\ signalled /\ loops' = [loops EXCEPT ![l] = "gone"]
    /\ UNCHANGED <<server, signalled, requests, shutdown, startup, drained, cut>>

TakeRequest(r) ==
    /\ server = "listening" /\ shutdown # "closing" /\ requests[r] = "none"
    /\ requests' = [requests EXCEPT ![r] = "running"]
    /\ UNCHANGED <<server, signalled, loops, shutdown, startup, drained, cut>>

Answer(r) ==
    /\ server # "exited" /\ requests[r] = "running"
    /\ requests' = [requests EXCEPT ![r] = "answered"]
    /\ UNCHANGED <<server, signalled, loops, shutdown, startup, drained, cut>>

ServerNext ==
    \/ RunServe \/ Serve \/ Terminate
    \/ \E l \in Loops : LoopStep(l)
    \/ \E r \in Requests : TakeRequest(r) \/ Answer(r)

\* Serve and its shutdown watcher run; the drain is bounded by its timeout.
ServerFair ==
    /\ WF_serverVars(RunServe) /\ WF_serverVars(LoadSavedState)
    /\ WF_serverVars(\E l \in Loops : StartLoop(l))
    /\ WF_serverVars(StartShutdownWatcher) /\ WF_serverVars(Listen \/ TLSFails)
    /\ WF_serverVars(CloseListener) /\ WF_serverVars(ListenReturns)
    /\ WF_serverVars(DrainBackground)

ServerSpec == ServerInit /\ [][ServerNext]_serverVars /\ ServerFair

-----------------------------------------------------------------------------
ServerTypeOK ==
    /\ server \in {"loading", "starting", "tls", "listening", "draining", "exited"}
    /\ signalled \in BOOLEAN /\ restored \in BOOLEAN /\ sweepers \in {"none", "running", "stopped"}
    /\ secret \in [live : BOOLEAN, saved : BOOLEAN]
    /\ loops \in [Loops -> {"none", "idle", "busy", "gone"}]
    /\ requests \in [Requests -> {"none", "running", "answered"}]
    /\ shutdown \in {"none", "waiting", "closing", "done"}
    /\ drained \in {"no", "yes", "timeout"} /\ cut \subseteq Loops \cup Requests

\* Serve's wait group: unless the drain ran into its timeout, an ordered shutdown
\* cuts off no loop that bg counts.
CountedFinish == drained = "yes" => cut \cap Counted = {}

\* loadSavedState runs "before the UI can ask for it": no request is taken before
\* the saved state is back and every loop was started.
RestoredBeforeServing ==
    \A r \in Requests : requests[r] # "none" => restored /\ sweepers # "none" /\ \A l \in Loops : loops[l] # "none"

\* The server's start and end are in order (Serve, drainBackground): nothing is
\* served before the saved state is back, and no counted loop is cut off.
ServerSound == CountedFinish /\ RestoredBeforeServing

\* Why it is sound: Serve reaches its listener by way of NewServer, loadSavedState
\* and the start of every loop, and the drain is decided when the process ends.
ServerInv ==
    /\ ServerTypeOK /\ ServerSound
    /\ server \in {"starting", "tls", "listening", "draining"} => sweepers # "none"
    /\ server \in {"tls", "listening", "draining"} => restored /\ \A l \in Loops : loops[l] # "none"
    /\ server # "exited" => drained = "no"

\* A signal ends the process whatever the loops do, wherever Serve is by then.
SignalEnds == signalled ~> server = "exited"

=============================================================================
