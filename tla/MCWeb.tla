------------------------------- MODULE MCWeb --------------------------------
(* Small instances of what runs beside the handlers inside the web process:   *)
(* the server's life from start to shutdown, its event streams, the watcher   *)
(* of the IPv6 lease and the tail of the query log.  They share no state, so  *)
(* one behaviour runs one of them (part) while the others rest in an initial  *)
(* state: the states of the run are the sum of theirs, not the product.       *)
EXTENDS WebServer, SSEBroker, LeaseWatcher, QueryLog

VARIABLE part

-----------------------------------------------------------------------------
WebInit ==
    /\ part \in {"server", "sse", "lease", "log"}
    /\ ServerInit /\ (part = "server" \/ secret.saved)
    /\ SSEInit
    /\ LeaseInit /\ (part = "lease" \/ leaseFile = NoLease)
    /\ QueryLogInit /\ (part = "log" \/ logFile = <<>>)

WebNext ==
    /\ part' = part
    /\ \/ part = "server" /\ UNCHANGED <<sseVars, leaseVars, logVars>> /\ ServerNext
       \/ part = "sse" /\ UNCHANGED <<serverVars, leaseVars, logVars>> /\ SSENext
       \/ part = "lease" /\ UNCHANGED <<serverVars, sseVars, logVars>> /\ LeaseNext
       \/ part = "log" /\ UNCHANGED <<serverVars, sseVars, leaseVars>> /\ QueryLogNext

\* The fairness of the modules.  The initial state of the streams enables nothing
\* that is fair; the conjuncts of the others ask for the part.
WebFair ==
    /\ SSEFair
    /\ WF_serverVars(part = "server" /\ RunServe)
    /\ WF_serverVars(part = "server" /\ LoadSavedState)
    /\ WF_serverVars(part = "server" /\ \E l \in Loops : StartLoop(l))
    /\ WF_serverVars(part = "server" /\ StartShutdownWatcher)
    /\ WF_serverVars(part = "server" /\ (Listen \/ TLSFails))
    /\ WF_serverVars(part = "server" /\ CloseListener)
    /\ WF_serverVars(part = "server" /\ ListenReturns)
    /\ WF_serverVars(part = "server" /\ DrainBackground)
    /\ WF_leaseVars(part = "lease" /\ LeaseGoroutine)
    /\ WF_logVars(part = "log" /\ TailQueryLog)

WebSpec ==
    WebInit /\ [][WebNext]_<<part, serverVars, sseVars, leaseVars, logVars>> /\ WebFair

-----------------------------------------------------------------------------
\* Every variable of the part that runs stays within its type.
WebTypesOK ==
    CASE part = "server" -> ServerTypeOK
      [] part = "sse" -> SSETypeOK
      [] part = "lease" -> LeaseTypeOK
      [] part = "log" -> LogTypeOK

\* What is fed to others is true and in order: the event streams to their peers
\* (Publish, Unsubscribe) and the lease to its hook (dispatchLeaseLocked).
FeedsSound == NoSendOnClosed /\ InOrder /\ LeaseSeen

\* The DNS page shows the query log as it was written (readQueryLog), a line of
\* the log reaches the page's buffer, and a lease on disk the hook.
FeedsDeliver == []QueryLogSound /\ LinesReachBuffer /\ (part = "lease" => LeaseDelivered)

=============================================================================
