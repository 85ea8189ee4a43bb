------------------------------ MODULE Qwproxy ------------------------------
(***************************************************************************)
(* cmd/qwproxy/main.go, from the start to the end of the process:          *)
(* request handlers, the signal context that the audit writer's worker     *)
(* shares, http.Server.Shutdown and Writer.Close under one deadline, and   *)
(* the deferred release of the pools.  Composes AuditWriter, whose CallLog, *)
(* CloseCall, CloseGiveUp and CancelCtx happen where main makes them       *)
(* happen.  A handler names the one request it serves.                     *)
(***************************************************************************)
EXTENDS AuditWriter

VARIABLES
    phase,       \* where main's goroutine is
    conn,        \* each request: "none", "lookup", "active", "aborted", "done"
    deadline     \* shutCtx, the 15 s that Shutdown and Close share, has ended

serverVars == <<phase, conn, deadline>>
allVars == <<vars, serverVars>>

Active == {r \in Records : conn[r] \in {"lookup", "active"}}
Lookups == {r \in Records : conn[r] = "lookup"}

ServerInit ==
    /\ Init
    /\ phase = "starting"
    /\ conn = [r \in Records |-> "none"]
    /\ deadline = FALSE

Become(r, from, to) == conn[r] = from /\ conn' = [conn EXCEPT ![r] = to]

-----------------------------------------------------------------------------
(* Requests.  The listener is open until Shutdown, even once the signal    *)
(* has been delivered, and a connection accepted before can still bring    *)
(* one while Shutdown waits.  One with a key, or that manages keys, takes  *)
(* a connection of the key store; the query has no timeout of its own.     *)
Arrive(r) ==
    /\ phase \in {"serving", "draining"}
    /\ Become(r, "none", "active") \/ Become(r, "none", "lookup")
    /\ UNCHANGED <<vars, phase, deadline>>

LookupEnds(r) ==
    /\ Become(r, "lookup", "active") \/ Become(r, "lookup", "aborted")
    /\ UNCHANGED <<vars, phase, deadline>>

(* The upstream has answered: ServeHTTP hands the record to the writer.    *)
ReachLog(r) == conn[r] = "active" /\ CallLog(r) /\ UNCHANGED serverVars

(* httputil.ReverseProxy panics with ErrAbortHandler when the body cannot  *)
(* be copied to the end: Log is never reached.  Nor do requests reach it   *)
(* that are turned away, or are about keys.                                *)
Abort(r) ==
    /\ handler[r] = "idle"
    /\ Become(r, "active", "aborted")
    /\ UNCHANGED <<vars, phase, deadline>>

(* net/http recovers a panicking handler and closes its connection.        *)
Return(r) ==
    /\ handler[r] \in {"logged", "panicked"}
    /\ Become(r, "active", "done")
    /\ UNCHANGED <<vars, phase, deadline>>

-----------------------------------------------------------------------------
(* main: the stores and the verifier are opened under a timeout, and any   *)
(* failure ends it; then select on errCh and ctx.Done, and the shutdown.   *)
MainStep(from, to) == phase = from /\ phase' = to

Start == MainStep("starting", "serving") /\ UNCHANGED <<vars, conn, deadline>>
StartFails == MainStep("starting", "unwinding") /\ UNCHANGED <<vars, conn, deadline>>

(* SIGINT or SIGTERM cancels the one context that Start was given too.     *)
Signal == CancelCtx /\ UNCHANGED serverVars

ListenerFails == MainStep("serving", "unwinding") /\ UNCHANGED <<vars, conn, deadline>>

FaultCloseFirst == MainStep("serving", "closing") /\ ctxDone /\ CloseCall /\ UNCHANGED <<conn, deadline>>
BeginShutdown == MainStep("serving", "draining") /\ ctxDone /\ UNCHANGED <<vars, conn, deadline>>

Deadline ==
    /\ phase \in {"draining", "closing"} /\ ~deadline
    /\ deadline' = TRUE
    /\ UNCHANGED <<vars, phase, conn>>

(* srv.Shutdown returns nil when no request is active, or ctx's error.     *)
FaultNoDeadline == FALSE /\ CloseCall /\ UNCHANGED serverVars
ShutdownTimesOut == deadline /\ MainStep("draining", "closing") /\ CloseCall /\ UNCHANGED <<conn, deadline>>

Drained == Active = {} /\ MainStep("draining", "closing") /\ CloseCall /\ UNCHANGED <<conn, deadline>>

CloseFinishes == MainStep("closing", "unwinding") /\ CloseDone /\ UNCHANGED <<conn, deadline>>
CloseTimesOut ==
    deadline /\ MainStep("closing", "unwinding") /\ CloseGiveUp /\ UNCHANGED <<conn, deadline>>

(* defer keyStore.Close() and sink.Close(): pgxpool waits for every         *)
(* connection that is out, those of lookups and that of an insert.         *)
Exit ==
    /\ MainStep("unwinding", "exited")
    /\ Lookups = {}
    /\ worker \notin {"inserting", "committed", "broken"}
    /\ UNCHANGED <<vars, conn, deadline>>

Main ==
    \/ Start \/ StartFails \/ BeginShutdown \/ Drained \/ ShutdownTimesOut
    \/ CloseFinishes \/ CloseTimesOut \/ Exit

ServerNext ==
    /\ phase # "exited"
    /\ \/ \E r \in Records :
             \/ Arrive(r) \/ LookupEnds(r) \/ ReachLog(r) \/ Abort(r) \/ Return(r)
             \/ Log(r) /\ UNCHANGED serverVars
       \/ (Worker \/ Sink) /\ UNCHANGED serverVars
       \/ Signal \/ ListenerFails \/ Deadline
       \/ Main

ServerSpec == ServerInit /\ [][ServerNext]_allVars

(* A handler may stream for ever.  The database need not answer until the  *)
(* insert's context is cancelled: then pgx itself ends the call.           *)
Running(A) == phase # "exited" /\ A /\ UNCHANGED serverVars
ServerFairSpec ==
    /\ ServerSpec
    /\ WF_allVars(Main) /\ WF_allVars(Deadline)
    /\ WF_allVars(Running(Worker))
    /\ WF_allVars(Running(ctxDone /\ (InsertOk \/ InsertErr)))

-----------------------------------------------------------------------------
(* Closing the channel under a running handler makes its Log panic.  That  *)
(* happens only to requests that outlive the whole shutdown deadline.      *)
PanicOnlyPastDeadline == At("panicked") # {} => deadline

(* The figures of main's last log line ("audit writer stopped", written,   *)
(* dropped) account for every request that was answered, but for what the  *)
(* worker left on the channel - if Shutdown drained the server.            *)
LastLineAccounts ==
    closer = "finished" /\ ~deadline =>
        written + dropped + Cardinality(With("queued")) = Cardinality(At("logged"))

(* What a process that ends takes with it uncounted is never more than one *)
(* channel, and one batch if Close gave up or was not reached.             *)
StrandedBounded ==
    phase = "exited" =>
        Cardinality(With("queued")) <= Buffer + (IF closer = "finished" THEN 0 ELSE BatchSize)

(* A signalled proxy ends, although handlers may stream for ever and the   *)
(* database may never answer an insert - unless it never answers a lookup: *)
(* the deadline is not the pools'.                                         *)
LookupsReturn == []<>(Lookups = {})
SignalStops == LookupsReturn => (ctxDone ~> phase = "exited")

(* "Close ... flushes what is buffered, and waits for the worker": after a *)
(* Close that saw the worker finish nothing is left on the channel.        *)
CloseFlushesBuffered == closer = "finished" => With("queued") = {}

=============================================================================
