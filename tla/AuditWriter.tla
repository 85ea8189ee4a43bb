---------------------------- MODULE AuditWriter ----------------------------
(***************************************************************************)
(* internal/audit/writer.go: the asynchronous audit writer.  Handlers call *)
(* Log, which puts a record on a bounded channel or, when that is full,    *)
(* drops and counts it; one worker inserts records in batches; Close and   *)
(* the worker's context stop it.  One handler logs one record, so a record *)
(* also names its handler.  What a select, an atomic counter or Postgres   *)
(* makes separately observable is a separate action.  Operators called     *)
(* Fault... are seeded bugs, no part of the specification.                 *)
(***************************************************************************)
EXTENDS Naturals, Sequences, FiniteSets, Functions

CONSTANTS
    Records,      \* the records that are ever logged, one per handler
    Buffer,       \* Options.Buffer, the capacity of the channel
    BatchSize     \* Options.BatchSize, the most rows of one InsertBatch

(* withDefaults leaves no option below one.                                *)
ASSUME BufferAssumption == Buffer \in Nat \ {0}
ASSUME BatchSizeAssumption == BatchSize \in Nat \ {0}
ASSUME RecordsAssumption == IsFiniteSet(Records)

VARIABLES
    ch, closed,                    \* the channel, and whether it is closed
    enqueued, dropped, written,    \* the three atomic counters
    handler,                       \* where each handler is in its call of Log
    worker, batch,                 \* where the worker is, and its local slice
    leaving,                       \* the flush under way is followed by return
    rows,                          \* the rows of qw_audit, in insertion order
    broken,                        \* history: their commit broke after the results
    ctxDone,                       \* the context given to Start is cancelled
    closer,                        \* where the caller of Close is
    fate                           \* history: what became of each record

logVars    == <<enqueued, handler>>
workerVars == <<written, worker, batch, leaving, rows, broken>>
closeVars  == <<closed, closer>>
vars == <<ch, enqueued, dropped, handler, workerVars, closeVars, ctxDone, fate>>

With(f) == {r \in Records : fate[r] = f}      \* the records of one fate
At(p)   == {r \in Records : handler[r] = p}   \* the handlers at one place

InsertUnderWay == worker \in {"inserting", "doomed", "committed", "broken"}

(* The type invariant, with the capacities of the channel and the batch.   *)
TypeOK ==
    /\ ch \in Seq(Records) /\ Len(ch) <= Buffer
    /\ closed \in BOOLEAN /\ ctxDone \in BOOLEAN /\ leaving \in BOOLEAN
    /\ enqueued \in Nat /\ dropped \in Nat /\ written \in Nat
    /\ handler \in [Records -> {"idle", "logging", "sent", "refused",
                                "logged", "panicked"}]
    /\ worker \in {"select", "inserting", "doomed", "committed", "broken", "exited"}
    /\ batch \in Seq(Records) /\ Len(batch) <= BatchSize
    /\ rows \in Seq(Records) /\ broken \subseteq Records
    /\ closer \in {"open", "waiting", "finished", "gaveup"}
    /\ fate \in [Records -> {"unlogged", "queued", "written", "lost", "refused"}]

Init ==
    /\ ch = <<>> /\ batch = <<>> /\ rows = <<>> /\ broken = {}
    /\ closed = FALSE /\ ctxDone = FALSE /\ leaving = FALSE
    /\ enqueued = 0 /\ dropped = 0 /\ written = 0
    /\ worker = "select" /\ closer = "open"
    /\ handler = [r \in Records |-> "idle"]
    /\ fate = [r \in Records |-> "unlogged"]

-----------------------------------------------------------------------------
(* Log: the default case is taken only when the send would block; a send   *)
(* on a closed channel does not block, it panics.                          *)
Step(r, from, to) ==
    /\ handler[r] = from
    /\ handler' = [handler EXCEPT ![r] = to]
    /\ UNCHANGED <<closeVars, workerVars, ctxDone>>

CallLog(r) == Step(r, "idle", "logging") /\ UNCHANGED <<ch, enqueued, dropped, fate>>

LogSend(r) ==
    /\ Step(r, "logging", "sent")
    /\ ~closed /\ Len(ch) < Buffer
    /\ ch' = Append(ch, r)
    /\ fate' = [fate EXCEPT ![r] = "queued"]
    /\ UNCHANGED <<enqueued, dropped>>

LogRefuse(r) ==
    /\ Step(r, "logging", "refused")
    /\ ~closed /\ Len(ch) >= Buffer
    /\ fate' = [fate EXCEPT ![r] = "refused"]
    /\ UNCHANGED <<ch, enqueued, dropped>>

LogPanic(r) ==
    Step(r, "logging", "panicked") /\ closed /\ UNCHANGED <<ch, enqueued, dropped, fate>>

(* The counters are added to after the select has let go of the channel.   *)
CountEnqueued(r) ==
    /\ Step(r, "sent", "logged")
    /\ enqueued' = enqueued + 1
    /\ UNCHANGED <<ch, dropped, fate>>

CountRefused(r) ==
    /\ Step(r, "refused", "logged")
    /\ dropped' = dropped + 1
    /\ UNCHANGED <<ch, enqueued, fate>>

Log(r) ==
    \/ LogSend(r) \/ LogRefuse(r) \/ LogPanic(r)
    \/ CountEnqueued(r) \/ CountRefused(r)

-----------------------------------------------------------------------------
(* flush: an empty batch is left alone.  pgx refuses to acquire a          *)
(* connection for a context that is already done ("doomed").               *)
Flush(b, last) ==
    /\ leaving' = last
    /\ worker' = IF b # <<>> THEN IF ctxDone THEN "doomed" ELSE "inserting"
                 ELSE IF last THEN "exited" ELSE "select"

FaultOffByOne(b) == Len(b) > BatchSize
Full(b) == Len(b) >= BatchSize

Receive ==
    /\ worker = "select" /\ ch # <<>>
    /\ ch' = Tail(ch)
    /\ batch' = Append(batch, Head(ch))
    /\ IF Full(batch') THEN Flush(batch', FALSE) ELSE UNCHANGED <<worker, leaving>>
    /\ UNCHANGED <<logVars, closeVars, dropped, written, rows, broken, ctxDone, fate>>

(* One case of the select whose body is flush().                           *)
FlushCase(last) ==
    /\ worker = "select"
    /\ Flush(batch, last)
    /\ UNCHANGED <<ch, logVars, closeVars, dropped, written, batch, rows, broken, ctxDone, fate>>

(* A tick with an empty batch changes nothing.                             *)
FaultFullOnly == FlushCase(FALSE) /\ Len(batch) > BatchSize
Tick == FlushCase(FALSE) /\ batch # <<>>

(* recv !ok: a closed channel first delivers what it holds.                *)
FaultClosedFlag == FlushCase(TRUE) /\ closed
SeeClosed == FlushCase(TRUE) /\ closed /\ ch = <<>>

(* ctx.Done: the channel is not looked at; select picks a ready case.      *)
FaultRangeOverCh == FlushCase(TRUE) /\ FALSE
FaultNoFinalFlush ==
    /\ worker = "select" /\ ctxDone /\ worker' = "exited" /\ leaving' = TRUE
    /\ UNCHANGED <<ch, logVars, closeVars, dropped, written, batch, rows, broken, ctxDone, fate>>
SeeCancelled == FlushCase(TRUE) /\ ctxDone

(* Postgres commits the pipelined batch, all of its rows or none, at the   *)
(* Sync that follows the statements.  A commit whose answer is lost counts *)
(* as one before the error: nothing here reads the table.                  *)
InsertCommit ==
    /\ worker = "inserting" /\ worker' = "committed"
    /\ rows' = rows \o batch
    /\ UNCHANGED <<ch, logVars, closeVars, dropped, written, batch, leaving, broken, ctxDone, fate>>

(* Or each statement has given its result and the commit itself fails.     *)
(* Only br.Close() sees that, and InsertBatch throws its error away.       *)
CommitBreaks ==
    /\ worker = "inserting" /\ worker' = "broken"
    /\ broken' = broken \cup Range(batch)
    /\ UNCHANGED <<ch, logVars, closeVars, dropped, written, batch, leaving, rows, ctxDone, fate>>

FaultNoReset == UNCHANGED batch
Reset == batch' = <<>>

AfterInsert(f) ==
    /\ fate' = [r \in Records |-> IF r \in Range(batch) THEN f ELSE fate[r]]
    /\ Reset
    /\ worker' = IF leaving THEN "exited" ELSE "select"
    /\ UNCHANGED <<ch, logVars, closeVars, leaving, rows, broken, ctxDone>>

FaultUnreadResults ==
    /\ InsertUnderWay
    /\ written' = written + Len(batch)
    /\ AfterInsert("written") /\ UNCHANGED dropped

(* The n results were read: nil, whatever became of the commit.            *)
InsertOk ==
    /\ worker \in {"committed", "broken"}
    /\ written' = written + Len(batch)
    /\ AfterInsert("written") /\ UNCHANGED dropped

FaultUncounted == InsertUnderWay /\ AfterInsert("lost") /\ UNCHANGED <<dropped, written>>
FaultRetry ==
    /\ InsertUnderWay /\ worker' = "inserting"
    /\ UNCHANGED <<ch, logVars, closeVars, dropped, written, batch, leaving, rows, broken, ctxDone, fate>>

(* An error may come before the commit, or after it (a lost connection).   *)
InsertErr ==
    /\ InsertUnderWay /\ worker # "broken"
    /\ dropped' = dropped + Len(batch)
    /\ AfterInsert("lost") /\ UNCHANGED written

Worker == Receive \/ Tick \/ SeeClosed \/ SeeCancelled
Sink   == InsertCommit \/ CommitBreaks \/ InsertOk \/ InsertErr

-----------------------------------------------------------------------------
(* Close: closeMu closes the channel once; its ctx may end the wait.       *)
CloseCall ==
    /\ closer = "open" /\ closer' = "waiting" /\ closed' = TRUE
    /\ UNCHANGED <<ch, logVars, dropped, workerVars, ctxDone, fate>>

CloseReturns(how) ==
    /\ closer = "waiting" /\ closer' = how
    /\ UNCHANGED <<ch, closed, logVars, dropped, workerVars, ctxDone, fate>>

CloseDone   == worker = "exited" /\ CloseReturns("finished")
CloseGiveUp == CloseReturns("gaveup")

CancelCtx ==
    /\ ~ctxDone /\ ctxDone' = TRUE
    /\ UNCHANGED <<ch, logVars, dropped, workerVars, closeVars, fate>>

Next ==
    \/ \E r \in Records : CallLog(r) \/ Log(r)
    \/ Worker \/ Sink
    \/ CloseCall \/ CloseDone \/ CloseGiveUp
    \/ CancelCtx

Spec == Init /\ [][Next]_vars

(* What needs a worker that runs and inserts that return says so; handlers *)
(* may stop anywhere.  The worker's select is one choice: no case of it is *)
(* fair by itself.                                                         *)
InsertsReturn == WF_vars(Worker) /\ WF_vars(InsertOk \/ InsertErr)

-----------------------------------------------------------------------------
(* No record goes missing between the counters: every record that was sent *)
(* is on its way, written, or counted as dropped; the only discrepancy is  *)
(* a handler that has not reached its counter yet.                         *)
CountersAgree ==
    /\ enqueued + Cardinality(At("sent")) =
         Cardinality(With("queued")) + Cardinality(With("written"))
                                     + Cardinality(With("lost"))
    /\ written = Cardinality(With("written"))
    /\ dropped + Cardinality(At("refused")) =
         Cardinality(With("lost")) + Cardinality(With("refused"))

(* A record that is on its way is at one place of the batch or the channel,*)
(* and nothing else is there: none is flushed twice, none falls between.   *)
QueuedOnce ==
    /\ IsInjective(batch \o ch)
    /\ Range(batch \o ch) = With("queued")

(* The table and the count of written records, over the commits that go    *)
(* wrong on either side: a record counted as written is a row unless its   *)
(* own commit broke unseen (pgx.go:138), a row has been counted as written *)
(* or lost or belongs to the batch under way, and no row is there twice.   *)
RowsFaithful ==
    /\ IsInjective(rows)
    /\ With("written") \subseteq Range(rows) \cup broken
    /\ Range(rows) \cap broken = {}
    /\ Range(rows) \subseteq With("written") \cup With("lost")
                     \cup (IF worker = "committed" THEN Range(batch) ELSE {})

(* "Close ... flushes what is buffered": while the worker's own context    *)
(* lives, a Close that was not cut short leaves no record behind, whatever *)
(* the channel held when it was called.                                    *)
CleanCloseDrains == closer = "finished" /\ ~ctxDone => With("queued") = {}

(* The writer keeps the promises of AuditLedger.                           *)
Ledger == INSTANCE AuditLedger
            WITH verdict <- fate, table <- Range(rows), broken <- broken
KeepsLedger == Ledger!LedgerSpec

(* A record on the channel does not wait in a partial batch for ever: it   *)
(* is written or counted as dropped, unless the worker is told to stop:    *)
(* "cancel it (or call Close) to stop", and either one does stop it.       *)
RecordSettles ==
    InsertsReturn =>
        /\ \A r \in Records : fate[r] = "queued" ~> (fate[r] # "queued" \/ ctxDone)
        /\ closed \/ ctxDone ~> worker = "exited"
=============================================================================
