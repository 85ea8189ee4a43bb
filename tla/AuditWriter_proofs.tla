------------------------ MODULE AuditWriter_proofs ------------------------
(***************************************************************************)
(* Proofs about AuditWriter, and about the process that Qwproxy composes   *)
(* with it, for every finite set of records, every capacity of the channel *)
(* and every batch size.                                                   *)
(***************************************************************************)
EXTENDS Qwproxy, Integers, FiniteSetTheorems, SequenceTheorems, TLAPS

-----------------------------------------------------------------------------
(* Facts about the range and the injectivity of sequences, on which the    *)
(* channel, the batch and the table rest.                                  *)

(* A concatenation is injective iff its parts are and share nothing.       *)
LEMMA ConcatInjective ==
    ASSUME NEW S, NEW s \in Seq(S), NEW t \in Seq(S)
    PROVE  IsInjective(s \o t) <=>
             IsInjective(s) /\ IsInjective(t) /\ Range(s) \cap Range(t) = {}
<1> DEFINE n == Len(s)  m == Len(t)  st == s \o t
<1>1. /\ n \in Nat /\ m \in Nat
      /\ DOMAIN st = 1..(n + m) /\ DOMAIN s = 1..n /\ DOMAIN t = 1..m
  OBVIOUS
<1>2. \A i \in 1..n : st[i] = s[i] /\ i \in 1..(n + m)
  OBVIOUS
<1>3. \A i \in 1..m : st[n + i] = t[i] /\ n + i \in 1..(n + m)
  OBVIOUS
<1>4. \A i \in 1..(n + m) : i \in 1..n \/ \E j \in 1..m : i = n + j
  <2> SUFFICES ASSUME NEW i \in 1..(n + m), i \notin 1..n
               PROVE  \E j \in 1..m : i = n + j
    OBVIOUS
  <2>1. i - n \in 1..m /\ i = n + (i - n)
    BY <1>1
  <2> QED  BY <2>1
<1> HIDE DEF n, m, st
<1>5. ASSUME IsInjective(st)
      PROVE  IsInjective(s) /\ IsInjective(t) /\ Range(s) \cap Range(t) = {}
  <2>1. IsInjective(s)
    BY <1>1, <1>2, <1>5 DEF IsInjective
  <2>2. ASSUME NEW i \in 1..m, NEW j \in 1..m, t[i] = t[j]
        PROVE  i = j
    <3>1. st[n + i] = st[n + j]
      BY <1>3, <2>2
    <3>2. n + i = n + j
      BY <1>1, <1>3, <1>5, <3>1 DEF IsInjective
    <3> QED  BY <1>1, <3>2
  <2>3. ASSUME NEW i \in 1..n, NEW j \in 1..m, s[i] = t[j]
        PROVE  FALSE
    <3>1. st[i] = st[n + j]
      BY <1>2, <1>3, <2>3
    <3>2. i = n + j
      BY <1>1, <1>2, <1>3, <1>5, <3>1 DEF IsInjective
    <3> QED  BY <1>1, <3>2
  <2>4. IsInjective(t)
    BY <1>1, <2>2 DEF IsInjective
  <2>5. Range(s) \cap Range(t) = {}
    BY <1>1, <2>3 DEF Range
  <2> QED  BY <2>1, <2>4, <2>5
<1>6. ASSUME IsInjective(s), IsInjective(t), Range(s) \cap Range(t) = {}
      PROVE  IsInjective(st)
  <2>1. \A i \in 1..n, j \in 1..m : s[i] # t[j]
    BY <1>1, <1>6 DEF Range
  <2> SUFFICES ASSUME NEW i \in 1..(n + m), NEW j \in 1..(n + m), st[i] = st[j]
               PROVE  i = j
    BY <1>1 DEF IsInjective
  <2>2. CASE i \in 1..n /\ j \in 1..n
    BY <1>1, <1>2, <1>6, <2>2 DEF IsInjective
  <2>3. CASE i \in 1..n /\ j \notin 1..n
    BY <1>2, <1>3, <1>4, <2>1, <2>3
  <2>4. CASE i \notin 1..n /\ j \in 1..n
    BY <1>2, <1>3, <1>4, <2>1, <2>4
  <2>5. CASE i \notin 1..n /\ j \notin 1..n
    <3>1. PICK a \in 1..m, b \in 1..m : i = n + a /\ j = n + b
      BY <1>4, <2>5
    <3>2. t[a] = t[b]
      BY <1>3, <3>1
    <3> QED  BY <1>1, <1>6, <3>1, <3>2 DEF IsInjective
  <2> QED  BY <2>2, <2>3, <2>4, <2>5
<1> QED  BY <1>5, <1>6 DEF st

LEMMA EmptySeqFacts == Range(<<>>) = {} /\ IsInjective(<<>>)
BY DEF Range, IsInjective

(* Concatenating one new element.                                          *)
LEMMA ConcatOne ==
    ASSUME NEW S, NEW s \in Seq(S), NEW x \in S
    PROVE  /\ Range(s \o <<x>>) = Range(s) \cup {x}
           /\ IsInjective(s) /\ x \notin Range(s) => IsInjective(s \o <<x>>)
<1> DEFINE t == <<x>>
<1>1. t \in Seq(S) /\ Range(t) = {x} /\ IsInjective(t)
  BY DEF Range, IsInjective
<1> HIDE DEF t
<1>2. Range(s \o t) = Range(s) \cup Range(t)
  BY <1>1, RangeConcatenation
<1>3. IsInjective(s \o t) <=>
        IsInjective(s) /\ IsInjective(t) /\ Range(s) \cap Range(t) = {}
  BY <1>1, ConcatInjective
<1> QED  BY <1>1, <1>2, <1>3 DEF t

(* Moving the head of one sequence to the end of another leaves their      *)
(* concatenation as it is.                                                 *)
LEMMA MoveHead ==
    ASSUME NEW S, NEW s \in Seq(S), NEW t \in Seq(S), t # <<>>
    PROVE  Append(s, Head(t)) \o Tail(t) = s \o t
OBVIOUS

(* An injective sequence has as many elements as its length says.          *)
LEMMA InjectiveLen ==
    ASSUME NEW S, NEW s \in Seq(S), IsInjective(s)
    PROVE  IsFiniteSet(Range(s)) /\ Cardinality(Range(s)) = Len(s)
<1>1. Len(s) \in Nat /\ DOMAIN s = 1..Len(s) /\ s \in [1..Len(s) -> S]
  OBVIOUS
<1>2. s \in [1..Len(s) -> Range(s)]
  BY <1>1 DEF Range
<1>3. s \in Bijection(1..Len(s), Range(s))
  BY <1>1, <1>2 DEF IsInjective, Range, Bijection, Injection, Surjection
<1>4. ExistsBijection(1..Len(s), Range(s))
  BY <1>3 DEF ExistsBijection
<1>5. IsFiniteSet(1..Len(s)) /\ Cardinality(1..Len(s)) = Len(s)
  BY <1>1, FS_Interval
<1> QED  BY <1>4, <1>5, FS_Bijection

-----------------------------------------------------------------------------
(* The inductive invariant, in four parts beside CountersAgree and         *)
(* RowsFaithful.                                                           *)

(* The worker: a full batch is never waited on, an insert has something to *)
(* insert, and the worker leaves only when it was told to.                 *)
ControlOK ==
    /\ worker = "select" => ~leaving /\ Len(batch) < BatchSize
    /\ InsertUnderWay => batch # <<>>
    /\ worker = "exited" => batch = <<>>
    /\ leaving \/ worker = "exited" => ctxDone \/ (closed /\ ch = <<>>)
    /\ closer = "finished" => worker = "exited"

(* A handler's place in Log and the fate of its record go together.        *)
HandlerFate ==
    \A r \in Records :
        /\ handler[r] \in {"idle", "logging", "panicked"} <=> fate[r] = "unlogged"
        /\ handler[r] = "sent" => fate[r] # "refused"
        /\ handler[r] = "refused" => fate[r] = "refused"

-----------------------------------------------------------------------------
LEMMA InitControl == Init => TypeOK /\ ControlOK
<1> SUFFICES ASSUME Init PROVE TypeOK /\ ControlOK
  OBVIOUS
<1>1. /\ ch \in Seq(Records) /\ batch \in Seq(Records) /\ rows \in Seq(Records)
      /\ Len(ch) = 0 /\ Len(batch) = 0 /\ broken \subseteq Records
  BY DEF Init
<1>2. TypeOK
  <2>1. /\ handler \in [Records -> {"idle", "logging", "sent", "refused", "logged", "panicked"}]
        /\ fate \in [Records -> {"unlogged", "queued", "written", "lost", "refused"}]
    BY DEF Init
  <2>2. /\ Len(ch) <= Buffer /\ Len(batch) <= BatchSize
        /\ enqueued \in Nat /\ dropped \in Nat /\ written \in Nat
    BY <1>1, BufferAssumption, BatchSizeAssumption DEF Init
  <2>3. /\ closed \in BOOLEAN /\ ctxDone \in BOOLEAN /\ leaving \in BOOLEAN
        /\ worker = "select" /\ closer = "open"
    BY DEF Init
  <2> QED  BY <1>1, <2>1, <2>2, <2>3 DEF TypeOK
<1>3. ControlOK
  BY <1>1, BatchSizeAssumption DEF Init, ControlOK, InsertUnderWay
<1> QED  BY <1>2, <1>3

(* Types, capacities and the worker's control are inductive together.      *)
LEMMA NextControl == TypeOK /\ ControlOK /\ [Next]_vars => TypeOK' /\ ControlOK'
<1> SUFFICES ASSUME TypeOK, ControlOK, [Next]_vars
             PROVE  TypeOK' /\ ControlOK'
  OBVIOUS
<1> USE BufferAssumption, BatchSizeAssumption
<1>1. ASSUME NEW r \in Records, CallLog(r)
      PROVE  TypeOK' /\ ControlOK'
  BY <1>1 DEF TypeOK, ControlOK, InsertUnderWay, CallLog, Step, closeVars, workerVars
<1>2. ASSUME NEW r \in Records, LogSend(r)
      PROVE  TypeOK' /\ ControlOK'
  BY <1>2 DEF TypeOK, ControlOK, InsertUnderWay, LogSend, Step, closeVars, workerVars
<1>3. ASSUME NEW r \in Records, LogRefuse(r)
      PROVE  TypeOK' /\ ControlOK'
  BY <1>3 DEF TypeOK, ControlOK, InsertUnderWay, LogRefuse, Step, closeVars, workerVars
<1>4. ASSUME NEW r \in Records, LogPanic(r)
      PROVE  TypeOK' /\ ControlOK'
  BY <1>4 DEF TypeOK, ControlOK, InsertUnderWay, LogPanic, Step, closeVars, workerVars
<1>5. ASSUME NEW r \in Records, CountEnqueued(r)
      PROVE  TypeOK' /\ ControlOK'
  BY <1>5 DEF TypeOK, ControlOK, InsertUnderWay, CountEnqueued, Step, closeVars, workerVars
<1>6. ASSUME NEW r \in Records, CountRefused(r)
      PROVE  TypeOK' /\ ControlOK'
  BY <1>6 DEF TypeOK, ControlOK, InsertUnderWay, CountRefused, Step, closeVars, workerVars
<1>7. CASE Receive
  <2>1. /\ worker = "select" /\ ~leaving /\ Len(batch) < BatchSize /\ ch # <<>>
        /\ Head(ch) \in Records /\ Tail(ch) \in Seq(Records)
        /\ Len(Tail(ch)) <= Buffer
    BY <1>7 DEF Receive, TypeOK, ControlOK
  <2>2. /\ batch' \in Seq(Records) /\ Len(batch') = Len(batch) + 1 /\ batch' # <<>>
        /\ ch' = Tail(ch)
    BY <1>7, <2>1 DEF Receive, TypeOK
  <2>3. CASE Full(batch')
    <3>1. worker' \in {"doomed", "inserting"} /\ leaving' = FALSE
      BY <1>7, <2>2, <2>3 DEF Receive, Flush
    <3>2. Len(batch') <= BatchSize
      BY <2>1, <2>2 DEF TypeOK
    <3>4. TypeOK'
      BY <1>7, <2>1, <2>2, <3>1, <3>2 DEF Receive, TypeOK, logVars, closeVars
    <3>3. ControlOK'
      BY <1>7, <2>1, <2>2, <3>1 DEF Receive, ControlOK, InsertUnderWay, closeVars
    <3> QED  BY <3>3, <3>4
  <2>4. CASE ~Full(batch')
    BY <1>7, <2>1, <2>2, <2>4
       DEF Receive, Full, TypeOK, ControlOK, InsertUnderWay, logVars, closeVars
  <2> QED  BY <2>3, <2>4
<1>8. CASE Tick
  BY <1>8 DEF TypeOK, ControlOK, InsertUnderWay, Tick, FlushCase, Flush, logVars, closeVars
<1>9. CASE SeeClosed
  BY <1>9 DEF TypeOK, ControlOK, InsertUnderWay, SeeClosed, FlushCase, Flush, logVars, closeVars
<1>10. CASE SeeCancelled
  BY <1>10 DEF TypeOK, ControlOK, InsertUnderWay, SeeCancelled, FlushCase, Flush, logVars, closeVars
<1>11. CASE InsertCommit
  <2>1. rows \o batch \in Seq(Records)
    BY DEF TypeOK
  <2> QED
    BY <1>11, <2>1 DEF TypeOK, ControlOK, InsertUnderWay, InsertCommit, logVars, closeVars
<1>19. CASE CommitBreaks
  <2>1. broken' \subseteq Records
    BY <1>19, RangeConcatenation DEF CommitBreaks, TypeOK, Range
  <2> QED
    BY <1>19, <2>1 DEF TypeOK, ControlOK, InsertUnderWay, CommitBreaks, logVars, closeVars
<1>12. CASE InsertOk
  BY <1>12 DEF TypeOK, ControlOK, InsertUnderWay, InsertOk, AfterInsert, Reset, logVars, closeVars
<1>13. CASE InsertErr
  BY <1>13 DEF TypeOK, ControlOK, InsertUnderWay, InsertErr, AfterInsert, Reset, logVars, closeVars
<1>14. CASE CloseCall
  BY <1>14 DEF TypeOK, ControlOK, InsertUnderWay, CloseCall, logVars, workerVars
<1>15. CASE CloseDone
  BY <1>15 DEF TypeOK, ControlOK, InsertUnderWay, CloseDone, CloseReturns, logVars, workerVars
<1>16. CASE CloseGiveUp
  BY <1>16 DEF TypeOK, ControlOK, InsertUnderWay, CloseGiveUp, CloseReturns, logVars, workerVars
<1>17. CASE CancelCtx
  BY <1>17 DEF TypeOK, ControlOK, InsertUnderWay, CancelCtx, logVars, workerVars, closeVars
<1>18. CASE UNCHANGED vars
  BY <1>18 DEF TypeOK, ControlOK, InsertUnderWay, vars, workerVars, closeVars
<1> QED
  BY <1>1, <1>2, <1>3, <1>4, <1>5, <1>6, <1>7, <1>8, <1>9, <1>10, <1>11, <1>12,
     <1>13, <1>14, <1>15, <1>16, <1>17, <1>18, <1>19 DEF Next, Log, Worker, Sink

(* The channel never holds more than Buffer records nor a batch more than  *)
(* BatchSize, and every variable keeps its type.                           *)
THEOREM TypeCorrect == Spec => []TypeOK
<1>1. Spec => [](TypeOK /\ ControlOK)
  BY InitControl, NextControl, PTL DEF Spec
<1> QED  BY <1>1, PTL
-----------------------------------------------------------------------------
LEMMA InitHandlerFate == Init => HandlerFate
BY DEF Init, HandlerFate

(* The queue moves a handler and the fate of its record together; the      *)
(* worker judges only records that are queued.                             *)
LEMMA NextHandlerFate ==
    TypeOK /\ QueuedOnce /\ HandlerFate /\ [Next]_vars => HandlerFate'
<1> SUFFICES ASSUME TypeOK, QueuedOnce, HandlerFate, [Next]_vars
             PROVE  HandlerFate'
  OBVIOUS
<1> USE DEF TypeOK, HandlerFate
<1>1. ASSUME NEW r \in Records, CallLog(r) \/ LogSend(r) \/ LogRefuse(r) \/ LogPanic(r)
      PROVE  HandlerFate'
  BY <1>1 DEF CallLog, LogSend, LogRefuse, LogPanic, Step
<1>2. ASSUME NEW r \in Records, CountEnqueued(r) \/ CountRefused(r)
      PROVE  HandlerFate'
  BY <1>2 DEF CountEnqueued, CountRefused, Step
<1>3. CASE UNCHANGED <<handler, fate>>
  BY <1>3
<1>4. ASSUME NEW f \in {"written", "lost"}, AfterInsert(f)
      PROVE  HandlerFate'
  <2>1. \A r \in Range(batch) : fate[r] = "queued"
    <3>1. Range(batch) \subseteq Range(batch \o ch)
      BY RangeConcatenation
    <3> QED  BY <3>1 DEF QueuedOnce, With
  <2>2. handler' = handler
    BY <1>4 DEF AfterInsert, logVars
  <2>3. \A r \in Records : fate'[r] = IF r \in Range(batch) THEN f ELSE fate[r]
    BY <1>4 DEF AfterInsert
  <2> QED  BY <2>1, <2>2, <2>3
<1> QED
  BY <1>1, <1>2, <1>3, <1>4
     DEF Next, Log, Worker, Sink, Receive, Tick, SeeClosed, SeeCancelled, FlushCase,
         InsertCommit, CommitBreaks, InsertOk, InsertErr, CloseCall, CloseDone,
         CloseGiveUp, CloseReturns, CancelCtx, vars, logVars

-----------------------------------------------------------------------------
LEMMA InitQueuedOnce == Init => QueuedOnce
<1> SUFFICES ASSUME Init PROVE QueuedOnce
  OBVIOUS
<1>1. batch \o ch = <<>>
  BY DEF Init
<1>2. With("queued") = {}
  BY DEF Init, With
<1> QED  BY <1>1, <1>2, EmptySeqFacts DEF QueuedOnce

(* A record enters the channel at its end, moves from its head to the end  *)
(* of the batch, and leaves with its batch.                                *)
LEMMA NextQueuedOnce ==
    TypeOK /\ HandlerFate /\ QueuedOnce /\ [Next]_vars => QueuedOnce'
<1> SUFFICES ASSUME TypeOK, HandlerFate, QueuedOnce, [Next]_vars
             PROVE  QueuedOnce'
  OBVIOUS
<1>1. ASSUME NEW r \in Records, LogSend(r)
      PROVE  QueuedOnce'
  <2>0. batch \in Seq(Records) /\ ch \in Seq(Records)
    BY DEF TypeOK
  <2>1. /\ batch \o ch \in Seq(Records)
        /\ ch' = Append(ch, r) /\ batch' = batch
    BY <1>1, <2>0 DEF LogSend, Step, workerVars
  <2>2. batch' \o ch' = (batch \o ch) \o <<r>>
    BY <2>0, <2>1
  <2>3. With("queued")' = With("queued") \cup {r} /\ r \notin With("queued")
    BY <1>1 DEF LogSend, Step, TypeOK, HandlerFate, With
  <2> DEFINE q == batch \o ch
  <2>4. q \in Seq(Records) /\ IsInjective(q) /\ r \notin Range(q)
    BY <2>1, <2>3 DEF QueuedOnce
  <2> HIDE DEF q
  <2>5. Range(q \o <<r>>) = Range(q) \cup {r} /\ IsInjective(q \o <<r>>)
    BY <2>4, ConcatOne
  <2> QED  BY <2>2, <2>3, <2>5 DEF q, QueuedOnce
<1>2. CASE Receive
  <2>1. batch' \o ch' = batch \o ch
    BY <1>2, MoveHead DEF Receive, TypeOK
  <2>2. fate' = fate
    BY <1>2 DEF Receive
  <2> QED  BY <2>1, <2>2 DEF QueuedOnce, With
<1>3. ASSUME NEW f \in {"written", "lost"}, AfterInsert(f)
      PROVE  QueuedOnce'
  <2>1. batch' = <<>> /\ ch' = ch /\ batch' \o ch' = ch
    BY <1>3 DEF AfterInsert, Reset, TypeOK
  <2>2. /\ IsInjective(ch) /\ Range(batch) \cap Range(ch) = {}
        /\ Range(batch) \cup Range(ch) = With("queued")
    BY ConcatInjective, RangeConcatenation DEF QueuedOnce, TypeOK
  <2>3. With("queued")' = With("queued") \ Range(batch)
    BY <1>3 DEF AfterInsert, With
  <2> QED  BY <2>1, <2>2, <2>3 DEF QueuedOnce
<1>4. ASSUME UNCHANGED <<batch, ch>>, With("queued")' = With("queued")
      PROVE  QueuedOnce'
  BY <1>4 DEF QueuedOnce
<1>5. ASSUME NEW r \in Records, LogRefuse(r)
      PROVE  UNCHANGED <<batch, ch>> /\ With("queued")' = With("queued")
  BY <1>5 DEF LogRefuse, Step, workerVars, TypeOK, HandlerFate, With
<1>6. CASE UNCHANGED <<batch, ch, fate>>
  BY <1>6 DEF QueuedOnce, With
<1> QED
  BY <1>1, <1>2, <1>3, <1>4, <1>5, <1>6
     DEF Next, Log, CallLog, LogPanic, CountEnqueued, CountRefused, Step, Worker, Sink,
         Tick, SeeClosed, SeeCancelled, FlushCase, InsertCommit, CommitBreaks, InsertOk,
         InsertErr, CloseCall, CloseDone, CloseGiveUp, CloseReturns, CancelCtx, vars,
         workerVars

(* Types, control, handlers and the queue, as one inductive invariant.     *)
QueueInv == TypeOK /\ ControlOK /\ HandlerFate /\ QueuedOnce

LEMMA QueueInvariant == Spec => []QueueInv
<1>1. Init => QueueInv
  BY InitControl, InitHandlerFate, InitQueuedOnce DEF QueueInv
<1>2. QueueInv /\ [Next]_vars => QueueInv'
  BY NextControl, NextHandlerFate, NextQueuedOnce DEF QueueInv
<1> QED  BY <1>1, <1>2, PTL DEF Spec

(* A queued record is at exactly one place of the batch and the channel.   *)
THEOREM QueueCorrect == Spec => []QueuedOnce
<1>1. QueueInv => QueuedOnce
  BY DEF QueueInv
<1> QED  BY <1>1, QueueInvariant, PTL

(* A Close that was not cut short, of a writer whose context lives, leaves *)
(* no record neither written nor counted as dropped.                       *)
THEOREM CloseCorrect == Spec => []CleanCloseDrains
<1>1. QueueInv => CleanCloseDrains
  <2> SUFFICES ASSUME QueueInv, closer = "finished", ~ctxDone
               PROVE  With("queued") = {}
    BY DEF CleanCloseDrains
  <2>1. batch = <<>> /\ ch = <<>>
    BY DEF QueueInv, ControlOK
  <2>2. batch \o ch = <<>>
    BY <2>1
  <2> QED  BY <2>2, EmptySeqFacts DEF QueueInv, QueuedOnce
<1> QED  BY <1>1, QueueInvariant, PTL

-----------------------------------------------------------------------------
(* Until its insert has returned, a committed batch is in the table and    *)
(* one whose commit broke is among the broken; those of earlier batches    *)
(* have been counted as written.                                           *)
CommittedBatch == worker = "committed" => Range(batch) \subseteq Range(rows)
BrokenBatch    == worker = "broken" => Range(batch) \subseteq broken
BrokenCounted  ==
    broken \subseteq With("written") \cup (IF worker = "broken" THEN Range(batch) ELSE {})

RowsInv == RowsFaithful /\ CommittedBatch /\ BrokenBatch /\ BrokenCounted

LEMMA InitRowsInv == Init => RowsInv
<1> SUFFICES ASSUME Init PROVE RowsInv
  OBVIOUS
<1>1. rows = <<>> /\ broken = {} /\ worker = "select" /\ With("written") = {}
  BY DEF Init, With
<1> QED
  BY <1>1, EmptySeqFacts
     DEF RowsInv, RowsFaithful, CommittedBatch, BrokenBatch, BrokenCounted

(* Only a commit adds rows, and only a broken one adds to the broken; what *)
(* it adds was queued until then.                                          *)
LEMMA NextRowsInv == QueueInv /\ RowsInv /\ [Next]_vars => RowsInv'
<1> SUFFICES ASSUME QueueInv, RowsInv, [Next]_vars PROVE RowsInv'
  OBVIOUS
<1> USE DEF QueueInv
<1>0. /\ IsInjective(batch) /\ Range(batch) \subseteq With("queued")
      /\ With("queued") \subseteq Records
  BY ConcatInjective, RangeConcatenation DEF QueuedOnce, TypeOK, With
<1>1. ASSUME rows' = rows, broken' = broken,
             With("written")' = With("written"), With("lost")' = With("lost"),
             worker' = "committed" <=> worker = "committed",
             worker' = "broken" <=> worker = "broken",
             worker \in {"committed", "broken"} => batch' = batch
      PROVE  RowsInv'
  BY <1>1 DEF RowsInv, RowsFaithful, CommittedBatch, BrokenBatch, BrokenCounted
<1>9. worker = "inserting" => /\ Range(rows) \cap Range(batch) = {}
                              /\ broken \cap Range(batch) = {}
  BY <1>0 DEF RowsInv, RowsFaithful, BrokenCounted, With
<1>2. CASE InsertCommit
  <2>1. /\ worker = "inserting" /\ worker' = "committed" /\ rows' = rows \o batch
        /\ batch' = batch /\ fate' = fate /\ broken' = broken
    BY <1>2 DEF InsertCommit
  <2>3. Range(rows') = Range(rows) \cup Range(batch) /\ IsInjective(rows')
    BY <1>0, <1>9, <2>1, ConcatInjective, RangeConcatenation DEF TypeOK, RowsInv, RowsFaithful
  <2> QED
    BY <1>9, <2>1, <2>3
       DEF RowsInv, RowsFaithful, CommittedBatch, BrokenBatch, BrokenCounted, With
<1>8. CASE CommitBreaks
  <2>1. /\ worker = "inserting" /\ worker' = "broken" /\ rows' = rows
        /\ batch' = batch /\ fate' = fate /\ broken' = broken \cup Range(batch)
    BY <1>8 DEF CommitBreaks
  <2> QED
    BY <1>9, <2>1
       DEF RowsInv, RowsFaithful, CommittedBatch, BrokenBatch, BrokenCounted, With
<1>3. CASE InsertOk
  <2>1. /\ worker \in {"committed", "broken"} /\ worker' \in {"exited", "select"}
        /\ rows' = rows /\ broken' = broken
        /\ With("written")' = With("written") \cup Range(batch)
        /\ With("lost") \subseteq With("lost")' \cup Range(batch)
    BY <1>0, <1>3 DEF InsertOk, AfterInsert, With
  <2> QED  BY <2>1 DEF RowsInv, RowsFaithful, CommittedBatch, BrokenBatch, BrokenCounted
<1>4. CASE InsertErr
  <2>1. /\ worker # "broken" /\ worker' \in {"exited", "select"}
        /\ rows' = rows /\ broken' = broken
        /\ With("lost")' = With("lost") \cup Range(batch)
        /\ With("written") \ Range(batch) = With("written")'
    BY <1>0, <1>4 DEF InsertErr, AfterInsert, With
  <2>2. With("written")' = With("written")
    BY <1>0, <2>1 DEF With
  <2> QED
    BY <2>1, <2>2 DEF RowsInv, RowsFaithful, CommittedBatch, BrokenBatch, BrokenCounted
<1>5. ASSUME NEW r \in Records, CallLog(r) \/ Log(r)
      PROVE  RowsInv'
  <2>1. rows' = rows /\ broken' = broken /\ worker' = worker /\ batch' = batch
    BY <1>5 DEF CallLog, Log, LogSend, LogRefuse, LogPanic, CountEnqueued, CountRefused,
                Step, workerVars
  <2>2. /\ With("written")' = With("written")
        /\ With("lost")' = With("lost")
    BY <1>5 DEF CallLog, Log, LogSend, LogRefuse, LogPanic, CountEnqueued, CountRefused,
                Step, With, HandlerFate, TypeOK
  <2> QED  BY <1>1, <2>1, <2>2
<1>6. CASE Worker
  <2>1. /\ rows' = rows /\ broken' = broken /\ fate' = fate /\ worker = "select"
        /\ worker' \notin {"committed", "broken"}
    BY <1>6 DEF Worker, Receive, Tick, SeeClosed, SeeCancelled, FlushCase, Flush
  <2> QED  BY <1>1, <2>1 DEF With
<1>7. CASE UNCHANGED <<rows, broken, fate, worker, batch>>
  BY <1>1, <1>7 DEF With
<1> QED
  BY <1>2, <1>3, <1>4, <1>5, <1>6, <1>7, <1>8
     DEF Next, Sink, CloseCall, CloseDone, CloseGiveUp, CloseReturns, CancelCtx, vars,
         workerVars

LEMMA RowsInvariant == Spec => [](QueueInv /\ RowsInv)
<1>1. Init /\ QueueInv => QueueInv /\ RowsInv
  BY InitRowsInv
<1>2. QueueInv /\ QueueInv' /\ RowsInv /\ [Next]_vars => RowsInv'
  BY NextRowsInv
<1> QED  BY <1>1, <1>2, QueueInvariant, PTL DEF Spec

(* No record becomes two rows, every record counted as written is a row    *)
(* unless its own commit broke, and then it never is, and only a batch     *)
(* being reported is a row without a verdict.                              *)
THEOREM RowsCorrect == Spec => []RowsFaithful
<1>1. RowsInv => RowsFaithful
  BY DEF RowsInv
<1> QED  BY <1>1, RowsInvariant, PTL

-----------------------------------------------------------------------------
(* Counting.  Every set of records is finite.                              *)
LEMMA RecordSets ==
    ASSUME NEW T, T \subseteq Records
    PROVE  IsFiniteSet(T) /\ Cardinality(T) \in Nat
BY RecordsAssumption, FS_Subset, FS_CardinalityType

LEMMA OneMore ==
    ASSUME NEW T, T \subseteq Records, NEW r, r \notin T
    PROVE  Cardinality(T \cup {r}) = Cardinality(T) + 1
BY RecordSets, FS_AddElement

LEMMA OneLess ==
    ASSUME NEW T, T \subseteq Records, NEW r, r \in T
    PROVE  Cardinality(T \ {r}) = Cardinality(T) - 1
BY RecordSets, FS_RemoveElement

LEMMA DisjointUnion ==
    ASSUME NEW T, T \subseteq Records, NEW U, U \subseteq Records, T \cap U = {}
    PROVE  Cardinality(T \cup U) = Cardinality(T) + Cardinality(U)
<1>1. /\ IsFiniteSet(T) /\ IsFiniteSet(U)
      /\ Cardinality(T) \in Nat /\ Cardinality(U) \in Nat
  BY RecordSets
<1>2. Cardinality(T \cap U) = 0
  BY FS_EmptySet
<1>3. Cardinality(T \cup U) = Cardinality(T) + Cardinality(U) - Cardinality(T \cap U)
  BY <1>1, FS_Union
<1> QED  BY <1>1, <1>2, <1>3

LEMMA InitCountersAgree == Init => CountersAgree
<1> SUFFICES ASSUME Init PROVE CountersAgree
  OBVIOUS
<1>1. /\ With("queued") = {} /\ With("written") = {} /\ With("lost") = {}
      /\ With("refused") = {} /\ At("sent") = {} /\ At("refused") = {}
  BY DEF Init, With, At
<1>2. /\ Cardinality(With("queued")) = 0 /\ Cardinality(With("written")) = 0
      /\ Cardinality(With("lost")) = 0 /\ Cardinality(With("refused")) = 0
      /\ Cardinality(At("sent")) = 0 /\ Cardinality(At("refused")) = 0
  BY <1>1, FS_EmptySet
<1>3. enqueued = 0 /\ dropped = 0 /\ written = 0
  BY DEF Init
<1> QED  BY <1>2, <1>3 DEF CountersAgree

(* A handler changes one count at a time; a verdict on a batch moves its   *)
(* records from one set to another and its length to one counter.          *)
LEMMA NextCountersAgree == QueueInv /\ CountersAgree /\ [Next]_vars => CountersAgree'
<1> SUFFICES ASSUME QueueInv, CountersAgree, [Next]_vars PROVE CountersAgree'
  OBVIOUS
<1> USE DEF QueueInv
<1>0. /\ \A f \in {"queued", "written", "lost", "refused"} : Cardinality(With(f)) \in Nat
      /\ \A p \in {"sent", "refused"} : Cardinality(At(p)) \in Nat
  BY RecordSets DEF With, At
<1>1. ASSUME NEW r \in Records, LogSend(r)
      PROVE  CountersAgree'
  <2>1. /\ With("queued")' = With("queued") \cup {r} /\ r \notin With("queued")
        /\ At("sent")' = At("sent") \cup {r} /\ r \notin At("sent")
        /\ With("written")' = With("written") /\ With("lost")' = With("lost")
        /\ With("refused")' = With("refused") /\ At("refused")' = At("refused")
    BY <1>1 DEF LogSend, Step, TypeOK, HandlerFate, With, At
  <2>2. /\ Cardinality(With("queued")') = Cardinality(With("queued")) + 1
        /\ Cardinality(At("sent")') = Cardinality(At("sent")) + 1
    BY <2>1, OneMore DEF With, At
  <2>3. UNCHANGED <<enqueued, dropped, written>>
    BY <1>1 DEF LogSend, Step, workerVars
  <2>4. /\ Cardinality(With("written")') = Cardinality(With("written"))
        /\ Cardinality(With("lost")') = Cardinality(With("lost"))
        /\ Cardinality(With("refused")') = Cardinality(With("refused"))
        /\ Cardinality(At("refused")') = Cardinality(At("refused"))
    BY <2>1
  <2>5. enqueued \in Nat /\ dropped \in Nat /\ written \in Nat
    BY DEF TypeOK
  <2> QED  BY <1>0, <2>2, <2>3, <2>4, <2>5 DEF CountersAgree
<1>2. ASSUME NEW r \in Records, LogRefuse(r)
      PROVE  CountersAgree'
  <2>1. /\ With("refused")' = With("refused") \cup {r} /\ r \notin With("refused")
        /\ At("refused")' = At("refused") \cup {r} /\ r \notin At("refused")
        /\ With("written")' = With("written") /\ With("lost")' = With("lost")
        /\ With("queued")' = With("queued") /\ At("sent")' = At("sent")
    BY <1>2 DEF LogRefuse, Step, TypeOK, HandlerFate, With, At
  <2>2. /\ Cardinality(With("refused")') = Cardinality(With("refused")) + 1
        /\ Cardinality(At("refused")') = Cardinality(At("refused")) + 1
    BY <2>1, OneMore DEF With, At
  <2>3. UNCHANGED <<enqueued, dropped, written>>
    BY <1>2 DEF LogRefuse, Step, workerVars
  <2>4. /\ Cardinality(With("written")') = Cardinality(With("written"))
        /\ Cardinality(With("lost")') = Cardinality(With("lost"))
        /\ Cardinality(With("queued")') = Cardinality(With("queued"))
        /\ Cardinality(At("sent")') = Cardinality(At("sent"))
    BY <2>1
  <2>5. enqueued \in Nat /\ dropped \in Nat /\ written \in Nat
    BY DEF TypeOK
  <2> QED  BY <1>0, <2>2, <2>3, <2>4, <2>5 DEF CountersAgree
<1>3. ASSUME NEW r \in Records, CountEnqueued(r)
      PROVE  CountersAgree'
  <2>1. /\ At("sent")' = At("sent") \ {r} /\ r \in At("sent")
        /\ At("refused")' = At("refused") /\ fate' = fate
    BY <1>3 DEF CountEnqueued, Step, TypeOK, At
  <2>2. Cardinality(At("sent")') = Cardinality(At("sent")) - 1
    BY <2>1, OneLess DEF At
  <2>3. enqueued' = enqueued + 1 /\ UNCHANGED <<dropped, written>>
    BY <1>3 DEF CountEnqueued, Step, workerVars
  <2> QED  BY <1>0, <2>1, <2>2, <2>3 DEF CountersAgree, TypeOK, With
<1>4. ASSUME NEW r \in Records, CountRefused(r)
      PROVE  CountersAgree'
  <2>1. /\ At("refused")' = At("refused") \ {r} /\ r \in At("refused")
        /\ At("sent")' = At("sent") /\ fate' = fate
    BY <1>4 DEF CountRefused, Step, TypeOK, At
  <2>2. Cardinality(At("refused")') = Cardinality(At("refused")) - 1
    BY <2>1, OneLess DEF At
  <2>3. dropped' = dropped + 1 /\ UNCHANGED <<enqueued, written>>
    BY <1>4 DEF CountRefused, Step, workerVars
  <2> QED  BY <1>0, <2>1, <2>2, <2>3 DEF CountersAgree, TypeOK, With
<1>5. ASSUME NEW r \in Records, CallLog(r) \/ LogPanic(r)
      PROVE  CountersAgree'
  <2>1. /\ At("sent")' = At("sent") /\ At("refused")' = At("refused")
        /\ UNCHANGED <<fate, enqueued, dropped, written>>
    BY <1>5 DEF CallLog, LogPanic, Step, TypeOK, At, workerVars
  <2> QED  BY <2>1 DEF CountersAgree, With
<1>6. ASSUME NEW f \in {"written", "lost"}, AfterInsert(f)
      PROVE  /\ Cardinality(With("queued")') = Cardinality(With("queued")) - Len(batch)
             /\ Cardinality(With(f)') = Cardinality(With(f)) + Len(batch)
             /\ \A g \in {"written", "lost", "refused"} \ {f} : With(g)' = With(g)
             /\ At("sent")' = At("sent") /\ At("refused")' = At("refused")
             /\ enqueued' = enqueued
  <2>1. /\ IsInjective(batch) /\ Range(batch) \subseteq With("queued")
        /\ Cardinality(Range(batch)) = Len(batch)
    BY ConcatInjective, RangeConcatenation, InjectiveLen DEF QueuedOnce, TypeOK
  <2>2. /\ With("queued")' \cup Range(batch) = With("queued")
        /\ With("queued")' \cap Range(batch) = {}
        /\ With(f)' = With(f) \cup Range(batch) /\ With(f) \cap Range(batch) = {}
        /\ \A g \in {"written", "lost", "refused"} \ {f} : With(g)' = With(g)
    BY <1>6, <2>1 DEF AfterInsert, With
  <2>3. With("queued")' \subseteq Records /\ With(f) \subseteq Records
        /\ Range(batch) \subseteq Records
    BY <2>1 DEF With
  <2>4. /\ Cardinality(With("queued")) = Cardinality(With("queued")') + Len(batch)
        /\ Cardinality(With(f)') = Cardinality(With(f)) + Len(batch)
    BY <2>1, <2>2, <2>3, DisjointUnion
  <2>5. Cardinality(With("queued")') \in Nat /\ Len(batch) \in Nat
    BY <2>3, RecordSets DEF TypeOK
  <2>6. handler' = handler /\ enqueued' = enqueued
    BY <1>6 DEF AfterInsert, logVars
  <2> QED  BY <2>2, <2>4, <2>5, <2>6 DEF At
<1>7. CASE InsertOk
  <2>1. AfterInsert("written") /\ written' = written + Len(batch) /\ dropped' = dropped
    BY <1>7 DEF InsertOk
  <2>2. /\ Cardinality(With("queued")') = Cardinality(With("queued")) - Len(batch)
        /\ Cardinality(With("written")') = Cardinality(With("written")) + Len(batch)
        /\ Cardinality(With("lost")') = Cardinality(With("lost"))
        /\ Cardinality(With("refused")') = Cardinality(With("refused"))
        /\ Cardinality(At("sent")') = Cardinality(At("sent"))
        /\ Cardinality(At("refused")') = Cardinality(At("refused"))
        /\ enqueued' = enqueued
    BY <1>6, <2>1
  <2>3. enqueued \in Nat /\ dropped \in Nat /\ written \in Nat /\ Len(batch) \in Nat
    BY DEF TypeOK
  <2> QED  BY <1>0, <2>1, <2>2, <2>3 DEF CountersAgree
<1>8. CASE InsertErr
  <2>1. AfterInsert("lost") /\ dropped' = dropped + Len(batch) /\ written' = written
    BY <1>8 DEF InsertErr
  <2>2. /\ Cardinality(With("queued")') = Cardinality(With("queued")) - Len(batch)
        /\ Cardinality(With("lost")') = Cardinality(With("lost")) + Len(batch)
        /\ Cardinality(With("written")') = Cardinality(With("written"))
        /\ Cardinality(With("refused")') = Cardinality(With("refused"))
        /\ Cardinality(At("sent")') = Cardinality(At("sent"))
        /\ Cardinality(At("refused")') = Cardinality(At("refused"))
        /\ enqueued' = enqueued
    BY <1>6, <2>1
  <2>3. enqueued \in Nat /\ dropped \in Nat /\ written \in Nat /\ Len(batch) \in Nat
    BY DEF TypeOK
  <2>4. enqueued' + Cardinality(At("sent")') =
          Cardinality(With("queued")') + Cardinality(With("written")')
                                       + Cardinality(With("lost")')
    BY <1>0, <2>2, <2>3 DEF CountersAgree
  <2>5. dropped' + Cardinality(At("refused")') =
          Cardinality(With("lost")') + Cardinality(With("refused")')
    <3>1. dropped + Cardinality(At("refused")) =
            Cardinality(With("lost")) + Cardinality(With("refused"))
      BY DEF CountersAgree
    <3>2. dropped' = dropped + Len(batch)
      BY <2>1
    <3>3. (dropped + Len(batch)) + Cardinality(At("refused")) =
            (Cardinality(With("lost")) + Len(batch)) + Cardinality(With("refused"))
      BY <1>0, <2>3, <3>1
    <3> QED  BY <2>2, <3>2, <3>3
  <2> QED  BY <2>1, <2>2, <2>4, <2>5 DEF CountersAgree
<1>9. CASE UNCHANGED <<handler, fate, enqueued, dropped, written>>
  BY <1>9 DEF CountersAgree, With, At
<1> QED
  BY <1>1, <1>2, <1>3, <1>4, <1>5, <1>7, <1>8, <1>9
     DEF Next, Log, Worker, Sink, Receive, Tick, SeeClosed, SeeCancelled, FlushCase,
         InsertCommit, CommitBreaks, CloseCall, CloseDone, CloseGiveUp, CloseReturns,
         CancelCtx, vars, logVars, workerVars

(* The three counters and the handlers that have yet to count account for  *)
(* every record.                                                           *)
THEOREM CountersCorrect == Spec => []CountersAgree
<1>1. QueueInv /\ CountersAgree /\ [Next]_vars => CountersAgree'
  BY NextCountersAgree
<1> QED  BY <1>1, InitCountersAgree, QueueInvariant, PTL DEF Spec

-----------------------------------------------------------------------------
(* Refinement.  A send is Accept, the default case Refuse, the end of the  *)
(* transaction Commit or Break, and the return of the insert Confirm or    *)
(* GiveUp, each of the whole batch; no other step changes the ledger.      *)
LEMMA LedgerInitialized == Init => Ledger!LedgerInit
<1> SUFFICES ASSUME Init PROVE Ledger!LedgerInit
  OBVIOUS
<1>1. Range(rows) = {}
  BY EmptySeqFacts DEF Init
<1> QED  BY <1>1 DEF Init, Ledger!LedgerInit

LEMMA LedgerStep ==
    QueueInv /\ RowsInv /\ [Next]_vars => [Ledger!LedgerNext]_(Ledger!ledgerVars)
<1> SUFFICES ASSUME QueueInv, RowsInv, [Next]_vars
             PROVE  [Ledger!LedgerNext]_(Ledger!ledgerVars)
  OBVIOUS
<1> USE DEF QueueInv
<1>1. ASSUME NEW r \in Records, LogSend(r)
      PROVE  Ledger!Accept(r)
  <2>1. fate[r] = "unlogged" /\ fate' = [fate EXCEPT ![r] = "queued"]
        /\ rows' = rows /\ broken' = broken
    BY <1>1 DEF LogSend, Step, HandlerFate, workerVars
  <2>2. fate' = [s \in Records |-> IF s \in {r} THEN "queued" ELSE fate[s]]
    BY <2>1 DEF TypeOK
  <2> QED  BY <2>1, <2>2 DEF Ledger!Accept, Ledger!Judge
<1>2. ASSUME NEW r \in Records, LogRefuse(r)
      PROVE  Ledger!Refuse(r)
  <2>1. fate[r] = "unlogged" /\ fate' = [fate EXCEPT ![r] = "refused"]
        /\ rows' = rows /\ broken' = broken
    BY <1>2 DEF LogRefuse, Step, HandlerFate, workerVars
  <2>2. fate' = [s \in Records |-> IF s \in {r} THEN "refused" ELSE fate[s]]
    BY <2>1 DEF TypeOK
  <2> QED  BY <2>1, <2>2 DEF Ledger!Refuse, Ledger!Judge
<1>3. /\ Range(batch) \subseteq With("queued") /\ Range(batch) \in SUBSET Records
      /\ With("queued") = Ledger!Pending
      /\ InsertUnderWay => Range(batch) # {}
  <2>1. Range(batch) \subseteq With("queued")
    BY RangeConcatenation DEF QueuedOnce, TypeOK
  <2>2. InsertUnderWay => 1 \in DOMAIN batch
    BY DEF ControlOK, TypeOK
  <2> QED  BY <2>1, <2>2 DEF With, Ledger!Pending, Range
<1>8. worker = "inserting" => Range(batch) \cap (Range(rows) \cup broken) = {}
  BY <1>3 DEF RowsInv, RowsFaithful, BrokenCounted, With
<1>4. CASE InsertCommit
  <2>1. /\ worker = "inserting" /\ rows' = rows \o batch /\ fate' = fate
        /\ broken' = broken
    BY <1>4 DEF InsertCommit
  <2>2. Range(rows') = Range(rows) \cup Range(batch)
    BY <2>1, RangeConcatenation DEF TypeOK
  <2>4. Ledger!Commit(Range(batch))
    BY <1>3, <1>8, <2>1, <2>2 DEF Ledger!Commit, InsertUnderWay
  <2> QED  BY <1>3, <2>4 DEF Ledger!LedgerNext
<1>9. CASE CommitBreaks
  <2>1. /\ worker = "inserting" /\ broken' = broken \cup Range(batch)
        /\ fate' = fate /\ rows' = rows
    BY <1>9 DEF CommitBreaks
  <2>2. Ledger!Break(Range(batch))
    BY <1>3, <1>8, <2>1 DEF Ledger!Break, InsertUnderWay
  <2> QED  BY <1>3, <2>2 DEF Ledger!LedgerNext
<1>5. CASE InsertOk
  <2>1. Range(batch) \subseteq Range(rows) \/ Range(batch) \subseteq broken
    BY <1>5 DEF InsertOk, RowsInv, CommittedBatch, BrokenBatch
  <2>2. Ledger!Confirm(Range(batch))
    BY <1>3, <1>5, <2>1
       DEF InsertOk, AfterInsert, InsertUnderWay, Ledger!Confirm, Ledger!Judge
  <2> QED  BY <1>3, <2>2 DEF Ledger!LedgerNext
<1>6. CASE InsertErr
  <2>1. Ledger!GiveUp(Range(batch))
    BY <1>3, <1>6 DEF InsertErr, AfterInsert, Ledger!GiveUp, Ledger!Judge
  <2> QED  BY <1>3, <2>1 DEF Ledger!LedgerNext
<1>7. CASE UNCHANGED <<fate, rows, broken>>
  BY <1>7 DEF Ledger!ledgerVars
<1> QED
  BY <1>1, <1>2, <1>4, <1>5, <1>6, <1>7, <1>9
     DEF Next, Log, CallLog, LogPanic, CountEnqueued, CountRefused, Step, Worker, Sink,
         Receive, Tick, SeeClosed, SeeCancelled, FlushCase, CloseCall, CloseDone,
         CloseGiveUp, CloseReturns, CancelCtx, vars, workerVars, Ledger!LedgerNext

(* The writer implements the ledger: every record gets at most one         *)
(* verdict, a batch gets it as a whole, and only of a batch that was       *)
(* committed, or whose commit broke unseen, is it "written".               *)
THEOREM Refinement == Spec => KeepsLedger
BY LedgerInitialized, LedgerStep, RowsInvariant, PTL
   DEF Spec, KeepsLedger, Ledger!LedgerSpec

(* What the ledger promises is therefore true of the writer: a verdict is  *)
(* final, no row goes away, and a record declared written without being a  *)
(* row is one whose own commit broke.                                      *)
THEOREM VerdictsCorrect == Spec => []Ledger!WrittenIsRowOrBroken /\ Ledger!VerdictsFinal
<1> DEFINE Typed == fate \in [Records -> Ledger!Verdicts]
           Kept == /\ \A r \in Ledger!Settled : fate'[r] = fate[r]
                   /\ Range(rows) \subseteq Range(rows)' /\ broken \subseteq broken'
<1>1. Ledger!LedgerInit => Typed /\ Ledger!WrittenIsRowOrBroken
  BY DEF Ledger!LedgerInit, Ledger!Verdicts, Ledger!WrittenIsRowOrBroken
<1>2. ASSUME Typed, Ledger!WrittenIsRowOrBroken, [Ledger!LedgerNext]_(Ledger!ledgerVars)
      PROVE  Typed' /\ Ledger!WrittenIsRowOrBroken' /\ Kept
  <2>1. CASE UNCHANGED Ledger!ledgerVars
    BY <1>2, <2>1 DEF Ledger!ledgerVars, Ledger!WrittenIsRowOrBroken, Ledger!Settled
  <2>2. ASSUME NEW r \in Records, Ledger!Accept(r) \/ Ledger!Refuse(r)
        PROVE  Typed' /\ Ledger!WrittenIsRowOrBroken' /\ Kept
    BY <1>2, <2>2
       DEF Ledger!Accept, Ledger!Refuse, Ledger!Judge, Ledger!Verdicts,
           Ledger!WrittenIsRowOrBroken, Ledger!Settled
  <2>3. ASSUME NEW S \in SUBSET Records,
               Ledger!Commit(S) \/ Ledger!Break(S) \/ Ledger!Confirm(S) \/ Ledger!GiveUp(S)
        PROVE  Typed' /\ Ledger!WrittenIsRowOrBroken' /\ Kept
    BY <1>2, <2>3
       DEF Ledger!Commit, Ledger!Break, Ledger!Confirm, Ledger!GiveUp, Ledger!Judge,
           Ledger!Pending, Ledger!Verdicts, Ledger!WrittenIsRowOrBroken, Ledger!Settled
  <2> QED  BY <1>2, <2>1, <2>2, <2>3 DEF Ledger!LedgerNext
<1>3. Ledger!LedgerSpec => [](Typed /\ Ledger!WrittenIsRowOrBroken)
  <2>1. Typed /\ Ledger!WrittenIsRowOrBroken /\ [Ledger!LedgerNext]_(Ledger!ledgerVars)
          => (Typed /\ Ledger!WrittenIsRowOrBroken)'
    BY <1>2
  <2> HIDE DEF Typed
  <2> QED  BY <1>1, <2>1, PTL DEF Ledger!LedgerSpec
<1>4. Typed /\ Ledger!WrittenIsRowOrBroken /\ [Ledger!LedgerNext]_(Ledger!ledgerVars)
        => [Kept]_(Ledger!ledgerVars)
  BY <1>2
<1>5. Ledger!LedgerSpec => []Ledger!WrittenIsRowOrBroken /\ Ledger!VerdictsFinal
  <2> HIDE DEF Typed
  <2> QED  BY <1>3, <1>4, PTL DEF Ledger!LedgerSpec, Ledger!VerdictsFinal
<1> QED  BY <1>5, Refinement, PTL DEF KeepsLedger

-----------------------------------------------------------------------------
(* The process.  What main does to the writer are steps of the writer, so  *)
(* what is inductive for it stays so; beside it, main's place goes with    *)
(* the closer's, a request's with its handler's, and a channel closed      *)
(* before the deadline was closed with no request left.                    *)
ServerTypeOK ==
    /\ phase \in {"starting", "serving", "draining", "closing", "unwinding", "exited"}
    /\ conn \in [Records -> {"none", "lookup", "active", "aborted", "done"}]
    /\ deadline \in BOOLEAN

PhaseInv ==
    /\ closed <=> closer # "open"
    /\ phase \in {"starting", "serving", "draining"} => closer = "open"
    /\ phase = "closing" => closer = "waiting"
    /\ phase \in {"unwinding", "exited"} => closer # "waiting"
    /\ closed /\ ~deadline => Active = {}

ConnInv ==
    \A r \in Records :
        /\ handler[r] # "idle" => conn[r] \in {"active", "done"}
        /\ conn[r] = "done" => handler[r] \in {"logged", "panicked"}

ServerInv == ServerTypeOK /\ PhaseInv /\ ConnInv /\ PanicOnlyPastDeadline

LEMMA ServerStepIsWriterStep == [ServerNext]_allVars => [Next]_vars
BY DEF ServerNext, allVars, Next, Arrive, LookupEnds, ReachLog, Abort, Return, Signal,
       ListenerFails, Deadline, Main, Start, StartFails, BeginShutdown, Drained,
       ShutdownTimesOut, CloseFinishes, CloseTimesOut, Exit

(* The process implements the writer, and the writer's invariants and the  *)
(* ledger hold of it: main adds an order, and no step of its own.          *)
THEOREM ServerRefinement == ServerSpec => Spec /\ KeepsLedger
<1>1. ServerInit => Init
  BY DEF ServerInit
<1>2. ServerSpec => Spec
  BY <1>1, ServerStepIsWriterStep, PTL DEF ServerSpec, Spec
<1> QED  BY <1>2, Refinement

LEMMA ServerQueueInvariant == ServerSpec => [](QueueInv /\ CountersAgree)
<1>1. ServerInit => QueueInv /\ CountersAgree
  BY InitControl, InitHandlerFate, InitQueuedOnce, InitCountersAgree DEF ServerInit, QueueInv
<1>2. QueueInv /\ CountersAgree /\ [ServerNext]_allVars => (QueueInv /\ CountersAgree)'
  BY ServerStepIsWriterStep, NextControl, NextHandlerFate, NextQueuedOnce,
     NextCountersAgree DEF QueueInv
<1> QED  BY <1>1, <1>2, PTL DEF ServerSpec

LEMMA InitServerInv == ServerInit => ServerInv
BY DEF ServerInit, Init, ServerInv, ServerTypeOK, PhaseInv, ConnInv, Active,
       PanicOnlyPastDeadline, At

(* A request's own steps, and those of its call of Log.  A call that       *)
(* panics is of an active request, which a drained server does not have.   *)
LEMMA RequestKeepsServerInv ==
    ASSUME QueueInv, ServerInv, NEW r \in Records,
           \/ Arrive(r) \/ LookupEnds(r) \/ ReachLog(r) \/ Abort(r) \/ Return(r)
           \/ Log(r) /\ UNCHANGED serverVars
    PROVE  ServerInv'
<1> USE DEF QueueInv, ServerInv
<1>1. CASE Arrive(r)
  <2>1. ~closed /\ UNCHANGED <<closed, closer, handler, phase, deadline>>
    BY <1>1 DEF Arrive, vars, closeVars, PhaseInv
  <2>2. /\ handler[r] = "idle"
        /\ conn' \in [Records -> {"none", "lookup", "active", "aborted", "done"}]
        /\ \A s \in Records \ {r} : conn'[s] = conn[s]
        /\ conn'[r] \in {"lookup", "active"}
    BY <1>1 DEF Arrive, Become, ServerTypeOK, ConnInv
  <2> QED  BY <2>1, <2>2 DEF ServerTypeOK, PhaseInv, ConnInv, PanicOnlyPastDeadline, At
<1>2. CASE LookupEnds(r) \/ Abort(r) \/ Return(r)
  <2>1. UNCHANGED <<closed, closer, handler, phase, deadline>>
    BY <1>2 DEF LookupEnds, Abort, Return, vars, closeVars
  <2>2. /\ conn' \in [Records -> {"none", "lookup", "active", "aborted", "done"}]
        /\ \A s \in Records \ {r} : conn'[s] = conn[s]
        /\ conn[r] \in {"lookup", "active"}
        /\ \/ handler[r] = "idle" /\ conn'[r] \in {"active", "aborted"}
           \/ handler[r] \in {"logged", "panicked"} /\ conn'[r] = "done"
    BY <1>2 DEF LookupEnds, Abort, Return, Become, ServerTypeOK, ConnInv
  <2>3. Active # {}
    BY <2>2 DEF Active
  <2> QED  BY <2>1, <2>2, <2>3 DEF ServerTypeOK, PhaseInv, ConnInv, PanicOnlyPastDeadline, At
<1>3. CASE ReachLog(r) \/ (Log(r) /\ UNCHANGED serverVars)
  <2>1. UNCHANGED <<closed, closer, phase, conn, deadline>>
    BY <1>3 DEF ReachLog, CallLog, Log, LogSend, LogRefuse, LogPanic, CountEnqueued,
                CountRefused, Step, closeVars, serverVars
  <2>2. /\ conn[r] = "active"
        /\ \A s \in Records \ {r} : handler'[s] = handler[s]
        /\ handler'[r] = "panicked" => closed
    BY <1>3 DEF ReachLog, CallLog, Log, LogSend, LogRefuse, LogPanic, CountEnqueued,
                CountRefused, Step, TypeOK, ServerTypeOK, ConnInv
  <2>3. Active # {}
    BY <2>2 DEF Active
  <2>4. ConnInv'
    BY <2>1, <2>2 DEF ConnInv
  <2>5. PanicOnlyPastDeadline'
    BY <2>1, <2>2, <2>3 DEF PanicOnlyPastDeadline, At, PhaseInv
  <2> QED  BY <2>1, <2>4, <2>5 DEF ServerTypeOK, PhaseInv, Active
<1> QED  BY <1>1, <1>2, <1>3

(* The worker, the signal and main.  Only main moves the closer.           *)
LEMMA NextServerInv == QueueInv /\ ServerInv /\ [ServerNext]_allVars => ServerInv'
<1> SUFFICES ASSUME QueueInv, ServerInv, [ServerNext]_allVars PROVE ServerInv'
  OBVIOUS
<1> USE DEF ServerInv
<1>1. CASE (Worker \/ Sink \/ CancelCtx) /\ UNCHANGED serverVars
  <2>1. UNCHANGED <<closed, closer, handler, phase, conn, deadline>>
    BY <1>1 DEF Worker, Receive, Tick, SeeClosed, SeeCancelled, FlushCase, Sink, InsertCommit,
                CommitBreaks, InsertOk, InsertErr, AfterInsert, CancelCtx, logVars, closeVars, serverVars
  <2> QED  BY <2>1 DEF ServerTypeOK, PhaseInv, Active, ConnInv, PanicOnlyPastDeadline, At
<1>2. CASE Start \/ StartFails \/ ListenerFails \/ BeginShutdown \/ Exit \/ UNCHANGED allVars
  <2>1. UNCHANGED <<closed, closer, handler, conn, deadline>>
    BY <1>2 DEF Start, StartFails, ListenerFails, BeginShutdown, Exit, allVars, serverVars,
                vars, closeVars
  <2>2. \/ phase' = phase
        \/ phase \in {"starting", "serving"} /\ phase' \in {"serving", "draining", "unwinding"}
        \/ phase = "unwinding" /\ phase' = "exited"
    BY <1>2 DEF Start, StartFails, ListenerFails, BeginShutdown, Exit, MainStep, allVars,
                serverVars
  <2>3. PhaseInv' /\ ServerTypeOK'
    BY <2>1, <2>2 DEF PhaseInv, ServerTypeOK, Active
  <2> QED  BY <2>1, <2>3 DEF ConnInv, PanicOnlyPastDeadline, At
<1>3. CASE Deadline
  <2>1. UNCHANGED <<closed, closer, handler, phase, conn>> /\ deadline'
    BY <1>3 DEF Deadline, vars, closeVars
  <2> QED
    BY <1>3, <2>1
       DEF Deadline, ServerTypeOK, PhaseInv, ConnInv, PanicOnlyPastDeadline
<1>4. CASE Drained \/ ShutdownTimesOut
  <2>1. /\ closed' /\ closer' = "waiting" /\ phase' = "closing"
        /\ UNCHANGED <<handler, conn, deadline>>
        /\ Active = {} \/ deadline
    BY <1>4 DEF Drained, ShutdownTimesOut, MainStep, CloseCall, logVars
  <2> QED
    BY <2>1 DEF ServerTypeOK, PhaseInv, Active, ConnInv, PanicOnlyPastDeadline, At
<1>5. CASE CloseFinishes \/ CloseTimesOut
  <2>1. /\ closed' = closed /\ closer = "waiting" /\ closer' \in {"finished", "gaveup"}
        /\ phase' = "unwinding" /\ UNCHANGED <<handler, conn, deadline>>
    BY <1>5 DEF CloseFinishes, CloseTimesOut, MainStep, CloseDone, CloseGiveUp,
                CloseReturns, logVars
  <2> QED
    BY <2>1 DEF ServerTypeOK, PhaseInv, Active, ConnInv, PanicOnlyPastDeadline, At
<1> QED
  BY <1>1, <1>2, <1>3, <1>4, <1>5, RequestKeepsServerInv DEF ServerNext, Main, Signal

LEMMA ServerInvariant == ServerSpec => [](QueueInv /\ CountersAgree /\ ServerInv)
BY ServerQueueInvariant, InitServerInv, NextServerInv, PTL DEF ServerSpec

(* A handler's Log panics only when its request outlives the whole         *)
(* shutdown deadline.                                                      *)
THEOREM PanicCorrect == ServerSpec => []PanicOnlyPastDeadline
<1>1. ServerInv => PanicOnlyPastDeadline
  BY DEF ServerInv
<1> QED  BY <1>1, ServerInvariant, PTL

(* In a drained server no handler is inside Log, so the answered requests  *)
(* are those with a fate, and main's last figures count all but the queue. *)
THEOREM LastLineCorrect == ServerSpec => []LastLineAccounts
<1>1. QueueInv /\ CountersAgree /\ ServerInv => LastLineAccounts
  <2> SUFFICES ASSUME QueueInv, CountersAgree, ServerInv, closer = "finished", ~deadline
               PROVE  written + dropped + Cardinality(With("queued")) =
                        Cardinality(At("logged"))
    BY DEF LastLineAccounts
  <2> USE DEF QueueInv, ServerInv
  <2>1. Active = {} /\ At("panicked") = {}
    BY DEF PhaseInv, PanicOnlyPastDeadline
  <2>2. \A r \in Records : handler[r] \in {"idle", "logged"}
    BY <2>1 DEF ConnInv, Active, At, TypeOK
  <2>3. At("refused") = {} /\ Cardinality(At("refused")) = 0
    BY <2>2, FS_EmptySet DEF At
  <2> DEFINE queued == With("queued")  settled == With("written")
             lost == With("lost")  refused == With("refused")
  <2>4. At("logged") = ((settled \cup lost) \cup refused) \cup queued
    BY <2>2 DEF HandlerFate, TypeOK, At, With
  <2>5. /\ queued \subseteq Records /\ settled \subseteq Records
        /\ lost \subseteq Records /\ refused \subseteq Records
        /\ settled \cap lost = {} /\ (settled \cup lost) \cap refused = {}
        /\ ((settled \cup lost) \cup refused) \cap queued = {}
    BY DEF With
  <2>6. /\ written = Cardinality(settled)
        /\ dropped + Cardinality(At("refused")) = Cardinality(lost) + Cardinality(refused)
    BY DEF CountersAgree
  <2> HIDE DEF queued, settled, lost, refused
  <2>7. /\ Cardinality(settled \cup lost) = Cardinality(settled) + Cardinality(lost)
        /\ Cardinality((settled \cup lost) \cup refused) =
             Cardinality(settled \cup lost) + Cardinality(refused)
        /\ Cardinality(((settled \cup lost) \cup refused) \cup queued) =
             Cardinality((settled \cup lost) \cup refused) + Cardinality(queued)
    BY <2>5, DisjointUnion
  <2>8. /\ Cardinality(settled) \in Nat /\ Cardinality(lost) \in Nat
        /\ Cardinality(refused) \in Nat /\ Cardinality(queued) \in Nat
    BY <2>5, RecordSets
  <2>9. dropped \in Nat
    BY DEF TypeOK
  <2>10. Cardinality(At("logged")) =
           ((Cardinality(settled) + Cardinality(lost)) + Cardinality(refused))
             + Cardinality(queued)
    BY <2>4, <2>7
  <2>11. dropped = Cardinality(lost) + Cardinality(refused)
    BY <2>3, <2>6, <2>8, <2>9
  <2>12. written + dropped + Cardinality(queued) = Cardinality(At("logged"))
    BY <2>6, <2>8, <2>10, <2>11
  <2> QED  BY <2>12 DEF queued
<1> QED  BY <1>1, ServerInvariant, PTL

(* The records on their way fit into the channel and the worker's batch,   *)
(* and a worker that has left holds no batch.                              *)
THEOREM StrandedCorrect == ServerSpec => []StrandedBounded
<1>1. QueueInv => StrandedBounded
  <2> SUFFICES ASSUME QueueInv
               PROVE  Cardinality(With("queued")) <=
                        Buffer + (IF closer = "finished" THEN 0 ELSE BatchSize)
    BY DEF StrandedBounded
  <2> USE DEF QueueInv
  <2>1. /\ batch \in Seq(Records) /\ ch \in Seq(Records) /\ batch \o ch \in Seq(Records)
        /\ Len(batch \o ch) = Len(batch) + Len(ch)
        /\ Len(batch) \in Nat /\ Len(ch) \in Nat
        /\ Len(batch) <= BatchSize /\ Len(ch) <= Buffer
    BY DEF TypeOK
  <2>2. Cardinality(With("queued")) = Len(batch) + Len(ch)
    BY <2>1, InjectiveLen DEF QueuedOnce
  <2>3. closer = "finished" => Len(batch) = 0
    BY DEF ControlOK
  <2> QED  BY <2>1, <2>2, <2>3, BufferAssumption, BatchSizeAssumption
<1> QED  BY <1>1, ServerInvariant, PTL
=============================================================================
