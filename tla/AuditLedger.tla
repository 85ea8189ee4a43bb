---------------------------- MODULE AuditLedger ----------------------------
(***************************************************************************)
(* What the audit trail promises, without the queue, the batches and the   *)
(* goroutines: every record handed over gets exactly one verdict.  It is   *)
(* either turned away at the door, or accepted and later declared written  *)
(* or lost.  A verdict is final and a batch gets its verdict as a whole.   *)
(*                                                                         *)
(* The verdict is not the truth about the table.  A record declared lost   *)
(* may be a row: the database can commit a batch and fail to report it.    *)
(* A record declared written may be none: when the commit itself breaks,   *)
(* nobody is told.  What is promised is that this is the only way.         *)
(***************************************************************************)
CONSTANT Records          \* the records the requests of one process produce

VARIABLES
    verdict,              \* what the process holds to be true of each record
    table,                \* the set of records that are rows of qw_audit
    broken                \* the records whose commit broke, told to nobody

ledgerVars == <<verdict, table, broken>>

Verdicts == {"unlogged", "queued", "written", "lost", "refused"}

Pending == {r \in Records : verdict[r] = "queued"}

LedgerTypeOK ==
    /\ verdict \in [Records -> Verdicts]
    /\ table \subseteq Records /\ broken \subseteq Records

LedgerInit ==
    /\ verdict = [r \in Records |-> "unlogged"]
    /\ table = {} /\ broken = {}

Judge(S, v) == verdict' = [r \in Records |-> IF r \in S THEN v ELSE verdict[r]]

(* The queue takes the record.                                             *)
Accept(r) ==
    /\ verdict[r] = "unlogged"
    /\ Judge({r}, "queued")
    /\ UNCHANGED <<table, broken>>

(* The queue is full: the record gets its verdict at once.                 *)
Refuse(r) ==
    /\ verdict[r] = "unlogged"
    /\ Judge({r}, "refused")
    /\ UNCHANGED <<table, broken>>

(* A batch of pending records becomes rows, none of which was a row.       *)
Commit(S) ==
    /\ S # {}
    /\ S \subseteq Pending \ (table \cup broken)
    /\ table' = table \cup S
    /\ UNCHANGED <<verdict, broken>>

(* The commit of a batch breaks: it becomes no rows, now or later.         *)
Break(S) ==
    /\ S # {}
    /\ S \subseteq Pending \ (table \cup broken)
    /\ broken' = broken \cup S
    /\ UNCHANGED <<verdict, table>>

(* A batch is reported as written, committed or broken as a whole ...      *)
Confirm(S) ==
    /\ S # {}
    /\ S \subseteq Pending
    /\ S \subseteq table \/ S \subseteq broken
    /\ Judge(S, "written")
    /\ UNCHANGED <<table, broken>>

(* ... and a batch whose insert failed, or seemed to, as lost.             *)
GiveUp(S) ==
    /\ S # {}
    /\ S \subseteq Pending
    /\ Judge(S, "lost")
    /\ UNCHANGED <<table, broken>>

LedgerNext ==
    \/ \E r \in Records : Accept(r) \/ Refuse(r)
    \/ \E S \in SUBSET Records : Commit(S) \/ Break(S) \/ Confirm(S) \/ GiveUp(S)

LedgerSpec == LedgerInit /\ [][LedgerNext]_ledgerVars

-----------------------------------------------------------------------------
(* What Written() reports to operators is in qw_audit, except the batches  *)
(* whose commit broke: of those no record is there.                        *)
WrittenIsRowOrBroken ==
    /\ \A r \in Records : verdict[r] = "written" => r \in table \cup broken
    /\ table \cap broken = {}

(* A verdict is final: nobody counts a record twice or takes it back, and  *)
(* no row of the audit trail goes away, nor does a broken one turn up.     *)
Settled == {r \in Records : verdict[r] \in {"written", "lost", "refused"}}
VerdictsFinal ==
    [][/\ \A r \in Settled : verdict'[r] = verdict[r]
       /\ table \subseteq table' /\ broken \subseteq broken']_ledgerVars
=============================================================================
