-------------------------- MODULE AuditPartitions --------------------------
(***************************************************************************)
(* internal/audit/pgx.go: the monthly partitions of qw_audit.  Each proxy  *)
(* replica runs EnsurePartitions once, while it starts (cmd/qwproxy run),  *)
(* with the month it read from its clock; then it inserts rows for as long *)
(* as it lives.  Replicas share the table, come and go on their own, and   *)
(* their statements interleave.  Months are numbered from 0.               *)
(*                                                                         *)
(* Postgres routes a row to the partition of its month or, if there is     *)
(* none, to DEFAULT; it refuses to create a partition for a month of which *)
(* DEFAULT holds a row.                                                    *)
(***************************************************************************)
EXTENDS Integers

CONSTANTS
    Replicas,     \* the pods that run qwproxy against one database
    Retention,    \* retentionMonths; 0 keeps everything
    MaxMonth      \* bound of the model's calendar

ASSUME RetentionAssumption == Retention \in Nat
ASSUME MaxMonthAssumption == MaxMonth \in Nat

VARIABLES
    month,        \* the calendar
    parts,        \* the months that have a partition
    default,      \* the months of which DEFAULT holds rows
    held,         \* the months of which a monthly partition holds rows
    pod, start    \* where each replica is; monthStart(now) of its startup

vars == <<month, parts, default, held, pod, start>>
tableVars == <<parts, default, held>>

Months == 0..MaxMonth + 1       \* the last startup prepares a month ahead

Places == {"down", "current", "next", "drop", "serving", "failed"}

TypeOK ==
    /\ month \in 0..MaxMonth
    /\ parts \subseteq Months /\ default \subseteq Months /\ held \subseteq parts
    /\ pod \in [Replicas -> Places]
    /\ start \in [Replicas -> 0..MaxMonth]

Init ==
    /\ month = 0
    /\ parts = {} /\ default = {} /\ held = {}
    /\ pod = [p \in Replicas |-> "down"]
    /\ start = [p \in Replicas |-> 0]

Goto(p, from, to) == pod[p] = from /\ pod' = [pod EXCEPT ![p] = to]

-----------------------------------------------------------------------------
(* Startup.  run reads the clock, then EnsurePartitions goes statement by  *)
(* statement; the first error ends the process.                            *)
Boot(p) ==
    /\ Goto(p, "down", "current")
    /\ start' = [start EXCEPT ![p] = month]
    /\ UNCHANGED <<month, tableVars>>

(* CREATE TABLE IF NOT EXISTS ... PARTITION OF qw_audit.                   *)
Blocked(m) == m \notin parts /\ m \in default

CreatePartition(p, m, from, to) ==
    /\ IF Blocked(m) THEN Goto(p, from, "failed") /\ UNCHANGED parts
                     ELSE Goto(p, from, to) /\ parts' = parts \cup {m}
    /\ UNCHANGED <<month, default, held, start>>

CreateCurrent(p) == CreatePartition(p, start[p], "current", "next")

FaultSameMonth(p) == CreatePartition(p, start[p], "next", "drop")
FaultMonthAfter(p) == CreatePartition(p, start[p] + 2, "next", "drop")
CreateNext(p) == CreatePartition(p, start[p] + 1, "next", "drop")

(* DROP TABLE IF EXISTS of the one month that has aged past retention.     *)
FaultOffByOne(p) == {m \in Months : m = start[p] + 1 - Retention}
Aged(p) == {m \in Months : Retention > 0 /\ m = start[p] - Retention}

DropOld(p) ==
    /\ Goto(p, "drop", "serving")
    /\ parts' = parts \ Aged(p)
    /\ held' = held \ Aged(p)
    /\ UNCHANGED <<month, default, start>>

EnsurePartitions(p) == CreateCurrent(p) \/ CreateNext(p) \/ DropOld(p)

-----------------------------------------------------------------------------
(* A row's ts is the start of its request, which may lie in the month      *)
(* before the insert.                                                      *)
InsertRow(p, m) ==
    /\ pod[p] = "serving"
    /\ m \in {month, month - 1} /\ m >= start[p]
    /\ IF m \in parts THEN held' = held \cup {m} /\ UNCHANGED default
                      ELSE default' = default \cup {m} /\ UNCHANGED held
    /\ UNCHANGED <<month, parts, pod, start>>

(* A pod ends, or is killed, wherever it is; Kubernetes restarts it.       *)
Stop(p) ==
    /\ pod[p] # "down"
    /\ pod' = [pod EXCEPT ![p] = "down"]
    /\ UNCHANGED <<month, tableVars, start>>

NextMonth ==
    /\ month < MaxMonth /\ month' = month + 1
    /\ UNCHANGED <<tableVars, pod, start>>

Next ==
    \/ \E p \in Replicas :
         \/ Boot(p) \/ EnsurePartitions(p) \/ Stop(p)
         \/ \E m \in Months : InsertRow(p, m)
    \/ NextMonth

Spec == Init /\ [][Next]_vars

-----------------------------------------------------------------------------
(* A month is dropped with its rows only once it has aged past the         *)
(* retention, whichever replica drops it and however stale the month is    *)
(* that it read when it started.                                           *)
KeepsRecent ==
    [][\A m \in parts \ parts' : Retention > 0 /\ m + Retention <= month]_vars

(* A replica that has started finds partitions for two months, the one it  *)
(* started in and the next, even if others start, drop and die meanwhile.  *)
TwoMonthsReady ==
    \A p \in Replicas :
        pod[p] = "serving" /\ month <= start[p] + 1 => month \in parts

(* "EnsurePartitions creates the current and next month partitions", with  *)
(* DEFAULT as "a safety net": rows caught by the net do not stop a proxy   *)
(* from starting.                                                          *)
NetDoesNotBlock == \A p \in Replicas : pod[p] # "failed"

=============================================================================
