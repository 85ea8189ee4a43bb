---------------------- MODULE AuditPartitions_proofs ----------------------
(***************************************************************************)
(* Proofs about AuditPartitions, for any number of replicas, any retention *)
(* and any calendar.                                                       *)
(***************************************************************************)
EXTENDS AuditPartitions, TLAPS

USE RetentionAssumption, MaxMonthAssumption

(* A replica that has prepared month m can count on it until it has aged.  *)
Provided(m) == m \in parts \/ (Retention > 0 /\ m + Retention <= month)

Prepared ==
    \A p \in Replicas :
        /\ start[p] <= month
        /\ pod[p] \in {"next", "drop", "serving"} => Provided(start[p])
        /\ pod[p] \in {"drop", "serving"} => Provided(start[p] + 1)

PartitionInv == TypeOK /\ Prepared

-----------------------------------------------------------------------------
LEMMA InitInv == Init => PartitionInv
BY DEF Init, PartitionInv, TypeOK, Prepared, Months, Places

(* Creating a partition takes nothing from anyone.                         *)
LEMMA CreateStep ==
    ASSUME PartitionInv, NEW p \in Replicas, NEW m \in Months,
           NEW from \in Places, NEW to \in Places,
           CreatePartition(p, m, from, to),
           to = "next" => m = start[p],
           to = "drop" => from = "next" /\ m = start[p] + 1,
           to \in {"next", "drop"}
    PROVE  PartitionInv'
<1> USE DEF PartitionInv, TypeOK, Places, Months
<1>1. CASE Blocked(m)
  <2>1. pod' = [pod EXCEPT ![p] = "failed"] /\ UNCHANGED <<month, tableVars, start>>
    BY <1>1 DEF CreatePartition, Goto, tableVars
  <2> QED BY <2>1 DEF Prepared, Provided, tableVars
<1>2. CASE ~Blocked(m)
  <2>1. /\ pod[p] = from /\ pod' = [pod EXCEPT ![p] = to]
        /\ parts' = parts \cup {m}
        /\ UNCHANGED <<month, default, held, start>>
    BY <1>2 DEF CreatePartition, Goto
  <2>2. TypeOK'
    BY <2>1
  <2>3. Prepared'
    <3> SUFFICES ASSUME NEW q \in Replicas PROVE Prepared!(q)'
      BY DEF Prepared
    <3>1. \A n \in Int : Provided(n) => Provided(n)'
      BY <2>1 DEF Provided
    <3>2. Provided(m)'
      BY <2>1 DEF Provided
    <3>3. CASE q = p
      BY <2>1, <3>1, <3>2, <3>3 DEF Prepared
    <3>4. CASE q # p
      BY <2>1, <3>1, <3>4 DEF Prepared
    <3> QED BY <3>3, <3>4
  <2> QED BY <2>2, <2>3
<1> QED BY <1>1, <1>2

(* A drop takes a month that has aged, by the clock of everyone.           *)
LEMMA DropStep ==
    ASSUME PartitionInv, NEW p \in Replicas, DropOld(p)
    PROVE  /\ PartitionInv'
           /\ \A m \in parts \ parts' : Retention > 0 /\ m + Retention <= month
<1> USE DEF PartitionInv, TypeOK, Places, Months
<1>1. /\ pod[p] = "drop" /\ pod' = [pod EXCEPT ![p] = "serving"]
      /\ parts' = parts \ Aged(p) /\ held' = held \ Aged(p)
      /\ UNCHANGED <<month, default, start>>
  BY DEF DropOld, Goto
<1>2. \A m \in Aged(p) : Retention > 0 /\ m + Retention <= month
  BY DEF Aged, Prepared
<1>3. TypeOK'
  BY <1>1
<1>4. \A n \in Int : Provided(n) => Provided(n)'
  BY <1>1, <1>2 DEF Provided
<1>5. Prepared'
  BY <1>1, <1>4 DEF Prepared
<1> QED BY <1>1, <1>2, <1>3, <1>5

LEMMA OtherStep ==
    ASSUME PartitionInv,
           \/ \E p \in Replicas : Boot(p) \/ Stop(p) \/ \E m \in Months : InsertRow(p, m)
           \/ NextMonth
           \/ UNCHANGED vars
    PROVE  PartitionInv'
<1> USE DEF PartitionInv, TypeOK, Places, Months
<1>1. ASSUME NEW p \in Replicas, Boot(p) PROVE PartitionInv'
  BY <1>1 DEF Boot, Goto, Prepared, Provided, tableVars
<1>2. ASSUME NEW p \in Replicas, Stop(p) PROVE PartitionInv'
  BY <1>2 DEF Stop, Prepared, Provided, tableVars
<1>3. ASSUME NEW p \in Replicas, NEW m \in Months, InsertRow(p, m) PROVE PartitionInv'
  BY <1>3 DEF InsertRow, Prepared, Provided
<1>4. ASSUME NextMonth PROVE PartitionInv'
  BY <1>4 DEF NextMonth, Prepared, Provided, tableVars
<1>5. ASSUME UNCHANGED vars PROVE PartitionInv'
  BY <1>5 DEF vars, Prepared, Provided
<1> QED BY <1>1, <1>2, <1>3, <1>4, <1>5

LEMMA NextInv ==
    ASSUME PartitionInv, [Next]_vars
    PROVE  /\ PartitionInv'
           /\ \A m \in parts \ parts' : Retention > 0 /\ m + Retention <= month
<1>1. ASSUME NEW p \in Replicas, CreateCurrent(p)
      PROVE  PartitionInv' /\ parts \subseteq parts'
  <2>1. start[p] \in Months
    BY DEF PartitionInv, TypeOK, Months
  <2>2. PartitionInv'
    BY <1>1, <2>1, CreateStep DEF CreateCurrent, Places
  <2> QED BY <1>1, <2>2 DEF CreateCurrent, CreatePartition
<1>2. ASSUME NEW p \in Replicas, CreateNext(p)
      PROVE  PartitionInv' /\ parts \subseteq parts'
  <2>1. start[p] + 1 \in Months
    BY DEF PartitionInv, TypeOK, Months
  <2>2. PartitionInv'
    BY <1>2, <2>1, CreateStep DEF CreateNext, Places
  <2> QED BY <1>2, <2>2 DEF CreateNext, CreatePartition
<1>3. ASSUME \/ \E p \in Replicas : Boot(p) \/ Stop(p) \/ \E m \in Months : InsertRow(p, m)
             \/ NextMonth
             \/ UNCHANGED vars
      PROVE  PartitionInv' /\ UNCHANGED parts
  BY <1>3, OtherStep DEF Boot, Stop, InsertRow, NextMonth, vars, tableVars
<1> QED BY <1>1, <1>2, <1>3, DropStep DEF Next, EnsurePartitions

-----------------------------------------------------------------------------
LEMMA Invariance == Spec => []PartitionInv
<1>1. PartitionInv /\ [Next]_vars => PartitionInv'
  BY NextInv
<1> QED BY InitInv, <1>1, PTL DEF Spec

(* Partitions, rows and replicas stay what EnsurePartitions makes of them: *)
(* no month outside the calendar, no rows in a partition that is not there.*)
THEOREM TypeCorrect == Spec => []TypeOK
<1>1. PartitionInv => TypeOK
  BY DEF PartitionInv
<1> QED BY Invariance, <1>1, PTL

(* A started replica has its two months, whatever the others do.           *)
THEOREM ReadyCorrect == Spec => []TwoMonthsReady
<1>1. PartitionInv => TwoMonthsReady
  BY DEF PartitionInv, TypeOK, Prepared, Provided, TwoMonthsReady, Months
<1> QED BY Invariance, <1>1, PTL

(* No replica drops a month that is still within the retention.            *)
THEOREM RetentionCorrect == Spec => KeepsRecent
<1>1. PartitionInv /\ [Next]_vars =>
        [\A m \in parts \ parts' : Retention > 0 /\ m + Retention <= month]_vars
  BY NextInv
<1> QED BY Invariance, <1>1, PTL DEF Spec, KeepsRecent
=============================================================================
