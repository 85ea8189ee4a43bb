------------------------- MODULE SelfUpdate_proofs -------------------------
(***************************************************************************)
(* Theorems about SelfUpdate, for any number of processes and versions.    *)
(***************************************************************************)
EXTENDS SelfUpdate, TLAPS

Holds(text, b) == \E k \in DOMAIN text : text[k] = b

(* What a process goes on with is what it verified.                        *)
ArchiveOK(q) ==
    /\ q.at \notin {"idle", "get", "verify"} => q.archive = q.version
    /\ q.at = "verify" => q.archive # None
    /\ q.at = "copy" => q.fd \in Inodes

UpdateInv ==
    /\ TypeOK
    /\ \A i \in Inodes : ~Holds(disk[i], Bad)
    /\ \A p \in Procs : ArchiveOK(proc[p])

-----------------------------------------------------------------------------
LEMMA TextsOK ==
    /\ <<>> \in Texts /\ ~Holds(<<>>, Bad)
    /\ \A v \in Versions : Whole(v) \in Texts /\ ~Holds(Whole(v), Bad)
<1>1. <<>> \in [1..0 -> Bytes] /\ DOMAIN <<>> = {}
    OBVIOUS
<1>2. ASSUME NEW v \in Versions
      PROVE  Whole(v) \in [1..2 -> Bytes] /\ ~Holds(Whole(v), Bad)
    <2>1. Whole(v) \in [1..2 -> Bytes]
        BY DEF Whole, Bytes
    <2>2. \A k \in 1..2 : Whole(v)[k] = v
        BY DEF Whole
    <2> QED BY <2>1, <2>2, DistinctAssumption DEF Holds
<1> QED BY <1>1, <1>2 DEF Texts, Holds

LEMMA WrittenOK ==
    ASSUME NEW text \in Texts, NEW k \in 1..2, NEW b \in Versions, ~Holds(text, Bad)
    PROVE  Written(text, k, b) \in Texts /\ ~Holds(Written(text, k, b), Bad)
<1>1. PICK n \in 0..2 : text \in [1..n -> Bytes]
    BY DEF Texts
<1>2. PICK m \in 0..2 : DOMAIN text \cup 1..k = 1..m
    <2>1. CASE n <= k
        <3>1. DOMAIN text \cup 1..k = 1..k
            BY <1>1, <2>1
        <3> QED BY <3>1
    <2>2. CASE ~(n <= k)
        <3>1. DOMAIN text \cup 1..k = 1..n
            BY <1>1, <2>2
        <3> QED BY <3>1
    <2> QED BY <2>1, <2>2
<1>3. ASSUME NEW j \in 1..m
      PROVE  Written(text, k, b)[j] \in Bytes /\ Written(text, k, b)[j] # Bad
    BY <1>1, <1>2, DistinctAssumption DEF Written, Bytes, Holds
<1>4. Written(text, k, b) \in [1..m -> Bytes]
    BY <1>2, <1>3 DEF Written
<1> QED BY <1>3, <1>4 DEF Texts, Holds

(* A step that leaves a process in a state that is right, and writes only  *)
(* what is right.                                                          *)
LEMMA BecomeOK ==
    ASSUME UpdateInv, NEW p \in Procs, NEW q \in Busy \cup {Idle}, ArchiveOK(q), Become(p, q)
    PROVE  proc' \in [Procs -> Busy \cup {Idle}] /\ \A r \in Procs : ArchiveOK(proc'[r])
BY DEF UpdateInv, TypeOK, Become

LEMMA IdleOK == Idle \in Busy \cup {Idle} /\ ArchiveOK(Idle)
BY DEF Idle, ArchiveOK

LEMMA BusyOK ==
    ASSUME UpdateInv, NEW p \in Procs, NEW at, At(p, at), at # "idle"
    PROVE  proc[p] \in Busy /\ ArchiveOK(proc[p])
BY DEF UpdateInv, TypeOK, At, Idle

LEMMA EventsOK ==
    ASSUME UpdateInv, NEW what \in {"killed", "full"}, Note(what, TRUE)
    PROVE  events' \subseteq {"overlap", "killed", "full", "mixed"}
BY DEF UpdateInv, TypeOK, Note

LEMMA InitOK == Init => UpdateInv
<1> SUFFICES ASSUME Init PROVE UpdateInv
    OBVIOUS
<1>1. PICK i \in Inodes, v \in Versions :
          target = i /\ disk = [j \in Inodes |-> IF j = i THEN Whole(v) ELSE <<>>]
    BY DEF Init
<1>2. disk \in [Inodes -> Texts] /\ \A j \in Inodes : ~Holds(disk[j], Bad)
    BY <1>1, TextsOK
<1>3. runs \in 0..MaxRuns
    BY RunsAssumption DEF Init
<1>4. proc \in [Procs -> Busy \cup {Idle}] /\ \A p \in Procs : ArchiveOK(proc[p])
    BY IdleOK DEF Init
<1> QED BY <1>1, <1>2, <1>3, <1>4 DEF Init, UpdateInv, TypeOK

LEMMA UpgradeOK == UpdateInv /\ (\E p \in Procs, v \in Versions : Upgrade(p, v)) => UpdateInv'
<1> SUFFICES ASSUME UpdateInv, NEW p \in Procs, NEW v \in Versions, Upgrade(p, v)
             PROVE  UpdateInv'
    OBVIOUS
<1> DEFINE q == [at |-> "get", version |-> v, archive |-> None, half |-> 1, fd |-> None]
<1>1. q \in Busy /\ ArchiveOK(q)
    BY DEF Busy, ArchiveOK
<1>2. proc' \in [Procs -> Busy \cup {Idle}] /\ \A r \in Procs : ArchiveOK(proc'[r])
    BY <1>1, BecomeOK DEF Upgrade
<1>3. runs' \in 0..MaxRuns
    BY RunsAssumption DEF Upgrade, UpdateInv, TypeOK
<1>4. events' \subseteq {"overlap", "killed", "full", "mixed"}
    BY DEF Upgrade, UpdateInv, TypeOK
<1>5. UNCHANGED <<disk, target, staged>>
    BY DEF Upgrade, names
<1> QED BY <1>2, <1>3, <1>4, <1>5 DEF UpdateInv, TypeOK

(* Steps that touch no file.                                               *)
LEMMA DownloadOK ==
    UpdateInv /\ (\E p \in Procs : Get(p) \/ Verify(p) \/ Extract(p) \/ Fail(p) \/ RenameFails(p))
        => UpdateInv'
<1> SUFFICES ASSUME UpdateInv, NEW p \in Procs,
                    Get(p) \/ Verify(p) \/ Extract(p) \/ Fail(p) \/ RenameFails(p)
             PROVE  UpdateInv'
    OBVIOUS
<1>1. UNCHANGED <<disk, target, staged, runs, events>>
    BY DEF Get, Verify, Extract, Fail, RenameFails, names
<1>2. PICK q \in Busy \cup {Idle} : ArchiveOK(q) /\ Become(p, q)
    <2>1. CASE Get(p)
        <3>1. proc[p] \in Busy /\ ArchiveOK(proc[p])
            BY <2>1, BusyOK DEF Get
        <3>2. PICK a \in {proc[p].version, Bad} :
                  Become(p, [proc[p] EXCEPT !.at = "verify", !.archive = a])
            BY <2>1 DEF Get
        <3>3. [proc[p] EXCEPT !.at = "verify", !.archive = a] \in Busy
            BY <3>1 DEF Busy
        <3>4. a # None
            BY <3>1, DistinctAssumption DEF Busy
        <3>5. ArchiveOK([proc[p] EXCEPT !.at = "verify", !.archive = a])
            BY <3>1, <3>4 DEF Busy, ArchiveOK
        <3> QED BY <3>2, <3>3, <3>5
    <2>2. CASE Verify(p)
        <3>1. proc[p] \in Busy /\ proc[p].archive # None
            BY <2>2, BusyOK DEF Verify, At, ArchiveOK
        <3>2. Become(p, [proc[p] EXCEPT !.at = "extract"]) /\ proc[p].archive = proc[p].version
            BY <2>2, <3>1 DEF Verify, Verified
        <3> QED BY <3>1, <3>2 DEF Busy, ArchiveOK
    <2>3. CASE Extract(p)
        <3>1. proc[p] \in Busy /\ proc[p].archive = proc[p].version
            BY <2>3, BusyOK DEF Extract, At, ArchiveOK
        <3>2. Become(p, [proc[p] EXCEPT !.at = "open"])
            BY <2>3 DEF Extract
        <3> QED BY <3>1, <3>2 DEF Busy, ArchiveOK
    <2>4. CASE Fail(p)
        BY <2>4, IdleOK DEF Fail
    <2>5. CASE RenameFails(p)
        <3>1. proc[p] \in Busy /\ proc[p].archive = proc[p].version
            BY <2>5, BusyOK DEF RenameFails, At, ArchiveOK
        <3>2. Become(p, [proc[p] EXCEPT !.at = "remove"])
            BY <2>5 DEF RenameFails
        <3> QED BY <3>1, <3>2 DEF Busy, ArchiveOK
    <2> QED BY <2>1, <2>2, <2>3, <2>4, <2>5
<1>3. proc' \in [Procs -> Busy \cup {Idle}] /\ \A r \in Procs : ArchiveOK(proc'[r])
    BY <1>2, BecomeOK
<1> QED BY <1>1, <1>3 DEF UpdateInv, TypeOK

LEMMA OpenOK == UpdateInv /\ (\E p \in Procs : Open(p)) => UpdateInv'
<1> SUFFICES ASSUME UpdateInv, NEW p \in Procs, Open(p) PROVE UpdateInv'
    OBVIOUS
<1>1. PICK i \in Inodes : /\ disk' = [disk EXCEPT ![i] = <<>>] /\ staged' = i
                          /\ Become(p, [proc[p] EXCEPT !.at = "copy", !.fd = i])
    BY DEF Open
<1>2. proc[p] \in Busy /\ proc[p].archive = proc[p].version
    BY BusyOK DEF Open, At, ArchiveOK
<1>3. [proc[p] EXCEPT !.at = "copy", !.fd = i] \in Busy
    BY <1>2 DEF Busy
<1>4. ArchiveOK([proc[p] EXCEPT !.at = "copy", !.fd = i])
    BY <1>2 DEF Busy, ArchiveOK
<1>5. proc' \in [Procs -> Busy \cup {Idle}] /\ \A r \in Procs : ArchiveOK(proc'[r])
    BY <1>1, <1>3, <1>4, BecomeOK
<1>6. disk' \in [Inodes -> Texts] /\ \A j \in Inodes : ~Holds(disk'[j], Bad)
    BY <1>1, TextsOK DEF UpdateInv, TypeOK
<1> QED BY <1>1, <1>5, <1>6 DEF UpdateInv, TypeOK, Open

LEMMA CopyOK == UpdateInv /\ (\E p \in Procs : Copy(p)) => UpdateInv'
<1> SUFFICES ASSUME UpdateInv, NEW p \in Procs, Copy(p) PROVE UpdateInv'
    OBVIOUS
<1> DEFINE q == proc[p]
           next == IF q.half = 1 THEN [q EXCEPT !.half = 2]
                   ELSE [q EXCEPT !.at = "rename", !.fd = None]
<1>1. q \in Busy /\ q.at = "copy" /\ q.archive = q.version /\ q.fd \in Inodes
    BY BusyOK DEF Copy, At, ArchiveOK
<1>2. q.half \in 1..2 /\ q.archive \in Versions
    BY <1>1 DEF Busy
<1>3. next \in Busy /\ ArchiveOK(next)
    <2>1. CASE q.half = 1
        <3>1. [q EXCEPT !.half = 2] \in Busy
            BY <1>1 DEF Busy
        <3>2. ArchiveOK([q EXCEPT !.half = 2])
            BY <1>1 DEF Busy, ArchiveOK
        <3> QED BY <2>1, <3>1, <3>2
    <2>2. CASE q.half # 1
        <3>1. [q EXCEPT !.at = "rename", !.fd = None] \in Busy
            BY <1>1 DEF Busy
        <3>2. ArchiveOK([q EXCEPT !.at = "rename", !.fd = None])
            BY <1>1 DEF Busy, ArchiveOK
        <3> QED BY <2>2, <3>1, <3>2
    <2> QED BY <2>1, <2>2
<1>4. Become(p, next)
    BY DEF Copy
<1>5. proc' \in [Procs -> Busy \cup {Idle}] /\ \A r \in Procs : ArchiveOK(proc'[r])
    BY <1>3, <1>4, BecomeOK
<1>6. disk' = [disk EXCEPT ![q.fd] = Written(disk[q.fd], q.half, q.archive)]
    BY DEF Copy
<1>7. disk[q.fd] \in Texts /\ ~Holds(disk[q.fd], Bad)
    BY <1>1 DEF UpdateInv, TypeOK
<1>8. /\ Written(disk[q.fd], q.half, q.archive) \in Texts
      /\ ~Holds(Written(disk[q.fd], q.half, q.archive), Bad)
    BY <1>2, <1>7, WrittenOK
<1>9. disk' \in [Inodes -> Texts] /\ \A j \in Inodes : ~Holds(disk'[j], Bad)
    BY <1>1, <1>6, <1>8 DEF UpdateInv, TypeOK
<1> QED BY <1>5, <1>9 DEF UpdateInv, TypeOK, Copy, names

(* Steps that end a process.                                               *)
LEMMA EndOK ==
    UpdateInv /\ (\E p \in Procs : CopyFails(p) \/ Rename(p) \/ Remove(p) \/ Kill(p))
        => UpdateInv'
<1> SUFFICES ASSUME UpdateInv, NEW p \in Procs,
                    CopyFails(p) \/ Rename(p) \/ Remove(p) \/ Kill(p)
             PROVE  UpdateInv'
    OBVIOUS
<1>1. Become(p, Idle)
    BY DEF CopyFails, Rename, Remove, Kill
<1>2. proc' \in [Procs -> Busy \cup {Idle}] /\ \A r \in Procs : ArchiveOK(proc'[r])
    BY <1>1, IdleOK, BecomeOK
<1>3. events' \subseteq {"overlap", "killed", "full", "mixed"}
    BY EventsOK DEF CopyFails, Rename, Remove, Kill, UpdateInv, TypeOK
<1>4. disk' \in [Inodes -> Texts] /\ \A j \in Inodes : ~Holds(disk'[j], Bad)
    <2>1. CASE Rename(p)
        BY <2>1, TextsOK DEF Rename, UpdateInv, TypeOK
    <2>2. CASE CopyFails(p) \/ Remove(p) \/ Kill(p)
        BY <2>2 DEF CopyFails, Remove, Kill, UpdateInv, TypeOK
    <2> QED BY <2>1, <2>2
<1>5. target' \in Inodes \cup {None} /\ staged' \in Inodes \cup {None}
    BY DEF CopyFails, Rename, Remove, RemovesStaged, Kill, names, UpdateInv, TypeOK
<1>6. runs' = runs
    BY DEF CopyFails, Rename, Remove, Kill
<1> QED BY <1>2, <1>3, <1>4, <1>5, <1>6 DEF UpdateInv, TypeOK

LEMMA Step == UpdateInv /\ [Next]_vars => UpdateInv'
<1> SUFFICES ASSUME UpdateInv, [Next]_vars PROVE UpdateInv'
    OBVIOUS
<1>1. CASE Next
    BY <1>1, UpgradeOK, DownloadOK, OpenOK, CopyOK, EndOK DEF Next
<1>2. CASE UNCHANGED vars
    BY <1>2 DEF vars, names, UpdateInv, TypeOK
<1> QED BY <1>1, <1>2

LEMMA UpdateCorrect == Spec => []UpdateInv
BY InitOK, Step, PTL DEF Spec

(* The staged copy never grows past a binary, and every upgrade is where   *)
(* the code can be, however many overlap and whatever they truncate.       *)
THEOREM TypeCorrect == Spec => []TypeOK
<1>1. UpdateInv => TypeOK
    BY DEF UpdateInv
<1> QED BY <1>1, UpdateCorrect, PTL

(* Though upgrades write each other's staged copies and install what       *)
(* another is writing, no byte that was not verified is ever installed.    *)
THEOREM VerifiedCorrect == Spec => []OnlyVerified
<1>1. UpdateInv => OnlyVerified
    BY DEF UpdateInv, TypeOK, OnlyVerified, Holds
<1> QED BY <1>1, UpdateCorrect, PTL
-----------------------------------------------------------------------------
(* The swap.  Until two upgrades overlap at most one is busy, and what is  *)
(* staged is as far as that one has copied; nothing else is ever renamed.  *)
Before(q) == q.at \in {"get", "verify", "extract", "open"}

StagedOK(q, i, text) ==
    /\ q.at = "copy" => i # None /\ q.fd = i
                        /\ text[i] = (IF q.half = 1 THEN <<>> ELSE <<q.version>>)
    /\ q.at = "rename" => i # None /\ text[i] = Whole(q.version)

OneBusy == \A p, q \in Procs : proc[p] # Idle /\ proc[q] # Idle => p = q

Alone == "overlap" \notin events

SwapInv ==
    /\ target # None /\ (staged # None => staged # target)
    /\ \A p \in Procs : Before(proc[p]) => proc[p].half = 1
    /\ Alone => /\ OneBusy
                /\ Runnable
                /\ \A p \in Procs : StagedOK(proc[p], staged, disk)

(* Healing.  While no upgrade is killed or runs out of disk, every part of *)
(* the binary, and of the staged copy, is what it should be or will still  *)
(* be written, by an upgrade to the same version that has the file open.   *)
Copying(q, i) == q.at = "copy" /\ q.fd = i

Healing(text, i, v, procs) ==
    \A k \in 1..2 :
        \/ k \in DOMAIN text /\ text[k] = v
        \/ \E p \in Procs : Copying(procs[p], i) /\ procs[p].half <= k

SameVersion == \A p, q \in Procs : proc[p] # Idle /\ proc[q] # Idle => proc[p].version = proc[q].version

TargetHeals ==
    \E v \in Versions :
        /\ Healing(disk[target], target, v, proc)
        /\ \A p \in Procs : Copying(proc[p], target) => proc[p].version = v

StagedHeals ==
    staged # None =>
        \E p \in Procs : /\ proc[p].at \in {"copy", "rename", "remove"}
                         /\ Healing(disk[staged], staged, proc[p].version, proc)

HealInv == events \subseteq {"overlap"} => SameVersion /\ TargetHeals /\ StagedHeals

InstallInv == UpdateInv /\ SwapInv /\ HealInv

-----------------------------------------------------------------------------
LEMMA BusyFacts ==
    ASSUME InstallInv, NEW p \in Procs, proc[p].at # "idle"
    PROVE  /\ proc[p] \in Busy /\ proc[p] # Idle /\ ArchiveOK(proc[p])
           /\ Alone => /\ \A r \in Procs \ {p} : proc[r] = Idle
                       /\ StagedOK(proc[p], staged, disk)
BY DEF InstallInv, UpdateInv, TypeOK, SwapInv, OneBusy, Idle

LEMMA BecomeFacts ==
    ASSUME InstallInv, NEW p \in Procs, NEW q, Become(p, q)
    PROVE  proc'[p] = q /\ \A r \in Procs \ {p} : proc'[r] = proc[r]
BY DEF InstallInv, UpdateInv, TypeOK, Become

LEMMA InstallInit == Init => SwapInv /\ HealInv
<1> SUFFICES ASSUME Init PROVE SwapInv /\ HealInv
    OBVIOUS
<1>1. PICK i \in Inodes, v \in Versions :
          target = i /\ disk = [j \in Inodes |-> IF j = i THEN Whole(v) ELSE <<>>]
    BY DEF Init
<1>2. target \in Inodes /\ disk[target] = Whole(v) /\ staged = None /\ target # None
    BY <1>1, DistinctAssumption DEF Init
<1>3. \A p \in Procs : proc[p] = Idle /\ proc[p].at = "idle"
    BY DEF Init, Idle
<1>4. SwapInv
    BY <1>2, <1>3 DEF SwapInv, Before, OneBusy, Runnable, StagedOK
<1>5. \A k \in 1..2 : k \in DOMAIN Whole(v) /\ Whole(v)[k] = v
    BY DEF Whole
<1>6. TargetHeals
    BY <1>2, <1>3, <1>5 DEF TargetHeals, Healing, Copying
<1> QED BY <1>2, <1>3, <1>4, <1>6 DEF HealInv, SameVersion, StagedHeals

(* Steps outside the copy, which leave the files and their names alone.    *)
LEMMA KeepStep ==
    ASSUME InstallInv, NEW p \in Procs, NEW q, Become(p, q),
           UNCHANGED <<disk, names, events>>, proc[p] # Idle, proc[p].at # "copy",
           q # Idle => q.version = proc[p].version,
           q.at \notin {"copy", "rename"}, Before(q) => q.half = 1,
           proc[p].at \in {"rename", "remove"} => q.at = "remove"
    PROVE  SwapInv' /\ HealInv'
<1> USE DEF InstallInv
<1>1. proc'[p] = q /\ \A r \in Procs \ {p} : proc'[r] = proc[r]
    BY BecomeFacts
<1>2. UNCHANGED <<disk, target, staged, events>> /\ Alone' = Alone
    BY DEF names, Alone
<1>3. SwapInv'
    <2>1. Alone => OneBusy'
        BY <1>1 DEF SwapInv, OneBusy
    <2>2. Alone => \A r \in Procs : StagedOK(proc'[r], staged, disk)
        BY <1>1 DEF SwapInv, StagedOK
    <2>3. \A r \in Procs : Before(proc'[r]) => proc'[r].half = 1
        BY <1>1 DEF SwapInv
    <2> QED BY <1>2, <2>1, <2>2, <2>3 DEF SwapInv, Runnable
<1>4. HealInv'
    <2> SUFFICES ASSUME events \subseteq {"overlap"} PROVE (SameVersion /\ TargetHeals /\ StagedHeals)'
        BY <1>2 DEF HealInv
    <2>1. \A i : \A r \in Procs : Copying(proc'[r], i) <=> Copying(proc[r], i)
        BY <1>1 DEF Copying
    <2>2. \A i : \A r \in Procs : Copying(proc[r], i) => proc'[r] = proc[r]
        BY <1>1 DEF Copying
    <2>3. \A text, i, v : Healing(text, i, v, proc) => Healing(text, i, v, proc')
        BY <2>1, <2>2 DEF Healing
    <2>4. SameVersion'
        BY <1>1 DEF HealInv, SameVersion
    <2>5. TargetHeals'
        BY <1>2, <2>1, <2>2, <2>3 DEF HealInv, TargetHeals
    <2>6. StagedHeals'
        <3> SUFFICES ASSUME staged # None
                     PROVE  \E r \in Procs :
                                /\ proc'[r].at \in {"copy", "rename", "remove"}
                                /\ Healing(disk[staged], staged, proc'[r].version, proc')
            BY <1>2 DEF StagedHeals
        <3>1. PICK r \in Procs : /\ proc[r].at \in {"copy", "rename", "remove"}
                                 /\ Healing(disk[staged], staged, proc[r].version, proc)
            BY DEF HealInv, StagedHeals
        <3>2. proc'[r].at \in {"copy", "rename", "remove"} /\ proc'[r].version = proc[r].version
            BY <1>1, <3>1 DEF Idle
        <3> QED BY <2>3, <3>1, <3>2
    <2> QED BY <2>4, <2>5, <2>6
<1> QED BY <1>3, <1>4

LEMMA UpgradeKeeps ==
    ASSUME InstallInv, NEW p \in Procs, NEW v \in Versions, Upgrade(p, v)
    PROVE  SwapInv' /\ HealInv'
<1> USE DEF InstallInv
<1> DEFINE q == [at |-> "get", version |-> v, archive |-> None, half |-> 1, fd |-> None]
<1>1. proc'[p] = q /\ \A r \in Procs \ {p} : proc'[r] = proc[r]
    BY BecomeFacts DEF Upgrade
<1>2. /\ UNCHANGED <<disk, target, staged>> /\ proc[p] = Idle /\ proc[p].at = "idle"
      /\ events \subseteq events'
      /\ Alone' => Alone /\ \A r \in Procs : proc[r] = Idle
      /\ "mixed" \notin events' => \A r \in Procs \ {p} : proc[r] = Idle \/ proc[r].version = v
    BY DEF Upgrade, names, Alone, Others, Idle
<1>3. q # Idle /\ q.at = "get" /\ q.half = 1 /\ q.version = v
    BY DEF Idle
<1> HIDE DEF q
<1>4. SwapInv'
    <2>1. Alone' => OneBusy'
        BY <1>1, <1>2 DEF OneBusy
    <2>2. Alone' => \A r \in Procs : StagedOK(proc'[r], staged, disk)
        BY <1>1, <1>2, <1>3 DEF SwapInv, StagedOK
    <2>3. \A r \in Procs : Before(proc'[r]) => proc'[r].half = 1
        BY <1>1, <1>3 DEF SwapInv
    <2> QED BY <1>2, <2>1, <2>2, <2>3 DEF SwapInv, Runnable
<1>5. HealInv'
    <2> SUFFICES ASSUME events' \subseteq {"overlap"}
                 PROVE  (SameVersion /\ TargetHeals /\ StagedHeals)'
        BY DEF HealInv
    <2>1. SameVersion /\ TargetHeals /\ StagedHeals
        BY <1>2 DEF HealInv
    <2>2. \A i : \A r \in Procs : Copying(proc'[r], i) <=> Copying(proc[r], i)
        BY <1>1, <1>2, <1>3 DEF Copying
    <2>3. \A i : \A r \in Procs : Copying(proc[r], i) => proc'[r] = proc[r]
        BY <1>1, <1>2 DEF Copying
    <2>4. \A text, i, w : Healing(text, i, w, proc) => Healing(text, i, w, proc')
        BY <2>2, <2>3 DEF Healing
    <2>5. SameVersion'
        BY <1>1, <1>2, <1>3, <2>1 DEF SameVersion
    <2>6. TargetHeals'
        BY <1>2, <2>1, <2>2, <2>3, <2>4 DEF TargetHeals
    <2>7. \A r \in Procs : proc[r].at \in {"copy", "rename", "remove"} => proc'[r] = proc[r]
        BY <1>1, <1>2
    <2>8. StagedHeals'
        BY <1>2, <2>1, <2>4, <2>7 DEF StagedHeals
    <2> QED BY <2>5, <2>6, <2>8
<1> QED BY <1>4, <1>5

LEMMA DownloadKeeps ==
    ASSUME InstallInv, NEW p \in Procs,
           Get(p) \/ Verify(p) \/ Extract(p) \/ Fail(p) \/ RenameFails(p)
    PROVE  SwapInv' /\ HealInv'
<1> USE DEF InstallInv
<1>1. /\ proc[p] \in Busy /\ proc[p] # Idle /\ UNCHANGED <<disk, names, events>>
      /\ \/ Before(proc[p]) /\ ~RenameFails(p)
         \/ proc[p].at = "rename" /\ RenameFails(p)
    BY BusyFacts DEF Get, Verify, Extract, Fail, RenameFails, At, Before
<1>2. CASE RenameFails(p)
    <2>1. PICK q : q = [proc[p] EXCEPT !.at = "remove"]
        OBVIOUS
    <2>2. q.at = "remove" /\ q.version = proc[p].version
        BY <1>1, <2>1 DEF Busy
    <2>3. Become(p, q) /\ proc[p].at = "rename"
        BY <1>2, <2>1 DEF RenameFails, At
    <2> QED BY <1>1, <2>2, <2>3, KeepStep DEF Before
<1>3. CASE Fail(p)
    <2>1. Become(p, Idle) /\ Idle.at = "idle"
        BY <1>3 DEF Fail, Idle
    <2>2. proc[p].at \in {"get", "verify", "extract", "open"}
        BY <1>3 DEF Fail
    <2> QED BY <1>1, <2>1, <2>2, KeepStep DEF Before
<1>4. CASE Get(p) \/ Verify(p) \/ Extract(p)
    <2>1. PICK at \in {"verify", "extract", "open"} :
              \E a : Become(p, [proc[p] EXCEPT !.at = at, !.archive = a])
        <3>1. CASE Get(p)
            BY <3>1 DEF Get
        <3>2. CASE Verify(p)
            <4>1. [proc[p] EXCEPT !.at = "extract"]
                      = [proc[p] EXCEPT !.at = "extract", !.archive = proc[p].archive]
                BY <1>1 DEF Busy
            <4> QED BY <3>2, <4>1 DEF Verify
        <3>3. CASE Extract(p)
            <4>1. [proc[p] EXCEPT !.at = "open"]
                      = [proc[p] EXCEPT !.at = "open", !.archive = proc[p].archive]
                BY <1>1 DEF Busy
            <4> QED BY <3>3, <4>1 DEF Extract
        <3> QED BY <1>4, <3>1, <3>2, <3>3
    <2>2. PICK a, q : q = [proc[p] EXCEPT !.at = at, !.archive = a] /\ Become(p, q)
        BY <2>1
    <2>3. q.at = at /\ q.version = proc[p].version /\ q.half = proc[p].half
        BY <1>1, <2>2 DEF Busy
    <2>4. proc[p].at \in {"get", "verify", "extract"}
        BY <1>4 DEF Get, Verify, Extract, At
    <2>5. proc[p].half = 1
        BY <2>4 DEF SwapInv, Before
    <2> QED BY <1>1, <2>1, <2>2, <2>3, <2>4, <2>5, KeepStep
<1> QED BY <1>2, <1>3, <1>4

-----------------------------------------------------------------------------
(* A staged copy that is truncated will be written by who truncated it.    *)
LEMMA OpenKeeps ==
    ASSUME InstallInv, NEW p \in Procs, Open(p)
    PROVE  SwapInv' /\ HealInv'
<1> USE DEF InstallInv
<1>1. /\ proc[p] \in Busy /\ proc[p] # Idle /\ proc[p].at = "open" /\ proc[p].half = 1
      /\ Alone => \A r \in Procs \ {p} : proc[r] = Idle
    BY BusyFacts DEF Open, At, SwapInv, Before
<1>2. PICK i \in Inodes : /\ IF staged = None THEN i \notin InUse ELSE i = staged
                          /\ disk' = [disk EXCEPT ![i] = <<>>] /\ staged' = i
                          /\ Become(p, [proc[p] EXCEPT !.at = "copy", !.fd = i])
    BY DEF Open, Stage
<1>3. PICK q : q = [proc[p] EXCEPT !.at = "copy", !.fd = i]
    OBVIOUS
<1>4. q.at = "copy" /\ q.fd = i /\ q.half = 1 /\ q.version = proc[p].version /\ q # Idle
    BY <1>1, <1>3 DEF Busy, Idle
<1>5. /\ proc'[p] = q /\ \A r \in Procs \ {p} : proc'[r] = proc[r]
      /\ disk'[i] = <<>> /\ \A j \in Inodes \ {i} : disk'[j] = disk[j]
      /\ UNCHANGED <<target, events>> /\ Alone' = Alone
    BY <1>2, <1>3, BecomeFacts DEF Open, UpdateInv, TypeOK, Alone
<1>6. i # target /\ i # None /\ target \in Inodes
    BY <1>2, DistinctAssumption DEF InUse, SwapInv, UpdateInv, TypeOK
<1>7. SwapInv'
    <2>1. Alone => OneBusy'
        BY <1>1, <1>5 DEF OneBusy
    <2>2. Alone => \A r \in Procs : StagedOK(proc'[r], staged', disk')
        BY <1>1, <1>2, <1>4, <1>5, <1>6 DEF StagedOK, Idle
    <2>3. \A r \in Procs : Before(proc'[r]) => proc'[r].half = 1
        BY <1>4, <1>5 DEF SwapInv
    <2>4. Alone => Runnable'
        BY <1>5, <1>6 DEF SwapInv, Runnable
    <2> QED BY <1>2, <1>5, <1>6, <2>1, <2>2, <2>3, <2>4 DEF SwapInv
<1>8. HealInv'
    <2> SUFFICES ASSUME events \subseteq {"overlap"} PROVE (SameVersion /\ TargetHeals /\ StagedHeals)'
        BY <1>5 DEF HealInv
    <2>1. SameVersion'
        BY <1>1, <1>4, <1>5 DEF HealInv, SameVersion
    <2>2. \A r \in Procs : Copying(proc[r], target) => r # p /\ proc'[r] = proc[r]
        BY <1>1, <1>5 DEF Copying
    <2>3. \A r \in Procs : Copying(proc'[r], target) => Copying(proc[r], target)
        BY <1>4, <1>5, <1>6 DEF Copying
    <2>4. TargetHeals'
        <3>1. PICK v \in Versions :
                  /\ Healing(disk[target], target, v, proc)
                  /\ \A r \in Procs : Copying(proc[r], target) => proc[r].version = v
            BY DEF HealInv, TargetHeals
        <3>2. Healing(disk'[target], target, v, proc')
            BY <1>5, <1>6, <2>2, <3>1 DEF Healing
        <3>3. \A r \in Procs : Copying(proc'[r], target) => proc'[r].version = v
            BY <2>2, <2>3, <3>1
        <3> QED BY <1>5, <3>2, <3>3 DEF TargetHeals
    <2>5. Healing(disk'[i], i, proc'[p].version, proc')
        BY <1>4, <1>5 DEF Healing, Copying
    <2> QED BY <1>2, <1>4, <1>5, <2>1, <2>4, <2>5 DEF StagedHeals
<1> QED BY <1>7, <1>8

(* One part is written, by a process that then no longer owes it.          *)
LEMMA WrittenHeals ==
    ASSUME NEW text \in Texts, NEW k \in 1..2, NEW i, NEW v,
           NEW before, NEW after, NEW p \in Procs,
           Healing(text, i, v, before),
           \A r \in Procs \ {p} : after[r] = before[r],
           Copying(before[p], i), before[p].half = k,
           k = 1 => Copying(after[p], i) /\ after[p].half = 2
    PROVE  Healing(Written(text, k, v), i, v, after)
<1> SUFFICES ASSUME NEW j \in 1..2
             PROVE  \/ j \in DOMAIN Written(text, k, v) /\ Written(text, k, v)[j] = v
                    \/ \E r \in Procs : Copying(after[r], i) /\ after[r].half <= j
    BY DEF Healing
<1>1. DOMAIN Written(text, k, v) = DOMAIN text \cup 1..k
    BY DEF Written
<1>2. CASE j = k
    BY <1>1, <1>2 DEF Written
<1>3. CASE j # k /\ j \in DOMAIN text /\ text[j] = v
    BY <1>1, <1>3 DEF Written
<1>4. CASE j # k /\ \E r \in Procs : Copying(before[r], i) /\ before[r].half <= j
    <2>1. PICK r \in Procs : Copying(before[r], i) /\ before[r].half <= j
        BY <1>4
    <2>2. CASE r # p
        BY <2>1, <2>2
    <2>3. CASE r = p
        <3>1. k = 1 /\ j = 2
            BY <1>4, <2>1, <2>3
        <3> QED BY <3>1
    <2> QED BY <2>2, <2>3
<1> QED BY <1>2, <1>3, <1>4 DEF Healing

LEMMA CopyKeeps ==
    ASSUME InstallInv, NEW p \in Procs, Copy(p)
    PROVE  SwapInv' /\ HealInv'
<1> USE DEF InstallInv
<1>1. /\ proc[p] \in Busy /\ proc[p] # Idle /\ proc[p].at = "copy"
      /\ proc[p].archive = proc[p].version
      /\ Alone => /\ \A r \in Procs \ {p} : proc[r] = Idle
                  /\ StagedOK(proc[p], staged, disk)
    BY BusyFacts DEF Copy, At, ArchiveOK
<1>2. PICK i \in Inodes : i = proc[p].fd
    BY <1>1 DEF UpdateInv, ArchiveOK
<1>3. PICK k \in 1..2 : k = proc[p].half
    BY <1>1 DEF Busy
<1>4. PICK v \in Versions : v = proc[p].version
    BY <1>1 DEF Busy
<1>5. PICK q : q = IF k = 1 THEN [proc[p] EXCEPT !.half = 2]
                   ELSE [proc[p] EXCEPT !.at = "rename", !.fd = None]
    OBVIOUS
<1>6. /\ q.version = v /\ q # Idle
      /\ k = 1 => q.at = "copy" /\ q.half = 2 /\ q.fd = i
      /\ k # 1 => q.at = "rename"
    <2>1. CASE k = 1
        BY <1>1, <1>2, <1>4, <1>5, <2>1 DEF Busy, Idle
    <2>2. CASE k # 1
        BY <1>1, <1>4, <1>5, <2>2 DEF Busy, Idle
    <2> QED BY <2>1, <2>2
<1>7. PICK text : text = Written(disk[i], k, v)
    OBVIOUS
<1>8. Become(p, q) /\ disk' = [disk EXCEPT ![i] = text]
    BY <1>1, <1>2, <1>3, <1>4, <1>5, <1>7 DEF Copy
<1>9. /\ proc'[p] = q /\ \A r \in Procs \ {p} : proc'[r] = proc[r]
      /\ disk'[i] = text /\ \A j \in Inodes \ {i} : disk'[j] = disk[j]
      /\ UNCHANGED <<target, staged, events>> /\ Alone' = Alone
    BY <1>8, BecomeFacts DEF Copy, names, UpdateInv, TypeOK, Alone
<1>10. SwapInv'
    <2>1. Alone => OneBusy'
        BY <1>1, <1>9 DEF OneBusy
    <2>2. Alone => i = staged /\ i # target /\ staged # None
        BY <1>1, <1>2 DEF StagedOK, SwapInv
    <2>3. Alone => StagedOK(q, staged, disk')
        <3>1. CASE k = 1
            <4>1. Alone => disk[i] = <<>>
                BY <1>1, <1>3, <2>2, <3>1 DEF StagedOK
            <4>2. Written(<<>>, 1, v) = <<v>>
                BY DEF Written
            <4> QED BY <1>6, <1>7, <1>9, <2>2, <3>1, <4>1, <4>2 DEF StagedOK
        <3>2. CASE k = 2
            <4>1. Alone => disk[i] = <<v>>
                BY <1>1, <1>3, <1>4, <2>2, <3>2 DEF StagedOK
            <4>2. Written(<<v>>, 2, v) = <<v, v>>
                BY DEF Written
            <4> QED BY <1>6, <1>7, <1>9, <2>2, <3>2, <4>1, <4>2 DEF StagedOK, Whole
        <3> QED BY <3>1, <3>2
    <2>4. Alone => \A r \in Procs : StagedOK(proc'[r], staged, disk')
        BY <1>1, <1>9, <2>3 DEF StagedOK, Idle
    <2>5. \A r \in Procs : Before(proc'[r]) => proc'[r].half = 1
        BY <1>6, <1>9 DEF SwapInv, Before
    <2>6. Alone => Runnable'
        BY <1>9, <2>2 DEF SwapInv, Runnable, UpdateInv, TypeOK
    <2> QED BY <1>9, <2>1, <2>4, <2>5, <2>6 DEF SwapInv
<1>11. HealInv'
    <2> SUFFICES ASSUME events \subseteq {"overlap"} PROVE (SameVersion /\ TargetHeals /\ StagedHeals)'
        BY <1>9 DEF HealInv
    <2>1. SameVersion'
        BY <1>1, <1>4, <1>6, <1>9 DEF HealInv, SameVersion
    <2>2. \A j : \A r \in Procs : Copying(proc'[r], j) => Copying(proc[r], j) /\ proc'[r].version = proc[r].version
        BY <1>1, <1>2, <1>4, <1>6, <1>9 DEF Copying
    <2>3. ASSUME NEW j \in Inodes, Healing(disk[j], j, v, proc)
          PROVE  Healing(disk'[j], j, v, proc')
        <3>1. CASE j = i
            <4>1. disk[i] \in Texts
                BY DEF UpdateInv, TypeOK
            <4>2. Copying(proc[p], i) /\ (k = 1 => Copying(proc'[p], i) /\ proc'[p].half = 2)
                BY <1>1, <1>2, <1>6, <1>9 DEF Copying
            <4>3. Healing(Written(disk[i], k, v), i, v, proc')
                BY <1>3, <1>9, <2>3, <3>1, <4>1, <4>2, WrittenHeals
            <4> QED BY <1>7, <1>9, <3>1, <4>3
        <3>2. CASE j # i
            <4>1. ~Copying(proc[p], j)
                BY <1>2, <3>2 DEF Copying
            <4> QED BY <1>9, <2>3, <3>2, <4>1 DEF Healing
        <3> QED BY <3>1, <3>2
    <2>4. ASSUME NEW j \in Inodes, NEW w, j # i, Healing(disk[j], j, w, proc)
          PROVE  Healing(disk'[j], j, w, proc')
        <3>1. ~Copying(proc[p], j)
            BY <1>2, <2>4 DEF Copying
        <3> QED BY <1>9, <2>4, <3>1 DEF Healing
    <2>5. TargetHeals'
        <3>1. PICK w \in Versions :
                  /\ Healing(disk[target], target, w, proc)
                  /\ \A r \in Procs : Copying(proc[r], target) => proc[r].version = w
            BY DEF HealInv, TargetHeals
        <3>2. target \in Inodes
            BY DEF UpdateInv, TypeOK, SwapInv
        <3>3. target = i => w = v
            BY <1>1, <1>2, <1>4, <3>1 DEF Copying
        <3>4. Healing(disk'[target], target, w, proc')
            BY <2>3, <2>4, <3>1, <3>2, <3>3
        <3>5. \A r \in Procs : Copying(proc'[r], target) => proc'[r].version = w
            BY <2>2, <3>1
        <3> QED BY <1>9, <3>4, <3>5 DEF TargetHeals
    <2>6. StagedHeals'
        <3> SUFFICES ASSUME staged # None
                     PROVE  \E r \in Procs :
                                /\ proc'[r].at \in {"copy", "rename", "remove"}
                                /\ Healing(disk'[staged], staged, proc'[r].version, proc')
            BY <1>9 DEF StagedHeals
        <3>1. PICK r \in Procs : /\ proc[r].at \in {"copy", "rename", "remove"}
                                 /\ Healing(disk[staged], staged, proc[r].version, proc)
            BY DEF HealInv, StagedHeals
        <3>2. proc[r].version = v
            BY <1>1, <1>4, <3>1 DEF HealInv, SameVersion, Idle
        <3>3. staged \in Inodes
            BY DEF UpdateInv, TypeOK
        <3>4. Healing(disk'[staged], staged, v, proc')
            BY <2>3, <3>1, <3>2, <3>3
        <3>5. proc'[p].at \in {"copy", "rename", "remove"} /\ proc'[p].version = v
            BY <1>3, <1>6, <1>9
        <3> QED BY <3>4, <3>5
    <2> QED BY <2>1, <2>5, <2>6
<1> QED BY <1>10, <1>11

LEMMA RenameKeeps ==
    ASSUME InstallInv, NEW p \in Procs, Rename(p)
    PROVE  SwapInv' /\ HealInv'
<1> USE DEF InstallInv
<1>1. /\ proc[p] \in Busy /\ proc[p] # Idle /\ proc[p].at = "rename"
      /\ Alone => /\ \A r \in Procs \ {p} : proc[r] = Idle
                  /\ StagedOK(proc[p], staged, disk)
    BY BusyFacts DEF Rename, At
<1>2. /\ staged \in Inodes /\ staged # None /\ staged # target
      /\ target' = staged /\ staged' = None
      /\ disk' = [i \in Inodes |-> IF i = target THEN <<>> ELSE disk[i]]
    BY DEF Rename, SwapInv, UpdateInv, TypeOK
<1>3. disk'[target'] = disk[staged]
    BY <1>2
<1>4. /\ proc'[p] = Idle /\ \A r \in Procs \ {p} : proc'[r] = proc[r]
      /\ events' = events /\ Alone' = Alone /\ Idle.at = "idle"
    BY BecomeFacts DEF Rename, Alone, Idle
<1>5. SwapInv'
    <2>1. Alone => OneBusy'
        BY <1>1, <1>4 DEF OneBusy
    <2>2. Alone => \A r \in Procs : StagedOK(proc'[r], staged', disk')
        BY <1>1, <1>4 DEF StagedOK
    <2>3. \A r \in Procs : Before(proc'[r]) => proc'[r].half = 1
        BY <1>4 DEF SwapInv, Before
    <2>4. Alone => Runnable'
        <3>1. Alone => disk[staged] = Whole(proc[p].version) /\ proc[p].version \in Versions
            BY <1>1 DEF StagedOK, Busy
        <3> QED BY <1>2, <1>3, <3>1 DEF Runnable
    <2> QED BY <1>2, <1>4, <2>1, <2>2, <2>3, <2>4 DEF SwapInv
<1>6. HealInv'
    <2> SUFFICES ASSUME events \subseteq {"overlap"} PROVE (SameVersion /\ TargetHeals /\ StagedHeals)'
        BY <1>4 DEF HealInv
    <2>1. SameVersion'
        BY <1>4 DEF HealInv, SameVersion
    <2>2. StagedHeals'
        BY <1>2 DEF StagedHeals
    <2>3. PICK r \in Procs : /\ proc[r].at \in {"copy", "rename", "remove"}
                             /\ Healing(disk[staged], staged, proc[r].version, proc)
        BY <1>2 DEF HealInv, StagedHeals
    <2>4. PICK v \in Versions : v = proc[p].version
        BY <1>1 DEF Busy
    <2>5. \A s \in Procs : proc[s] # Idle => proc[s].version = v
        BY <1>1, <2>4 DEF HealInv, SameVersion
    <2>6. \A i : \A s \in Procs : Copying(proc[s], i) => proc'[s] = proc[s] /\ proc[s] # Idle
        BY <1>1, <1>4 DEF Copying
    <2>7. \A i : \A s \in Procs : Copying(proc'[s], i) => Copying(proc[s], i) /\ proc'[s] = proc[s]
        BY <1>4 DEF Copying
    <2>8. Healing(disk[staged], staged, v, proc)
        BY <1>4, <2>3, <2>5
    <2>9. Healing(disk'[target'], target', v, proc')
        BY <1>2, <1>3, <2>6, <2>8 DEF Healing
    <2>10. \A s \in Procs : Copying(proc'[s], target') => proc'[s].version = v
        BY <2>5, <2>6, <2>7
    <2>11. TargetHeals'
        BY <2>9, <2>10 DEF TargetHeals
    <2> QED BY <2>1, <2>2, <2>11
<1> QED BY <1>5, <1>6

LEMMA RemoveKeeps ==
    ASSUME InstallInv, NEW p \in Procs, Remove(p)
    PROVE  SwapInv' /\ HealInv'
<1> USE DEF InstallInv
<1>1. /\ proc[p] # Idle /\ proc[p].at = "remove"
      /\ Alone => \A r \in Procs \ {p} : proc[r] = Idle
    BY BusyFacts DEF Remove, At
<1>2. UNCHANGED <<disk, target, events>> /\ staged' = None /\ Alone' = Alone
    BY DEF Remove, RemovesStaged, Alone
<1>3. /\ proc'[p] = Idle /\ \A r \in Procs \ {p} : proc'[r] = proc[r] /\ Idle.at = "idle"
    BY BecomeFacts DEF Remove, Idle
<1>4. SwapInv'
    <2>1. Alone => OneBusy'
        BY <1>1, <1>3 DEF OneBusy
    <2>2. Alone => \A r \in Procs : StagedOK(proc'[r], staged', disk')
        BY <1>1, <1>3 DEF StagedOK, Idle
    <2>3. \A r \in Procs : Before(proc'[r]) => proc'[r].half = 1
        BY <1>3 DEF SwapInv, Before, Idle
    <2> QED BY <1>2, <2>1, <2>2, <2>3 DEF SwapInv, Runnable
<1>5. HealInv'
    <2> SUFFICES ASSUME events \subseteq {"overlap"} PROVE (SameVersion /\ TargetHeals /\ StagedHeals)'
        BY <1>2 DEF HealInv
    <2>1. SameVersion'
        BY <1>3 DEF HealInv, SameVersion
    <2>2. \A s \in Procs : Copying(proc'[s], target) <=> Copying(proc[s], target)
        BY <1>1, <1>3 DEF Copying, Idle
    <2>3. \A s \in Procs : Copying(proc[s], target) => proc'[s] = proc[s]
        BY <1>1, <1>3 DEF Copying
    <2>4. TargetHeals'
        BY <1>2, <2>2, <2>3 DEF HealInv, TargetHeals, Healing
    <2> QED BY <1>2, <2>1, <2>4 DEF StagedHeals
<1> QED BY <1>4, <1>5

(* A crash, or a full disk, leaves the binary alone; what is staged is     *)
(* truncated by the next upgrade.                                          *)
LEMMA CrashKeeps ==
    ASSUME InstallInv, NEW p \in Procs, CopyFails(p) \/ Kill(p)
    PROVE  SwapInv' /\ HealInv'
<1> USE DEF InstallInv
<1>1. /\ UNCHANGED <<disk, target, staged>> /\ Alone' = Alone
      /\ ~(events' \subseteq {"overlap"})
    BY DEF CopyFails, Kill, names, Note, Alone
<1>2. /\ proc'[p] = Idle /\ \A r \in Procs \ {p} : proc'[r] = proc[r]
    BY BecomeFacts DEF CopyFails, Kill
<1>3. Alone => OneBusy' /\ \A r \in Procs : StagedOK(proc'[r], staged, disk)
    BY <1>2 DEF SwapInv, OneBusy, StagedOK, Idle
<1>4. \A r \in Procs : Before(proc'[r]) => proc'[r].half = 1
    BY <1>2 DEF SwapInv, Before, Idle
<1> QED BY <1>1, <1>3, <1>4 DEF SwapInv, Runnable, HealInv

LEMMA InstallStep == InstallInv /\ [Next]_vars => InstallInv'
<1> SUFFICES ASSUME InstallInv, [Next]_vars PROVE InstallInv'
    OBVIOUS
<1>1. UpdateInv'
    BY Step DEF InstallInv
<1>2. CASE Next
    <2>1. SwapInv' /\ HealInv'
        BY <1>2, UpgradeKeeps, DownloadKeeps, OpenKeeps, CopyKeeps, RenameKeeps, RemoveKeeps,
           CrashKeeps DEF Next
    <2> QED BY <1>1, <2>1 DEF InstallInv
<1>3. CASE UNCHANGED vars
    <2>1. UNCHANGED <<disk, target, staged, proc, events>>
        BY <1>3 DEF vars, names
    <2> QED
        BY <1>1, <2>1
           DEF InstallInv, SwapInv, OneBusy, Alone, Runnable, HealInv, SameVersion,
               TargetHeals, StagedHeals
<1> QED BY <1>2, <1>3

LEMMA InstallCorrect == Spec => []InstallInv
<1>1. Init => InstallInv
    BY InitOK, InstallInit DEF InstallInv
<1> QED BY <1>1, InstallStep, PTL DEF Spec

(* While upgrades do not overlap the binary is at every moment one whole   *)
(* release, wherever an upgrade fails or dies and whatever is left staged. *)
THEOREM RunnableCorrect == Spec => []AlwaysRunnable
<1>1. InstallInv => AlwaysRunnable
    BY DEF InstallInv, SwapInv, Alone, AlwaysRunnable
<1> QED BY <1>1, InstallCorrect, PTL

(* Overlapping upgrades to one version, none of which is killed or runs    *)
(* out of disk, leave a whole binary when the last of them has ended.      *)
THEOREM HealCorrect == Spec => []OverlapHeals
<1>1. InstallInv => OverlapHeals
    <2> SUFFICES ASSUME InstallInv, events \subseteq {"overlap"}, \A p \in Procs : proc[p] = Idle
                 PROVE  Runnable
        BY DEF OverlapHeals
    <2>1. PICK v \in Versions : Healing(disk[target], target, v, proc)
        BY DEF InstallInv, HealInv, TargetHeals
    <2>2. \A p \in Procs : ~Copying(proc[p], target)
        BY DEF Copying, Idle
    <2>3. /\ 1 \in DOMAIN disk[target] /\ disk[target][1] = v
          /\ 2 \in DOMAIN disk[target] /\ disk[target][2] = v
        BY <2>1, <2>2 DEF Healing
    <2>4. target \in Inodes /\ disk[target] \in Texts
        BY DEF InstallInv, UpdateInv, TypeOK, SwapInv
    <2>5. disk[target] = Whole(v)
        <3>1. PICK n \in 0..2 : disk[target] \in [1..n -> Bytes]
            BY <2>4 DEF Texts
        <3>2. n = 2
            BY <2>3, <3>1
        <3> QED BY <2>3, <3>1, <3>2 DEF Whole
    <2> QED BY <2>4, <2>5, DistinctAssumption DEF Runnable
<1> QED BY <1>1, InstallCorrect, PTL
=============================================================================
