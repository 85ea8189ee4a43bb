----------------------------- MODULE SelfUpdate -----------------------------
(***************************************************************************)
(* qw upgrade (internal/selfupdate, internal/cli/upgrade.go): a release is *)
(* downloaded to a directory of its own, verified and extracted, then      *)
(* copied to .qw-upgrade-staged beside the running binary and renamed over *)
(* it.  Upgrades may overlap, any of them may be killed, and all of them   *)
(* use one name for the staged copy.                                       *)
(*                                                                         *)
(* Archives are not told apart from the binaries in them.  A binary is     *)
(* copied in two halves, and all are taken to be equally long.  Operators  *)
(* called Fault... are seeded bugs, no part of the specification.          *)
(***************************************************************************)
EXTENDS Naturals, Sequences, FiniteSets

CONSTANTS
    Procs,        \* processes of qw upgrade that may run at the same time
    Versions,     \* released versions
    Inodes,       \* enough for the binary and what each process writes
    MaxRuns,      \* bound on the upgrades run
    None, Bad,    \* Bad: bytes that are no release
    Gap           \* bytes of a file that were skipped

ASSUME InodesAssumption ==
    IsFiniteSet(Procs) /\ IsFiniteSet(Inodes) /\ Cardinality(Inodes) > Cardinality(Procs)
ASSUME RunsAssumption == MaxRuns \in Nat
ASSUME DistinctAssumption ==
    None \notin Versions \cup Inodes \cup {Bad} /\ Bad \notin Versions /\ Gap \notin Versions \cup {Bad}

VARIABLES
    disk,         \* what each inode holds
    target,       \* the inode of the binary
    staged,       \* the inode of .qw-upgrade-staged, or None
    proc,         \* what each process is doing
    runs,         \* how many upgrades there have been
    events        \* history: what has happened that can do harm

vars == <<disk, target, staged, proc, runs, events>>
names == <<target, staged>>

Bytes == Versions \cup {Bad, Gap}
Whole(b) == <<b, b>>
Texts == UNION {[1..n -> Bytes] : n \in 0..2}

Idle == [at |-> "idle"]
Busy == [at : {"get", "verify", "extract", "open", "copy", "rename", "remove"},
         version : Versions,
         archive : Versions \cup {Bad, None},     \* what was downloaded
         half : 1..2,                             \* what is copied next
         fd : Inodes \cup {None}]

TypeOK ==
    /\ disk \in [Inodes -> Texts]
    /\ target \in Inodes \cup {None} /\ staged \in Inodes \cup {None}
    /\ proc \in [Procs -> Busy \cup {Idle}]
    /\ runs \in 0..MaxRuns
    /\ events \subseteq {"overlap", "killed", "full", "mixed"}

Init ==
    /\ \E i \in Inodes, v \in Versions :
        /\ target = i
        /\ disk = [j \in Inodes |-> IF j = i THEN Whole(v) ELSE <<>>]
    /\ staged = None
    /\ proc = [p \in Procs |-> Idle]
    /\ runs = 0 /\ events = {}

Note(what, occurs) == events' = IF occurs THEN events \cup {what} ELSE events

At(p, where) == proc[p].at = where
Become(p, q) == proc' = [proc EXCEPT ![p] = q]
Others(p) == {proc[q] : q \in Procs \ {p}} \ {Idle}

-----------------------------------------------------------------------------
(* upgrade: the version asked for is not the one that runs.                *)
Upgrade(p, v) ==
    /\ proc[p] = Idle /\ runs < MaxRuns
    /\ target # None
    /\ \E own \in Versions \ {v} : disk[target] = Whole(own)
    /\ Become(p, [at |-> "get", version |-> v, archive |-> None, half |-> 1, fd |-> None])
    /\ runs' = runs + 1
    /\ events' = events \cup {e \in {"overlap", "mixed"} :
                     \E q \in Others(p) : e = "overlap" \/ q.version # v}
    /\ UNCHANGED <<disk, names>>

(* The asset: the release or, in any way damaged, something else.          *)
Get(p) ==
    /\ At(p, "get")
    /\ \E a \in {proc[p].version, Bad} :
        Become(p, [proc[p] EXCEPT !.at = "verify", !.archive = a])
    /\ UNCHANGED <<disk, names, runs, events>>

(* checksums.txt has an entry for the asset, or None.                      *)
FaultFailOpen(archive, entry) == entry = None \/ archive = entry
Verified(archive, entry) == archive = entry

Verify(p) ==
    /\ At(p, "verify")
    /\ \E entry \in {proc[p].version, None} :
        /\ Verified(proc[p].archive, entry)
        /\ Become(p, [proc[p] EXCEPT !.at = "extract"])
    /\ UNCHANGED <<disk, names, runs, events>>

Extract(p) ==
    /\ At(p, "extract")
    /\ Become(p, [proc[p] EXCEPT !.at = "open"])
    /\ UNCHANGED <<disk, names, runs, events>>

(* A request, the verification or the extraction fails, or the staged copy *)
(* cannot be opened.  The directory of its own is removed.                 *)
Fail(p) ==
    /\ proc[p].at \in {"get", "verify", "extract", "open"}
    /\ Become(p, Idle)
    /\ UNCHANGED <<disk, names, runs, events>>

-----------------------------------------------------------------------------
(* copyFile: os.OpenFile creates or truncates the staged copy.             *)
FaultInPlace == target
Stage == staged

InUse == {target, staged} \cup {proc[p].fd : p \in {q \in Procs : proc[q] # Idle}}

Open(p) ==
    /\ At(p, "open")
    /\ \E i \in Inodes :
        /\ IF Stage = None THEN i \notin InUse ELSE i = Stage
        /\ disk' = [disk EXCEPT ![i] = <<>>]
        /\ staged' = i
        /\ Become(p, [proc[p] EXCEPT !.at = "copy", !.fd = i])
    /\ UNCHANGED <<target, runs, events>>

(* Each process writes at an offset of its own: over what another has      *)
(* written there, or past the end of what another has truncated.           *)
FaultAppend(text, k, b) == Append(text, b)
Written(text, k, b) ==
    [i \in DOMAIN text \cup 1..k |->
        IF i = k THEN b ELSE IF i \in DOMAIN text THEN text[i] ELSE Gap]

Copy(p) ==
    LET q == proc[p] IN
    /\ At(p, "copy")
    /\ disk' = [disk EXCEPT ![q.fd] = Written(@, q.half, q.archive)]
    /\ Become(p, IF q.half = 1 THEN [q EXCEPT !.half = 2]
                 ELSE [q EXCEPT !.at = "rename", !.fd = None])
    /\ UNCHANGED <<names, runs, events>>

(* The disk is full: the staged copy stays as it is.                       *)
CopyFails(p) ==
    /\ At(p, "copy")
    /\ Become(p, Idle)
    /\ Note("full", TRUE)
    /\ UNCHANGED <<disk, names, runs>>

(* Rename moves whatever file has the name.                                *)
Rename(p) ==
    /\ At(p, "rename") /\ staged # None
    /\ target' = staged /\ staged' = None
    /\ disk' = [i \in Inodes |-> IF i = target THEN <<>> ELSE disk[i]]
    /\ Become(p, Idle)
    /\ UNCHANGED <<runs, events>>

(* It fails for want of permission, or if another upgrade was faster; what *)
(* has the name by then is removed.                                        *)
RenameFails(p) ==
    /\ At(p, "rename")
    /\ Become(p, [proc[p] EXCEPT !.at = "remove"])
    /\ UNCHANGED <<disk, names, runs, events>>

FaultRemovesTarget == /\ target' = None /\ UNCHANGED staged
RemovesStaged == /\ staged' = None /\ UNCHANGED target

Remove(p) ==
    /\ At(p, "remove")
    /\ RemovesStaged
    /\ Become(p, Idle)
    /\ UNCHANGED <<disk, runs, events>>

Kill(p) ==
    /\ proc[p] # Idle
    /\ Become(p, Idle)
    /\ Note("killed", TRUE)
    /\ UNCHANGED <<disk, names, runs>>

Next ==
    \E p \in Procs :
        \/ \E v \in Versions : Upgrade(p, v)
        \/ Get(p) \/ Verify(p) \/ Extract(p) \/ Fail(p)
        \/ Open(p) \/ Copy(p) \/ CopyFails(p)
        \/ Rename(p) \/ RenameFails(p) \/ Remove(p)
        \/ Kill(p)

Spec == Init /\ [][Next]_vars

-----------------------------------------------------------------------------
Runnable == target # None /\ \E v \in Versions : disk[target] = Whole(v)

(* "atomically swaps target": true of upgrades that do not overlap, where- *)
(* ever they fail or die and whatever an earlier one left behind.          *)
AlwaysRunnable == "overlap" \notin events => Runnable

(* "a self-updater must never replace itself with an unverified binary":   *)
(* nothing that was not verified is installed, however upgrades overlap.   *)
OnlyVerified ==
    target # None => \A k \in DOMAIN disk[target] : disk[target][k] # Bad

(* Upgrades to one version may overlap, and a binary that another is still *)
(* writing may be installed: if none is killed or runs out of disk, the    *)
(* binary is whole again when all of them have ended.                      *)
OverlapHeals ==
    events \subseteq {"overlap"} /\ (\A p \in Procs : proc[p] = Idle) => Runnable
=============================================================================
