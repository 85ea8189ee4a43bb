------------------------- MODULE ContextFile_proofs -------------------------
(***************************************************************************)
(* Theorems about ContextFile for any number of processes and contexts:    *)
(* its type invariant; that the file never names a current context that    *)
(* it does not have, unless a write was cut short and commands overlapped; *)
(* that tokens stay in the context they were issued for, unless two texts  *)
(* were spliced; and, while commands do not overlap, that the file is a    *)
(* register and a login lasts.  None is inductive: what a save writes is   *)
(* the copy a command made steps ago, so the invariants speak of every     *)
(* copy, of what the temporary file holds and of where every token may be. *)
(***************************************************************************)
EXTENDS ContextFile, TLAPS

(* What of the harm done so far the invariants depend on.                  *)
Alone == "overlap" \notin events
Unspliced == "spliced" \notin events
Calm == events = {} /\ cuts = 0
Safe == Alone \/ cuts = 0

(* A step does not undo harm.                                              *)
Onward == (Alone' => Alone) /\ (cuts' = 0 => cuts = 0)

CopyOK(q) ==
    q # Idle => /\ Safe => CurrentOK(q.copy)
                /\ q.at = "again" => Has(q.copy, q.name)
                /\ q.at = "write" => q.fd \in Inodes
                /\ q.first # None => (Safe => CurrentOK(q.first)) /\ Has(q.first, q.name)

CopiesOK == \A p \in Procs : CopyOK(proc[p])

(* Once a write was cut short, what it left may be wrong, but as long as   *)
(* commands do not overlap that is not in config.yaml.                     *)
FilesOK ==
    /\ cuts = 0 => \A i \in Inodes : Whole(disk[i]) => CurrentOK(disk[i])
    /\ Alone /\ path # None => (Whole(disk[path]) => CurrentOK(disk[path]))

FileInv == TypeOK /\ FilesOK /\ CopiesOK

-----------------------------------------------------------------------------
(* What the helpers of the commands return.                                *)
LEMMA EmptyType == EmptyConfig \in Config /\ CurrentOK(EmptyConfig)
BY DEF EmptyConfig, Config, CurrentOK

LEMMA LoadedType ==
    ASSUME TypeOK
    PROVE  /\ Loaded \in Config
           /\ FilesOK /\ Safe => CurrentOK(Loaded)
<1>1. CASE Text \in {Blank, Torn}
  BY <1>1, EmptyType DEF Loaded
<1>2. CASE Text \notin {Blank, Torn}
  <2>1. path \in Inodes /\ Text = disk[path] /\ Loaded = disk[path]
    BY <1>2 DEF TypeOK, Text, Loaded
  <2>2. disk[path] \in Config /\ Whole(disk[path])
    BY <1>2, <2>1 DEF TypeOK, Whole
  <2> QED  BY <2>1, <2>2, NoneAssumption DEF FilesOK, Safe
<1> QED  BY <1>1, <1>2

LEMMA NoAuthType == NoAuth \in Auth
BY DEF NoAuth, Auth

LEMMA UseOK ==
    ASSUME NEW cfg \in Config, NEW n, Has(cfg, n)
    PROVE  /\ [cfg EXCEPT !.current = n] \in Config
           /\ CurrentOK([cfg EXCEPT !.current = n])
BY DEF Config, Has, CurrentOK

LEMMA UpsertOK ==
    ASSUME NEW cfg \in Config, NEW n \in Names, NEW use \in BOOLEAN
    PROVE  LET new == [Upsert(cfg, n) EXCEPT !.current = IF use \/ @ = None THEN n ELSE @]
           IN  new \in Config /\ (CurrentOK(cfg) => CurrentOK(new))
<1> DEFINE new == [Upsert(cfg, n) EXCEPT !.current = IF use \/ @ = None THEN n ELSE @]
<1>1. Upsert(cfg, n) \in Config /\ Upsert(cfg, n).current = cfg.current
  BY NoAuthType DEF Upsert, Config, Has
<1>2. \A m \in Names : Has(cfg, m) \/ m = n => Has(Upsert(cfg, n), m)
  BY NoAuthType, AbsentAssumption DEF Upsert, Config, Has
<1>3. /\ new \in Config /\ new.contexts = Upsert(cfg, n).contexts
      /\ new.current = n \/ (new.current = cfg.current /\ cfg.current # None)
  BY <1>1 DEF Config
<1>4. CurrentOK(cfg) /\ cfg.current # None => cfg.current \in Names /\ Has(cfg, cfg.current)
  BY DEF CurrentOK, Has
<1> QED  BY <1>2, <1>3, <1>4 DEF CurrentOK, Has

LEMMA WithoutOK ==
    ASSUME NEW cfg \in Config, NEW n \in Names
    PROVE  Without(cfg, n) \in Config /\ (CurrentOK(cfg) => CurrentOK(Without(cfg, n)))
BY DEF Without, Config, CurrentOK, Has

(* A context whose Auth is replaced stays a context.                       *)
LEMMA SetAuthOK ==
    ASSUME NEW cfg \in Config, NEW n \in Names, NEW a \in Auth
    PROVE  /\ [cfg EXCEPT !.contexts[n] = a] \in Config
           /\ CurrentOK(cfg) => CurrentOK([cfg EXCEPT !.contexts[n] = a])
BY AbsentAssumption DEF Config, CurrentOK, Has
-----------------------------------------------------------------------------
(* Every action gives one process a new state and most leave the files.    *)
LEMMA ProcOK ==
    ASSUME FileInv, NEW p \in Procs, NEW q \in Busy \cup {Idle}, CopyOK(q),
           proc' = [proc EXCEPT ![p] = q], Onward
    PROVE  proc' \in [Procs -> Busy \cup {Idle}] /\ CopiesOK'
BY DEF FileInv, TypeOK, CopiesOK, CopyOK, CurrentOK, Has, Safe, Onward

LEMMA BusyType ==
    ASSUME FileInv, NEW p \in Procs, proc[p].at # "idle"
    PROVE  proc[p] \in Busy /\ proc[p] # Idle /\ CopyOK(proc[p])
BY DEF FileInv, TypeOK, CopiesOK, CopyOK, Idle

LEMMA FilesKept ==
    ASSUME FileInv, UNCHANGED fileVars, Onward
    PROVE  FilesOK'
BY DEF FileInv, FilesOK, Whole, CurrentOK, Has, fileVars, Onward

LEMMA EventsType ==
    ASSUME TypeOK, NEW what \in {"overlap", "killed", "spliced", "unsaved", "reverted"},
           NEW occurs, Note(what, occurs)
    PROVE  /\ events' \subseteq {"overlap", "killed", "spliced", "unsaved", "reverted"}
           /\ events \subseteq events'
BY DEF TypeOK, Note

LEMMA Onwards ==
    ASSUME events \subseteq events', cuts' = cuts
    PROVE  Onward
BY DEF Onward, Alone

LEMMA TokenType ==
    ASSUME NEW cfg \in Config, NEW n, Has(cfg, n)
    PROVE  n \in Names /\ cfg.contexts[n] \in Auth
           /\ cfg.contexts[n].refresh \in Credentials \cup {None}
BY DEF Has, Config, Auth

(* A command that starts, whatever it has made of its copy.                *)
LEMMA StartOK ==
    ASSUME FileInv, NEW p \in Procs, NEW at \in {"login", "again", "call", "open"},
           NEW over \in Names \cup {None}, NEW n \in Names,
           NEW copy \in Config, Safe => CurrentOK(copy), at = "again" => Has(copy, n),
           NEW tok \in Credentials \cup {None},
           Start(p, at, over, n, copy, tok)
    PROVE  FileInv'
<1> DEFINE q == [at |-> at, over |-> over, name |-> n, via |-> n, copy |-> copy,
                 first |-> None, tok |-> tok, then |-> "idle", fd |-> None]
<1>1. q \in Busy /\ CopyOK(q)
  BY DEF Busy, CopyOK
<1>2. proc' = [proc EXCEPT ![p] = q]
  BY DEF Start
<1>3. /\ events' \subseteq {"overlap", "killed", "spliced", "unsaved", "reverted"}
      /\ Onward
  BY EventsType, Onwards DEF Start, FileInv
<1>4. proc' \in [Procs -> Busy \cup {Idle}] /\ CopiesOK'
  BY <1>1, <1>2, <1>3, ProcOK
<1>5. runs' \in 0..MaxRuns
  BY BoundsAssumption DEF Start, FileInv, TypeOK
<1>6. UNCHANGED fileVars /\ UNCHANGED <<live, issued, cuts>>
  BY DEF Start
<1> QED  BY <1>3, <1>4, <1>5, <1>6, FilesKept DEF FileInv, TypeOK, fileVars

LEMMA IssuedType ==
    ASSUME TypeOK, issued < MaxIssued, NEW n \in Names
    PROVE  Issued(n) \in Credentials /\ issued + 1 \in 0..MaxIssued
BY BoundsAssumption DEF TypeOK, Issued, Credentials

LEMMA WithTokensOK ==
    ASSUME NEW cfg \in Config, NEW n \in Names, NEW t \in Credentials \cup {None}
    PROVE  WithTokens(cfg, n, t) \in Config /\ (CurrentOK(cfg) => CurrentOK(WithTokens(cfg, n, t)))
<1>1. [refresh |-> t, key |-> None] \in Auth
  BY DEF Auth
<1> QED  BY <1>1, SetAuthOK DEF WithTokens

LEMMA SavingOK ==
    ASSUME FileInv, NEW p \in Procs, proc[p].at # "idle",
           NEW copy \in Config, Safe => CurrentOK(copy), NEW then \in {"call", "idle"}
    PROVE  Saving(p, copy, then) \in Busy /\ CopyOK(Saving(p, copy, then))
BY BusyType DEF Saving, Busy, CopyOK
-----------------------------------------------------------------------------
(* The steps of commands between their first load and a save.              *)
LEMMA StartsOK ==
    ASSUME FileInv, NEW p \in Procs,
           \/ \E n \in Names : Use(p, n) \/ Delete(p, n) \/ \E use \in BOOLEAN : Create(p, n, use)
           \/ \E over \in Names \cup {None} : Login(p, over) \/ Call(p, over) \/ KeyCreate(p, over)
    PROVE  FileInv'
<1>0. Loaded \in Config /\ (Safe => CurrentOK(Loaded))
  BY LoadedType DEF FileInv
<1>1. ASSUME NEW n \in Names, Use(p, n)  PROVE FileInv'
  BY <1>0, <1>1, UseOK, StartOK DEF Use
<1>2. ASSUME NEW n \in Names, Delete(p, n)  PROVE FileInv'
  BY <1>0, <1>2, WithoutOK, StartOK DEF Delete
<1>3. ASSUME NEW n \in Names, NEW use \in BOOLEAN, Create(p, n, use)  PROVE FileInv'
  BY <1>0, <1>3, UpsertOK, StartOK DEF Create
<1>4. ASSUME NEW over \in Names \cup {None}, Login(p, over) \/ Call(p, over) \/ KeyCreate(p, over)
      PROVE  FileInv'
  <2> DEFINE n == Resolved(Loaded, over)
  <2>1. Has(Loaded, n)
    BY <1>4 DEF Login, Call, KeyCreate
  <2>2. n \in Names /\ Loaded.contexts[n].refresh \in Credentials \cup {None}
    BY <1>0, <2>1, TokenType
  <2>3. CASE Login(p, over)
    BY <1>0, <2>2, <2>3, StartOK DEF Login
  <2>4. CASE Call(p, over)
    BY <1>0, <2>2, <2>4, StartOK DEF Call
  <2>5. CASE KeyCreate(p, over)
    BY <1>0, <2>1, <2>2, <2>5, StartOK DEF KeyCreate
  <2> QED  BY <1>4, <2>3, <2>4, <2>5
<1> QED  BY <1>1, <1>2, <1>3, <1>4
(* What is left to show of a step that leaves the files alone.             *)
LEMMA StepOK ==
    ASSUME FileInv, NEW p \in Procs, NEW q \in Busy \cup {Idle}, CopyOK(q),
           proc' = [proc EXCEPT ![p] = q], UNCHANGED fileVars,
           live' \subseteq Credentials, issued' \in 0..MaxIssued, runs' \in 0..MaxRuns,
           cuts' = cuts, events \subseteq events',
           events' \subseteq {"overlap", "killed", "spliced", "unsaved", "reverted"}
    PROVE  FileInv'
<1>1. proc' \in [Procs -> Busy \cup {Idle}] /\ CopiesOK'
  BY Onwards, ProcOK
<1>2. FilesOK'
  BY Onwards, FilesKept
<1> QED  BY <1>1, <1>2 DEF FileInv, TypeOK, fileVars

LEMMA LoggedInOK ==
    ASSUME FileInv, NEW p \in Procs, LoggedIn(p)
    PROVE  FileInv'
<1> DEFINE n == proc[p].name
           copy == WithTokens(proc[p].copy, n, Issued(n))
<1>1. proc[p] \in Busy /\ CopyOK(proc[p]) /\ proc[p] # Idle
  BY BusyType DEF LoggedIn
<1>2. n \in Names /\ proc[p].copy \in Config /\ (Safe => CurrentOK(proc[p].copy))
  BY <1>1 DEF Busy, CopyOK
<1>3. Issued(n) \in Credentials /\ issued' \in 0..MaxIssued
  BY <1>2, IssuedType DEF LoggedIn, FileInv
<1>4. copy \in Config /\ (Safe => CurrentOK(copy))
  BY <1>2, <1>3, WithTokensOK
<1>5. Saving(p, copy, "idle") \in Busy /\ CopyOK(Saving(p, copy, "idle"))
  BY <1>4, SavingOK DEF LoggedIn
<1>6. proc' = [proc EXCEPT ![p] = Saving(p, copy, "idle")]
  BY DEF LoggedIn, Become
<1>7. live' \subseteq Credentials /\ UNCHANGED <<fileVars, runs, cuts, events>>
  BY <1>3 DEF LoggedIn, FileInv, TypeOK
<1> QED  BY <1>3, <1>5, <1>6, <1>7, StepOK DEF FileInv, TypeOK

LEMMA AgainOK ==
    ASSUME FileInv, NEW p \in Procs, Again(p)
    PROVE  FileInv'
<1> DEFINE n == Resolved(Loaded, proc[p].over)
           q == [proc[p] EXCEPT !.at = "call", !.via = n, !.over = None,
                                !.first = proc[p].copy, !.copy = Loaded,
                                !.tok = Loaded.contexts[n].refresh]
<1>1. proc[p] \in Busy /\ CopyOK(proc[p]) /\ proc[p] # Idle
  BY BusyType DEF Again
<1>2. Loaded \in Config /\ (Safe => CurrentOK(Loaded))
  BY LoadedType DEF FileInv
<1>3. n \in Names /\ Loaded.contexts[n].refresh \in Credentials \cup {None}
  BY <1>2, TokenType DEF Again
<1>4. q \in Busy /\ CopyOK(q)
  <2>1. Has(proc[p].copy, proc[p].name) /\ (Safe => CurrentOK(proc[p].copy))
    BY <1>1 DEF CopyOK, Again
  <2>2. q \in Busy
    BY <1>1, <1>2, <1>3 DEF Busy
  <2>3. q.copy = Loaded /\ q.first = proc[p].copy /\ q.at = "call" /\ q.name = proc[p].name
    BY <1>1 DEF Busy
  <2> QED  BY <1>2, <2>1, <2>2, <2>3 DEF CopyOK
<1>5. proc' = [proc EXCEPT ![p] = q]
  BY DEF Again, Become
<1> QED  BY <1>4, <1>5, StepOK DEF Again, FileInv, TypeOK

LEMMA RefreshOK ==
    ASSUME FileInv, NEW p \in Procs, NEW rotates \in BOOLEAN, NEW saves \in BOOLEAN,
           Refresh(p, rotates, saves)
    PROVE  FileInv'
<1> DEFINE t == IF rotates THEN Issued(proc[p].via) ELSE proc[p].tok
           copy == WithTokens(proc[p].copy, proc[p].via, t)
           s == IF saves THEN Saving(p, copy, "call") ELSE proc[p]
           q == [s EXCEPT !.tok = t]
<1>1. proc[p] \in Busy /\ CopyOK(proc[p]) /\ proc[p] # Idle
  BY BusyType DEF Refresh
<1>2. /\ proc[p].via \in Names /\ proc[p].copy \in Config /\ (Safe => CurrentOK(proc[p].copy))
      /\ proc[p].tok \in Credentials \cup {None}
  BY <1>1 DEF Busy, CopyOK
<1>3. rotates => t \in Credentials /\ issued + 1 \in 0..MaxIssued
  BY <1>2, IssuedType DEF Refresh, FileInv
<1>4. t \in Credentials \cup {None}
  BY <1>2, <1>3
<1>5. copy \in Config /\ (Safe => CurrentOK(copy))
  BY <1>2, <1>4, WithTokensOK
<1>6. s \in Busy /\ CopyOK(s)
  BY <1>1, <1>5, SavingOK DEF Refresh
<1>7. q \in Busy /\ CopyOK(q)
  BY <1>4, <1>6, <1>1 DEF Busy, CopyOK, Idle
<1>8. proc' = [proc EXCEPT ![p] = q]
  BY DEF Refresh, Become, Refreshed
<1>9. issued' \in 0..MaxIssued /\ live' \subseteq Credentials
  BY <1>3 DEF Refresh, FileInv, TypeOK
<1>10. /\ events' \subseteq {"overlap", "killed", "spliced", "unsaved", "reverted"}
       /\ events \subseteq events'
  BY EventsType DEF Refresh, FileInv
<1>11. UNCHANGED <<fileVars, runs, cuts>>
  BY DEF Refresh
<1> QED  BY <1>7, <1>8, <1>9, <1>10, <1>11, StepOK DEF FileInv, TypeOK

(* The key goes into the first copy, which must still have the context.    *)
LEMMA MintOK ==
    ASSUME FileInv, NEW p \in Procs, Mint(p)
    PROVE  FileInv'
<1> DEFINE f == proc[p].first
           n == proc[p].name
           k == Issued(proc[p].via)
           copy == [f EXCEPT !.contexts[n] = [@ EXCEPT !.key = k]]
           q == [Saving(p, copy, "idle") EXCEPT !.first = None]
<1>1. proc[p] \in Busy /\ CopyOK(proc[p]) /\ proc[p] # Idle
  BY BusyType DEF Mint
<1>2. /\ n \in Names /\ proc[p].via \in Names
      /\ f \in Config /\ (Safe => CurrentOK(f)) /\ Has(f, n)
  BY <1>1 DEF Busy, CopyOK, Mint
<1>3. k \in Credentials /\ issued' \in 0..MaxIssued
  BY <1>2, IssuedType DEF Mint, FileInv
<1>4. f.contexts[n] \in Auth
  BY <1>2, TokenType
<1>5. [f.contexts[n] EXCEPT !.key = k] \in Auth
  BY <1>3, <1>4 DEF Auth
<1>6. copy \in Config /\ (Safe => CurrentOK(copy))
  BY <1>2, <1>5, SetAuthOK
<1>7. Saving(p, copy, "idle") \in Busy /\ CopyOK(Saving(p, copy, "idle"))
  BY <1>6, SavingOK DEF Mint
<1>8. q \in Busy /\ CopyOK(q)
  BY <1>1, <1>7 DEF Busy, CopyOK, Idle
<1>9. proc' = [proc EXCEPT ![p] = q]
  BY DEF Mint, Become
<1>10. /\ events' \subseteq {"overlap", "killed", "spliced", "unsaved", "reverted"}
       /\ events \subseteq events'
  BY EventsType DEF Mint, FileInv
<1>11. UNCHANGED <<fileVars, live, runs, cuts>>
  BY DEF Mint
<1> QED  BY <1>3, <1>8, <1>9, <1>10, <1>11, StepOK DEF FileInv, TypeOK

LEMMA EndOK ==
    ASSUME FileInv, NEW p \in Procs, End(p)
    PROVE  FileInv'
<1>1. CopyOK(Idle) /\ proc' = [proc EXCEPT ![p] = Idle]
  BY DEF End, Become, CopyOK
<1> QED  BY <1>1, StepOK DEF End, FileInv, TypeOK

LEMMA KillOK ==
    ASSUME FileInv, NEW p \in Procs, Kill(p)
    PROVE  FileInv'
<1>1. CopyOK(Idle) /\ proc' = [proc EXCEPT ![p] = Idle]
  BY DEF Kill, Become, CopyOK
<1>2. /\ events' \subseteq {"overlap", "killed", "spliced", "unsaved", "reverted"}
      /\ events \subseteq events'
  BY EventsType DEF Kill, FileInv
<1> QED  BY <1>1, <1>2, StepOK DEF Kill, FileInv, TypeOK

-----------------------------------------------------------------------------
(* One command at a time.  Until two commands overlap at most one is busy, *)
(* config.yaml is a whole config, and the busy command's copies differ     *)
(* from it in the one context the command is about.                        *)
File == IF path = None THEN EmptyConfig ELSE disk[path]

(* Where a command has not asked for a change of the current context.      *)
Calling(q) ==
    \/ q.at \in {"login", "again", "call"}
    \/ q.at \in {"open", "write", "rename"} /\ q.then = "call"

SameBut(cfg, file, n) == \A m \in Names \ {n} : cfg.contexts[m] = file.contexts[m]

Near(cfg, file, n) ==
    /\ SameBut(cfg, file, n)
    /\ \/ cfg.current \in {file.current, n} /\ cfg.contexts[n] # Absent
       \/ cfg.current = file.current /\ file.current # n
       \/ cfg.current = None /\ file.current = n /\ cfg.contexts[n] = Absent

SameCurrent(cfg, file, n) ==
    SameBut(cfg, file, n) /\ cfg.current = file.current /\ Has(cfg, n)

AloneOK(q, file, spare, text) ==
    /\ q.via = q.name
    /\ q.at = "again" => Resolved(file, q.over) = q.name
    /\ q.at = "write" => spare # None /\ q.fd = spare /\ text[spare] = Blank
    /\ q.at = "rename" => spare # None /\ text[spare] = q.copy
    /\ Near(q.copy, file, q.name)
    /\ Calling(q) => SameCurrent(q.copy, file, q.name)
    /\ q.first # None => SameCurrent(q.first, file, q.name)

OneBusy == \A p, q \in Procs : proc[p] # Idle /\ proc[q] # Idle => p = q

AloneInv ==
    /\ tmp # None => tmp # path
    /\ Alone => /\ OneBusy
                /\ path # None => disk[path] \in Config
                /\ \A p \in Procs : proc[p] # Idle => AloneOK(proc[p], File, tmp, disk)

-----------------------------------------------------------------------------
(* Tokens.  Every copy of a context holds tokens issued for that context.  *)
Own(n) == ({n} \X (1..MaxIssued)) \cup {None}

HomeCfg(cfg, home, alone) ==
    \A n \in Names : Has(cfg, n) =>
        /\ home => cfg.contexts[n].refresh \in Own(n)
        /\ alone => cfg.contexts[n].key \in Own(n)

HomeOK(q, home, alone) ==
    /\ home => q.tok \in Own(q.via)
    /\ HomeCfg(q.copy, home, alone)
    /\ q.first # None => HomeCfg(q.first, home, alone)

HomeInv ==
    /\ \A i \in Inodes : Whole(disk[i]) => HomeCfg(disk[i], Unspliced, Alone)
    /\ \A p \in Procs : proc[p] # Idle => HomeOK(proc[p], Unspliced, Alone)

-----------------------------------------------------------------------------
(* Sessions.  While nothing harmful has happened the file, except between  *)
(* a refresh and the end of its save, and every copy hold live tokens.     *)
LiveBut(cfg, tokens, n) ==
    \A m \in Names \ {n} : Has(cfg, m) => cfg.contexts[m].refresh \in tokens \cup {None}

Live(cfg, tokens) ==
    \A m \in Names : Has(cfg, m) => cfg.contexts[m].refresh \in tokens \cup {None}

SessionOK(q, tokens) ==
    /\ Live(q.copy, tokens)
    /\ Calling(q) /\ q.at \notin {"login", "again"} =>
         q.tok \in tokens /\ q.copy.contexts[q.via].refresh = q.tok
    /\ q.first # None => LiveBut(q.first, tokens, q.via)

LoginInv ==
    Calm =>
        /\ \A p \in Procs : proc[p] # Idle => SessionOK(proc[p], live)
        /\ (\A p \in Procs : proc[p] # Idle => proc[p].at \in {"login", "again", "call"})
             => Live(File, live)

CommandInv == FileInv /\ AloneInv /\ HomeInv /\ LoginInv

-----------------------------------------------------------------------------
(* Copies of a config in which one context is changed.                     *)
LEMMA NearSelf ==
    ASSUME NEW cfg \in Config, NEW n \in Names, Has(cfg, n)
    PROVE  Near(cfg, cfg, n) /\ SameCurrent(cfg, cfg, n)
BY DEF Near, SameCurrent, SameBut, Has

LEMMA NearUse ==
    ASSUME NEW cfg \in Config, NEW n \in Names, Has(cfg, n)
    PROVE  LET new == [cfg EXCEPT !.current = n]
           IN  /\ Near(new, cfg, n)
               /\ \A home, alone \in BOOLEAN :
                     HomeCfg(cfg, home, alone) => HomeCfg(new, home, alone)
               /\ \A tokens : Live(cfg, tokens) => Live(new, tokens)
BY DEF Near, SameBut, Has, Config, HomeCfg, Live

LEMMA NearUpsert ==
    ASSUME NEW cfg \in Config, NEW n \in Names, NEW use \in BOOLEAN
    PROVE  LET new == [Upsert(cfg, n) EXCEPT !.current = IF use \/ @ = None THEN n ELSE @]
           IN  /\ Near(new, cfg, n)
               /\ \A home, alone \in BOOLEAN :
                     HomeCfg(cfg, home, alone) => HomeCfg(new, home, alone)
               /\ \A tokens : Live(cfg, tokens) => Live(new, tokens)
<1> DEFINE new == [Upsert(cfg, n) EXCEPT !.current = IF use \/ @ = None THEN n ELSE @]
<1>1. /\ new.current \in {cfg.current, n}
      /\ new.contexts[n] = IF Has(cfg, n) THEN cfg.contexts[n] ELSE NoAuth
      /\ \A m \in Names \ {n} : new.contexts[m] = cfg.contexts[m]
  BY DEF Upsert, Config
<1>2. new.contexts[n] # Absent
  BY <1>1, NoAuthType, AbsentAssumption DEF Has
<1>3. NoAuth.refresh = None /\ NoAuth.key = None
  BY DEF NoAuth
<1> HIDE DEF new
<1>4. Near(new, cfg, n)
  BY <1>1, <1>2 DEF Near, SameBut
<1>5. ASSUME NEW home \in BOOLEAN, NEW alone \in BOOLEAN, HomeCfg(cfg, home, alone)
      PROVE  HomeCfg(new, home, alone)
  BY <1>1, <1>3, <1>5 DEF HomeCfg, Has, Own
<1>6. ASSUME NEW tokens, Live(cfg, tokens)  PROVE Live(new, tokens)
  BY <1>1, <1>3, <1>6 DEF Live, Has
<1> QED  BY <1>4, <1>5, <1>6 DEF new

LEMMA NearWithout ==
    ASSUME NEW cfg \in Config, NEW n \in Names, Has(cfg, n)
    PROVE  /\ Near(Without(cfg, n), cfg, n)
           /\ \A home, alone \in BOOLEAN :
                 HomeCfg(cfg, home, alone) => HomeCfg(Without(cfg, n), home, alone)
           /\ \A tokens : Live(cfg, tokens) => Live(Without(cfg, n), tokens)
<1>1. /\ Without(cfg, n).current = (IF cfg.current = n THEN None ELSE cfg.current)
      /\ Without(cfg, n).contexts[n] = Absent
      /\ \A m \in Names \ {n} : Without(cfg, n).contexts[m] = cfg.contexts[m]
  BY DEF Without, Config
<1> QED  BY <1>1 DEF Near, SameBut, HomeCfg, Live, Has

LEMMA SetAuthNear ==
    ASSUME NEW cfg \in Config, NEW n \in Names, NEW a \in Auth
    PROVE  LET new == [cfg EXCEPT !.contexts[n] = a]
           IN  /\ new.contexts[n] = a
               /\ \A file : SameCurrent(cfg, file, n) =>
                              SameCurrent(new, file, n) /\ Near(new, file, n)
               /\ \A home, alone \in BOOLEAN :
                     (/\ HomeCfg(cfg, home, alone)
                      /\ (home => a.refresh \in Own(n)) /\ (alone => a.key \in Own(n)))
                       => HomeCfg(new, home, alone)
               /\ \A tokens : LiveBut(cfg, tokens, n) /\ a.refresh \in tokens \cup {None}
                       => Live(new, tokens)
<1> DEFINE new == [cfg EXCEPT !.contexts[n] = a]
<1>1. /\ new.current = cfg.current /\ new.contexts[n] = a
      /\ \A m \in Names \ {n} : new.contexts[m] = cfg.contexts[m]
  BY DEF Config
<1>2. a # Absent
  BY AbsentAssumption
<1> HIDE DEF new
<1>3. ASSUME NEW file, SameCurrent(cfg, file, n)
      PROVE  SameCurrent(new, file, n) /\ Near(new, file, n)
  BY <1>1, <1>2, <1>3 DEF SameCurrent, SameBut, Near, Has
<1>4. ASSUME NEW home \in BOOLEAN, NEW alone \in BOOLEAN, HomeCfg(cfg, home, alone),
             home => a.refresh \in Own(n), alone => a.key \in Own(n)
      PROVE  HomeCfg(new, home, alone)
  BY <1>1, <1>4 DEF HomeCfg, Has
<1>5. ASSUME NEW tokens, LiveBut(cfg, tokens, n), a.refresh \in tokens \cup {None}
      PROVE  Live(new, tokens)
  BY <1>1, <1>5 DEF LiveBut, Live, Has
<1> QED  BY <1>1, <1>3, <1>4, <1>5 DEF new

LEMMA TokensNear ==
    ASSUME NEW cfg \in Config, NEW n \in Names, NEW t \in Credentials \cup {None}
    PROVE  LET new == WithTokens(cfg, n, t)
           IN  /\ new.contexts[n].refresh = t
               /\ \A file : SameCurrent(cfg, file, n) =>
                              SameCurrent(new, file, n) /\ Near(new, file, n)
               /\ \A home, alone \in BOOLEAN :
                     HomeCfg(cfg, home, alone) /\ (home => t \in Own(n))
                       => HomeCfg(new, home, alone)
               /\ \A tokens : LiveBut(cfg, tokens, n) /\ t \in tokens \cup {None}
                       => Live(new, tokens)
<1> DEFINE a == [refresh |-> t, key |-> None]
<1>1. a \in Auth /\ a.refresh = t /\ a.key \in Own(n)
  BY DEF Auth, Own
<1>2. WithTokens(cfg, n, t) = [cfg EXCEPT !.contexts[n] = a]
  BY DEF WithTokens
<1> HIDE DEF a
<1> QED  BY <1>1, <1>2, SetAuthNear
-----------------------------------------------------------------------------
(* What a command that loads the file finds.                               *)
LEMMA LoadedFile ==
    ASSUME FileInv, AloneInv, Alone
    PROVE  Loaded = File /\ File \in Config
<1>1. CASE path = None
  BY <1>1, EmptyType DEF Loaded, Text, File
<1>2. CASE path # None
  BY <1>2, TextAssumption DEF Loaded, Text, File, AloneInv
<1> QED  BY <1>1, <1>2

LEMMA LoadedHome ==
    ASSUME FileInv, HomeInv
    PROVE  HomeCfg(Loaded, Unspliced, Alone)
<1>1. CASE Text \in {Blank, Torn}
  BY <1>1 DEF Loaded, EmptyConfig, HomeCfg, Has
<1>2. CASE Text \notin {Blank, Torn}
  BY <1>2 DEF Loaded, Text, HomeInv, Whole, FileInv, TypeOK
<1> QED  BY <1>1, <1>2

LEMMA HomeMonotone ==
    ASSUME NEW cfg, NEW h \in BOOLEAN, NEW a \in BOOLEAN, HomeCfg(cfg, h, a),
           NEW home \in BOOLEAN, NEW alone \in BOOLEAN, home => h, alone => a
    PROVE  HomeCfg(cfg, home, alone)
BY DEF HomeCfg

LEMMA OnlyBusy ==
    ASSUME AloneInv, Alone, NEW p \in Procs, proc[p] # Idle
    PROVE  /\ \A r \in Procs \ {p} : proc[r] = Idle
           /\ AloneOK(proc[p], File, tmp, disk)
BY DEF AloneInv, OneBusy

(* A step of one command that leaves the files alone.                      *)
LEMMA CommandStep ==
    ASSUME CommandInv, NEW p \in Procs, NEW q, proc' = [proc EXCEPT ![p] = q],
           UNCHANGED fileVars, events \subseteq events', cuts' = cuts,
           Alone' => \A r \in Procs \ {p} : proc[r] = Idle,
           q # Idle => /\ Alone' => AloneOK(q, File, tmp, disk)
                       /\ HomeOK(q, Unspliced', Alone')
                       /\ Calm' => SessionOK(q, live'),
           Calm' /\ q.at \in {"idle", "login", "again", "call"} => Live(File, live')
    PROVE  AloneInv' /\ HomeInv' /\ LoginInv'
<1> USE DEF CommandInv
<1>1. /\ path' = path /\ tmp' = tmp /\ disk' = disk /\ File' = File
      /\ (Alone' => Alone) /\ (Unspliced' => Unspliced)
      /\ Calm' => Calm /\ Alone'
  BY DEF fileVars, File, Alone, Unspliced, Calm
<1>2. proc'[p] = q /\ \A r \in Procs \ {p} : proc'[r] = proc[r]
  BY DEF FileInv, TypeOK
<1>3. AloneInv'
  <2>1. Alone' => OneBusy'
    BY <1>2 DEF OneBusy
  <2>2. Alone' => \A r \in Procs : proc'[r] # Idle => AloneOK(proc'[r], File', tmp', disk')
    BY <1>1, <1>2
  <2> QED  BY <1>1, <2>1, <2>2 DEF AloneInv
<1>4. HomeInv'
  <2>1. /\ Alone \in BOOLEAN /\ Alone' \in BOOLEAN
        /\ Unspliced \in BOOLEAN /\ Unspliced' \in BOOLEAN
    BY DEF Alone, Unspliced
  <2>2. \A r \in Procs : proc'[r] # Idle => HomeOK(proc'[r], Unspliced', Alone')
    BY <1>1, <1>2, <2>1, HomeMonotone DEF HomeInv, HomeOK
  <2>3. \A i \in Inodes : Whole(disk'[i]) => HomeCfg(disk'[i], Unspliced', Alone')
    BY <1>1, <2>1, HomeMonotone DEF HomeInv
  <2> QED  BY <2>2, <2>3 DEF HomeInv, Whole
<1>5. LoginInv'
  <2> SUFFICES ASSUME Calm' PROVE
                 /\ \A r \in Procs : proc'[r] # Idle => SessionOK(proc'[r], live')
                 /\ (\A r \in Procs : proc'[r] # Idle => proc'[r].at \in {"login", "again", "call"})
                      => Live(File', live')
    BY DEF LoginInv
  <2>1. \A r \in Procs : proc'[r] # Idle => SessionOK(proc'[r], live')
    BY <1>1, <1>2
  <2>2. q = Idle => q.at = "idle"
    BY DEF Idle
  <2> QED  BY <1>1, <1>2, <2>1, <2>2
<1> QED  BY <1>3, <1>4, <1>5

-----------------------------------------------------------------------------
(* A command that starts has the file to itself, or overlaps another.      *)
LEMMA StartStep ==
    ASSUME CommandInv, NEW p \in Procs, NEW at \in {"login", "again", "call", "open"},
           NEW over, NEW n \in Names, NEW copy \in Config, NEW tok, Unspliced => tok \in Own(n),
           Start(p, at, over, n, copy, tok),
           HomeCfg(copy, Unspliced, Alone),
           Near(copy, Loaded, n),
           at # "open" => SameCurrent(copy, Loaded, n),
           at = "again" => Resolved(Loaded, over) = n,
           Live(Loaded, live) => Live(copy, live),
           at = "call" /\ Live(Loaded, live) => tok \in live /\ copy.contexts[n].refresh = tok
    PROVE  AloneInv' /\ HomeInv' /\ LoginInv'
<1> USE DEF CommandInv
<1> DEFINE q == [at |-> at, over |-> over, name |-> n, via |-> n, copy |-> copy,
                 first |-> None, tok |-> tok, then |-> "idle", fd |-> None]
<1>1. /\ proc' = [proc EXCEPT ![p] = q] /\ UNCHANGED fileVars /\ live' = live
      /\ events \subseteq events' /\ cuts' = cuts
      /\ proc[p] = Idle
      /\ Alone' => Alone /\ \A r \in Procs : proc[r] = Idle
      /\ (Unspliced' => Unspliced) /\ (Calm' => Calm)
  BY DEF Start, Note, Alone, Unspliced, Calm
<1>2. /\ Alone \in BOOLEAN /\ Alone' \in BOOLEAN
      /\ Unspliced \in BOOLEAN /\ Unspliced' \in BOOLEAN
  BY DEF Alone, Unspliced
<1>3. HomeOK(q, Unspliced', Alone')
  BY <1>1, <1>2, HomeMonotone DEF HomeOK
<1>4. Alone' => AloneOK(q, File, tmp, disk)
  BY <1>1, LoadedFile DEF AloneOK, Calling
<1>5. Calm' => Live(File, live) /\ Live(Loaded, live)
  <2>1. Calm' => Calm /\ Alone /\ \A r \in Procs : proc[r] = Idle
    BY <1>1 DEF Alone, Calm
  <2> QED  BY <2>1, LoadedFile DEF LoginInv
<1>6. Calm' => SessionOK(q, live')
  BY <1>1, <1>5 DEF SessionOK, Calling
<1> QED  BY <1>1, <1>3, <1>4, <1>5, <1>6, CommandStep

LEMMA StartsKeep ==
    ASSUME CommandInv, NEW p \in Procs,
           \/ \E n \in Names : Use(p, n) \/ Delete(p, n) \/ \E use \in BOOLEAN : Create(p, n, use)
           \/ \E over \in Names \cup {None} : Login(p, over) \/ Call(p, over) \/ KeyCreate(p, over)
    PROVE  AloneInv' /\ HomeInv' /\ LoginInv'
<1> USE DEF CommandInv
<1>0. /\ Loaded \in Config /\ HomeCfg(Loaded, Unspliced, Alone)
      /\ Unspliced \in BOOLEAN /\ Alone \in BOOLEAN
      /\ \A n : None \in Own(n)
  BY LoadedType, LoadedHome DEF FileInv, Unspliced, Alone, Own
<1>1. ASSUME NEW n \in Names, Use(p, n)  PROVE AloneInv' /\ HomeInv' /\ LoginInv'
  <2>1. PICK copy \in Config : copy = [Loaded EXCEPT !.current = n]
    BY <1>0, <1>1, UseOK DEF Use
  <2>2. /\ Near(copy, Loaded, n) /\ HomeCfg(copy, Unspliced, Alone)
        /\ Live(Loaded, live) => Live(copy, live)
    BY <1>0, <1>1, <2>1, NearUse DEF Use
  <2>3. Start(p, "open", None, n, copy, None)
    BY <1>1, <2>1 DEF Use
  <2> QED  BY <1>0, <2>2, <2>3, StartStep
<1>2. ASSUME NEW n \in Names, Delete(p, n)  PROVE AloneInv' /\ HomeInv' /\ LoginInv'
  <2>1. PICK copy \in Config : copy = Without(Loaded, n)
    BY <1>0, WithoutOK, LoadedType DEF FileInv
  <2>2. /\ Near(copy, Loaded, n) /\ HomeCfg(copy, Unspliced, Alone)
        /\ Live(Loaded, live) => Live(copy, live)
    BY <1>0, <1>2, <2>1, NearWithout DEF Delete
  <2>3. Start(p, "open", None, n, copy, None)
    BY <1>2, <2>1 DEF Delete
  <2> QED  BY <1>0, <2>2, <2>3, StartStep
<1>3. ASSUME NEW n \in Names, NEW use \in BOOLEAN, Create(p, n, use)
      PROVE  AloneInv' /\ HomeInv' /\ LoginInv'
  <2>1. PICK copy \in Config :
          copy = [Upsert(Loaded, n) EXCEPT !.current = IF use \/ @ = None THEN n ELSE @]
    BY <1>0, UpsertOK, LoadedType DEF FileInv
  <2>2. /\ Near(copy, Loaded, n) /\ HomeCfg(copy, Unspliced, Alone)
        /\ Live(Loaded, live) => Live(copy, live)
    BY <1>0, <2>1, NearUpsert
  <2>3. Start(p, "open", None, n, copy, None)
    BY <1>3, <2>1 DEF Create
  <2> QED  BY <1>0, <2>2, <2>3, StartStep
<1>4. ASSUME NEW over \in Names \cup {None}, Login(p, over) \/ Call(p, over) \/ KeyCreate(p, over)
      PROVE  AloneInv' /\ HomeInv' /\ LoginInv'
  <2>1. Has(Loaded, Resolved(Loaded, over))
    BY <1>4 DEF Login, Call, KeyCreate
  <2>2. PICK n \in Names : n = Resolved(Loaded, over)
    BY <2>1 DEF Has
  <2>3. Near(Loaded, Loaded, n) /\ SameCurrent(Loaded, Loaded, n)
    BY <1>0, <2>1, <2>2, NearSelf
  <2>4. Unspliced => Loaded.contexts[n].refresh \in Own(n)
    BY <1>0, <2>1, <2>2 DEF HomeCfg
  <2>5. CASE Login(p, over)
    <3>1. Start(p, "login", None, n, Loaded, None)
      BY <2>2, <2>5 DEF Login
    <3> QED  BY <1>0, <2>3, <3>1, StartStep
  <2>6. CASE Call(p, over)
    <3>1. /\ Loaded.contexts[n].refresh # None
          /\ Start(p, "call", None, n, Loaded, Loaded.contexts[n].refresh)
      BY <2>2, <2>6 DEF Call
    <3>2. Live(Loaded, live) => Loaded.contexts[n].refresh \in live
      BY <2>1, <2>2, <3>1 DEF Live
    <3> QED  BY <1>0, <2>3, <2>4, <3>1, <3>2, StartStep
  <2>7. CASE KeyCreate(p, over)
    <3>1. Start(p, "again", over, n, Loaded, None)
      BY <2>2, <2>7 DEF KeyCreate
    <3> QED  BY <1>0, <2>2, <2>3, <3>1, StartStep
  <2> QED  BY <1>4, <2>5, <2>6, <2>7
<1> QED  BY <1>1, <1>2, <1>3, <1>4

-----------------------------------------------------------------------------
(* A busy command that goes on: while it is alone, none else is busy.      *)
LEMMA BusyAlone ==
    ASSUME CommandInv, NEW p \in Procs, proc[p].at # "idle"
    PROVE  /\ proc[p] \in Busy /\ proc[p] # Idle /\ CopyOK(proc[p])
           /\ HomeOK(proc[p], Unspliced, Alone)
           /\ Alone => /\ \A r \in Procs \ {p} : proc[r] = Idle
                       /\ AloneOK(proc[p], File, tmp, disk)
           /\ Calm => SessionOK(proc[p], live)
           /\ Calm /\ proc[p].at \in {"login", "again", "call"} => Live(File, live)
<1> USE DEF CommandInv
<1>1. proc[p] \in Busy /\ proc[p] # Idle /\ CopyOK(proc[p])
  BY BusyType
<1>2. Alone => /\ \A r \in Procs \ {p} : proc[r] = Idle
               /\ AloneOK(proc[p], File, tmp, disk)
  BY <1>1, OnlyBusy
<1>3. Calm => Alone
  BY DEF Alone, Calm
<1> QED  BY <1>1, <1>2, <1>3 DEF HomeInv, LoginInv

LEMMA IssuedOwn ==
    ASSUME CommandInv, issued < MaxIssued, NEW n \in Names
    PROVE  Issued(n) \in Own(n) /\ Issued(n) \in Credentials
BY BoundsAssumption DEF CommandInv, FileInv, TypeOK, Issued, Own, Credentials

LEMMA LoggedInKeeps ==
    ASSUME CommandInv, NEW p \in Procs, LoggedIn(p)
    PROVE  AloneInv' /\ HomeInv' /\ LoginInv'
<1>1. /\ proc[p] \in Busy /\ proc[p] # Idle /\ HomeOK(proc[p], Unspliced, Alone)
      /\ Alone => /\ \A r \in Procs \ {p} : proc[r] = Idle
                  /\ AloneOK(proc[p], File, tmp, disk)
      /\ Calm => SessionOK(proc[p], live)
  BY BusyAlone DEF LoggedIn
<1>2. PICK n \in Names : n = proc[p].name
  BY <1>1 DEF Busy
<1>3. PICK old \in Config : old = proc[p].copy
  BY <1>1 DEF Busy
<1>4. PICK t \in Own(n) : t = Issued(n) /\ t \in Credentials
  BY IssuedOwn DEF LoggedIn
<1>5. PICK copy : copy = WithTokens(old, n, t)
  OBVIOUS
<1>6. /\ \A file : SameCurrent(old, file, n) =>
                     SameCurrent(copy, file, n) /\ Near(copy, file, n)
      /\ \A home, alone \in BOOLEAN :
            HomeCfg(old, home, alone) /\ (home => t \in Own(n)) => HomeCfg(copy, home, alone)
      /\ \A tokens : LiveBut(old, tokens, n) /\ t \in tokens \cup {None} => Live(copy, tokens)
  BY <1>4, <1>5, TokensNear
<1>7. PICK q : q = Saving(p, copy, "idle")
  OBVIOUS
<1>8. /\ proc' = [proc EXCEPT ![p] = q] /\ live' = live \cup {t}
      /\ UNCHANGED <<fileVars, events, cuts>> /\ proc[p].at = "login"
      /\ Alone' = Alone /\ Unspliced' = Unspliced /\ Calm' = Calm
  BY <1>2, <1>3, <1>4, <1>5, <1>7 DEF LoggedIn, Become, Alone, Unspliced, Calm
<1>9. /\ q.at = "open" /\ q.copy = copy /\ q.then = "idle"
      /\ q.name = n /\ q.via = proc[p].via /\ q.first = proc[p].first /\ q.tok = proc[p].tok
  BY <1>1, <1>2, <1>7 DEF Saving, Busy
<1>10. HomeOK(q, Unspliced, Alone)
  BY <1>1, <1>3, <1>6, <1>9 DEF HomeOK, Alone, Unspliced
<1>11. Alone => AloneOK(q, File, tmp, disk)
  BY <1>1, <1>2, <1>3, <1>6, <1>8, <1>9 DEF AloneOK, Calling
<1>12. Calm => SessionOK(q, live')
  <2> SUFFICES ASSUME Calm PROVE SessionOK(q, live')
    OBVIOUS
  <2>1. Live(old, live) /\ (q.first # None => LiveBut(q.first, live, q.via))
    BY <1>1, <1>3, <1>9 DEF SessionOK
  <2>2. LiveBut(old, live', n) /\ t \in live' \cup {None}
    BY <1>8, <2>1 DEF Live, LiveBut
  <2>3. q.first # None => LiveBut(q.first, live', q.via)
    BY <1>8, <2>1 DEF LiveBut
  <2> QED  BY <1>6, <1>9, <2>2, <2>3 DEF SessionOK, Calling
<1>13. q # Idle
  BY <1>9 DEF Idle
<1> QED  BY <1>1, <1>8, <1>9, <1>10, <1>11, <1>12, <1>13, CommandStep

LEMMA AgainKeeps ==
    ASSUME CommandInv, NEW p \in Procs, Again(p)
    PROVE  AloneInv' /\ HomeInv' /\ LoginInv'
<1>1. /\ proc[p] \in Busy /\ proc[p] # Idle /\ CopyOK(proc[p]) /\ HomeOK(proc[p], Unspliced, Alone)
      /\ Alone => /\ \A r \in Procs \ {p} : proc[r] = Idle
                  /\ AloneOK(proc[p], File, tmp, disk)
      /\ Calm => SessionOK(proc[p], live)
      /\ Calm => Live(File, live)
  BY BusyAlone DEF Again
<1>2. /\ Has(Loaded, Resolved(Loaded, proc[p].over))
      /\ Loaded.contexts[Resolved(Loaded, proc[p].over)].refresh # None
  BY DEF Again
<1>3. PICK n \in Names : n = Resolved(Loaded, proc[p].over)
  BY <1>2 DEF Has
<1>4. Loaded \in Config /\ HomeCfg(Loaded, Unspliced, Alone) /\ (Alone => Loaded = File)
  BY LoadedType, LoadedHome, LoadedFile DEF CommandInv, FileInv
<1>5. PICK q : q = [proc[p] EXCEPT !.at = "call", !.via = n, !.over = None,
                                   !.first = proc[p].copy, !.copy = Loaded,
                                   !.tok = Loaded.contexts[n].refresh]
  OBVIOUS
<1>6. /\ proc' = [proc EXCEPT ![p] = q] /\ live' = live
      /\ UNCHANGED <<fileVars, events, cuts>> /\ proc[p].at = "again"
      /\ Alone' = Alone /\ Unspliced' = Unspliced /\ Calm' = Calm
  BY <1>3, <1>5 DEF Again, Become, Alone, Unspliced, Calm
<1>7. /\ q.at = "call" /\ q.copy = Loaded /\ q.first = proc[p].copy
      /\ q.name = proc[p].name /\ q.via = n /\ q.tok = Loaded.contexts[n].refresh
  BY <1>1, <1>5 DEF Busy
<1>8. HomeOK(q, Unspliced, Alone)
  BY <1>1, <1>2, <1>3, <1>4, <1>7 DEF HomeOK, HomeCfg
<1>9. Alone => AloneOK(q, File, tmp, disk)
  <2> SUFFICES ASSUME Alone PROVE AloneOK(q, File, tmp, disk)
    OBVIOUS
  <2>1. q.name = n /\ SameCurrent(q.first, File, n)
    BY <1>1, <1>3, <1>4, <1>6, <1>7 DEF AloneOK, Calling
  <2>2. Near(Loaded, File, n) /\ SameCurrent(Loaded, File, n)
    BY <1>2, <1>3, <1>4, NearSelf
  <2> QED  BY <1>7, <2>1, <2>2 DEF AloneOK
<1>10. Calm => SessionOK(q, live')
  <2> SUFFICES ASSUME Calm PROVE SessionOK(q, live)
    BY <1>6
  <2>1. Live(Loaded, live) /\ Live(q.first, live)
    BY <1>1, <1>4, <1>7 DEF Alone, Calm, SessionOK
  <2>2. q.tok \in live
    BY <1>2, <1>3, <1>7, <2>1 DEF Live
  <2> QED  BY <1>7, <2>1, <2>2 DEF SessionOK, Live, LiveBut
<1>11. q # Idle
  BY <1>7 DEF Idle
<1> QED  BY <1>1, <1>6, <1>7, <1>8, <1>9, <1>10, <1>11, CommandStep

(* A refresh takes one token of the called context away, so the tokens of  *)
(* the others must not be it.                                              *)
LEMMA RefreshKeeps ==
    ASSUME CommandInv, NEW p \in Procs, NEW rotates \in BOOLEAN, NEW saves \in BOOLEAN,
           Refresh(p, rotates, saves)
    PROVE  AloneInv' /\ HomeInv' /\ LoginInv'
<1>1. /\ proc[p] \in Busy /\ proc[p] # Idle /\ HomeOK(proc[p], Unspliced, Alone)
      /\ Alone => /\ \A r \in Procs \ {p} : proc[r] = Idle
                  /\ AloneOK(proc[p], File, tmp, disk)
      /\ Calm => SessionOK(proc[p], live)
      /\ Calm => Live(File, live)
  BY BusyAlone DEF Refresh
<1>2. PICK n \in Names : n = proc[p].via
  BY <1>1 DEF Busy
<1>3. PICK old \in Config : old = proc[p].copy
  BY <1>1 DEF Busy
<1>4. PICK t : t = IF rotates THEN Issued(n) ELSE proc[p].tok
  OBVIOUS
<1>5. (Unspliced => t \in Own(n)) /\ t \in Credentials \cup {None}
  BY <1>1, <1>2, <1>4, IssuedOwn DEF Refresh, HomeOK, Busy
<1>6. PICK copy : copy = WithTokens(old, n, t)
  OBVIOUS
<1>7. /\ copy.contexts[n].refresh = t
      /\ \A file : SameCurrent(old, file, n) =>
                     SameCurrent(copy, file, n) /\ Near(copy, file, n)
      /\ \A home, alone \in BOOLEAN :
            HomeCfg(old, home, alone) /\ (home => t \in Own(n)) => HomeCfg(copy, home, alone)
      /\ \A tokens : LiveBut(old, tokens, n) /\ t \in tokens \cup {None} => Live(copy, tokens)
  BY <1>5, <1>6, TokensNear
<1>8. PICK q : q = [(IF saves THEN Saving(p, copy, "call") ELSE proc[p]) EXCEPT !.tok = t]
  OBVIOUS
<1>9. /\ proc' = [proc EXCEPT ![p] = q] /\ UNCHANGED fileVars
      /\ live' = IF rotates THEN (live \ {proc[p].tok}) \cup {t} ELSE live
      /\ proc[p].at = "call" /\ proc[p].tok \in live
      /\ events \subseteq events' /\ cuts' = cuts /\ Alone' = Alone /\ Unspliced' = Unspliced
      /\ Calm' => Calm /\ saves
  BY <1>2, <1>3, <1>4, <1>6, <1>8 DEF Refresh, Refreshed, Become, Note, Alone, Unspliced, Calm
<1>10. /\ q.at = (IF saves THEN "open" ELSE "call")
       /\ q.copy = (IF saves THEN copy ELSE old)
       /\ saves => q.then = "call"
       /\ q.name = proc[p].name /\ q.via = n /\ q.first = proc[p].first /\ q.tok = t
  <2>1. CASE saves
    <3>1. q = [Saving(p, copy, "call") EXCEPT !.tok = t]
      BY <1>8, <2>1
    <3> QED  BY <1>1, <1>2, <2>1, <3>1 DEF Saving, Busy
  <2>2. CASE ~saves
    <3>1. q = [proc[p] EXCEPT !.tok = t]
      BY <1>8, <2>2
    <3> QED  BY <1>1, <1>2, <1>3, <1>9, <2>2, <3>1 DEF Busy
  <2> QED  BY <2>1, <2>2
<1>11. HomeOK(q, Unspliced, Alone)
  BY <1>1, <1>3, <1>5, <1>7, <1>10 DEF HomeOK, Alone, Unspliced
<1>12. Alone => AloneOK(q, File, tmp, disk)
  <2> SUFFICES ASSUME Alone PROVE AloneOK(q, File, tmp, disk)
    OBVIOUS
  <2>1. /\ proc[p].name = n /\ SameCurrent(old, File, n) /\ Near(old, File, n)
        /\ q.first # None => SameCurrent(q.first, File, n)
    BY <1>1, <1>2, <1>3, <1>9, <1>10 DEF AloneOK, Calling
  <2>2. SameCurrent(q.copy, File, n) /\ Near(q.copy, File, n)
    BY <1>7, <1>10, <2>1
  <2> QED  BY <1>10, <2>1, <2>2 DEF AloneOK
<1>13. Calm' => SessionOK(q, live')
  <2> SUFFICES ASSUME Calm' PROVE SessionOK(q, live')
    OBVIOUS
  <2>1. saves /\ Live(old, live) /\ (q.first # None => LiveBut(q.first, live, n))
    BY <1>1, <1>2, <1>3, <1>9, <1>10 DEF SessionOK
  <2>2. t \in live' /\ live \ {proc[p].tok} \subseteq live'
    BY <1>4, <1>9
  <2>3. Unspliced /\ proc[p].tok \in Own(n)
    BY <1>1, <1>2, <1>9 DEF HomeOK, Calm, Unspliced
  <2>4. \A cfg \in Config : LiveBut(cfg, live, n) /\ HomeCfg(cfg, Unspliced, Alone) => LiveBut(cfg, live', n)
    BY <2>2, <2>3 DEF LiveBut, HomeCfg, Own
  <2>5. Live(copy, live')
    BY <1>1, <1>3, <1>7, <2>1, <2>2, <2>4 DEF Live, LiveBut, HomeOK
  <2>6. q.first # None => LiveBut(q.first, live', n)
    <3>1. q.first # None => q.first \in Config /\ HomeCfg(q.first, Unspliced, Alone)
      BY <1>1, <1>10 DEF Busy, HomeOK
    <3> QED  BY <2>1, <2>4, <3>1
  <2> QED  BY <1>7, <1>10, <2>1, <2>2, <2>5, <2>6 DEF SessionOK
<1>14. q # Idle
  BY <1>10 DEF Idle
<1>15. Calm' => q.at = "open"
  BY <1>9, <1>10
<1> QED  BY <1>1, <1>9, <1>10, <1>11, <1>12, <1>13, <1>14, <1>15, CommandStep

(* The key is of the context that was called.  While no other command runs *)
(* that is the one the first copy is about.                                *)
LEMMA MintKeeps ==
    ASSUME CommandInv, NEW p \in Procs, Mint(p)
    PROVE  AloneInv' /\ HomeInv' /\ LoginInv'
<1>1. /\ proc[p] \in Busy /\ proc[p] # Idle /\ CopyOK(proc[p]) /\ HomeOK(proc[p], Unspliced, Alone)
      /\ Alone => /\ \A r \in Procs \ {p} : proc[r] = Idle
                  /\ AloneOK(proc[p], File, tmp, disk)
      /\ Calm => SessionOK(proc[p], live)
  BY BusyAlone DEF Mint
<1>2. PICK n \in Names : n = proc[p].name
  BY <1>1 DEF Busy
<1>3. PICK f \in Config : f = proc[p].first
  BY <1>1 DEF Busy, Mint
<1>4. proc[p].first # None /\ Has(f, n) /\ HomeCfg(f, Unspliced, Alone)
  BY <1>1, <1>2, <1>3 DEF CopyOK, HomeOK, Mint
<1>5. PICK k \in Own(proc[p].via) : k = Issued(proc[p].via) /\ k \in Credentials
  BY <1>1, IssuedOwn DEF Busy, Mint
<1>6. f.contexts[n] \in Auth
  BY <1>4, TokenType
<1>7. PICK a \in Auth : /\ a = [f.contexts[n] EXCEPT !.key = k]
                        /\ a.key = k /\ a.refresh = f.contexts[n].refresh
  <2> DEFINE new == [f.contexts[n] EXCEPT !.key = k]
  <2>1. new \in Auth
    BY <1>5, <1>6 DEF Auth
  <2>2. new.key = k /\ new.refresh = f.contexts[n].refresh
    BY <1>6 DEF Auth
  <2> QED  BY <2>1, <2>2
<1>8. PICK copy : copy = [f EXCEPT !.contexts[n] = a]
  OBVIOUS
<1>9. /\ \A file : SameCurrent(f, file, n) =>
                     SameCurrent(copy, file, n) /\ Near(copy, file, n)
      /\ \A home, alone \in BOOLEAN :
            (/\ HomeCfg(f, home, alone)
             /\ (home => a.refresh \in Own(n)) /\ (alone => a.key \in Own(n)))
              => HomeCfg(copy, home, alone)
      /\ \A tokens : LiveBut(f, tokens, n) /\ a.refresh \in tokens \cup {None}
              => Live(copy, tokens)
  BY <1>8, SetAuthNear
<1>10. PICK q : q = [Saving(p, copy, "idle") EXCEPT !.first = None]
  OBVIOUS
<1>11. copy = [f EXCEPT !.contexts[n] = [@ EXCEPT !.key = k]]
  BY <1>7, <1>8
<1>12. /\ proc' = [proc EXCEPT ![p] = q] /\ UNCHANGED fileVars /\ live' = live
       /\ proc[p].at = "call"
       /\ events \subseteq events' /\ cuts' = cuts /\ Alone' = Alone /\ Unspliced' = Unspliced
       /\ Calm' => Calm /\ f.contexts[n].refresh = proc[p].tok
  BY <1>2, <1>3, <1>5, <1>10, <1>11 DEF Mint, Become, Note, Alone, Unspliced, Calm
<1>13. /\ q.at = "open" /\ q.copy = copy /\ q.then = "idle"
       /\ q.name = n /\ q.via = proc[p].via /\ q.first = None /\ q.tok = proc[p].tok
  BY <1>1, <1>2, <1>10 DEF Saving, Busy
<1>14. Alone => proc[p].via = n /\ SameCurrent(f, File, n)
  BY <1>1, <1>2, <1>3, <1>4 DEF AloneOK
<1>15. HomeOK(q, Unspliced, Alone)
  <2>1. /\ (Unspliced => a.refresh \in Own(n)) /\ (Alone => a.key \in Own(n))
        /\ Unspliced \in BOOLEAN /\ Alone \in BOOLEAN
    BY <1>4, <1>5, <1>7, <1>14 DEF HomeCfg, Alone, Unspliced
  <2> QED  BY <1>1, <1>4, <1>9, <1>13, <2>1 DEF HomeOK
<1>16. Alone => AloneOK(q, File, tmp, disk)
  BY <1>9, <1>13, <1>14 DEF AloneOK, Calling
<1>17. Calm' => SessionOK(q, live')
  <2> SUFFICES ASSUME Calm' PROVE SessionOK(q, live)
    BY <1>12
  <2>1. Alone
    BY <1>12 DEF Alone, Calm
  <2>2. LiveBut(f, live, n) /\ a.refresh \in live
    BY <1>1, <1>3, <1>4, <1>7, <1>12, <1>14, <2>1 DEF SessionOK, Calling
  <2>3. Live(copy, live)
    BY <1>9, <2>2
  <2> QED  BY <1>13, <2>3 DEF SessionOK, Calling
<1>18. q # Idle
  BY <1>13 DEF Idle
<1> QED  BY <1>1, <1>12, <1>13, <1>15, <1>16, <1>17, <1>18, CommandStep

LEMMA EndKeeps ==
    ASSUME CommandInv, NEW p \in Procs, End(p)
    PROVE  AloneInv' /\ HomeInv' /\ LoginInv'
<1>1. /\ Alone => \A r \in Procs \ {p} : proc[r] = Idle
      /\ Calm => Live(File, live)
  BY BusyAlone DEF End
<1>2. /\ proc' = [proc EXCEPT ![p] = Idle] /\ UNCHANGED <<fileVars, live, events, cuts>>
      /\ Alone' = Alone /\ Unspliced' = Unspliced /\ Calm' = Calm
  BY DEF End, Become, Alone, Unspliced, Calm
<1> QED  BY <1>1, <1>2, CommandStep

LEMMA KillKeeps ==
    ASSUME CommandInv, NEW p \in Procs, Kill(p)
    PROVE  AloneInv' /\ HomeInv' /\ LoginInv'
<1>1. /\ proc' = [proc EXCEPT ![p] = Idle] /\ UNCHANGED fileVars
      /\ events \subseteq events' /\ cuts' = cuts /\ ~Calm' /\ Alone' = Alone /\ Unspliced' = Unspliced
  BY DEF Kill, Become, Note, Alone, Unspliced, Calm
<1>2. Alone => \A r \in Procs \ {p} : proc[r] = Idle
  BY OnlyBusy DEF Kill, CommandInv
<1> QED  BY <1>1, <1>2, CommandStep

-----------------------------------------------------------------------------
(* Texts that were cut short or spliced.                                   *)
LEMMA PartsOK ==
    ASSUME NEW auth \in Auth \cup {Absent}, NEW part \in Parts(auth)
    PROVE  /\ part \in Auth \cup {Absent}
           /\ part # Absent => /\ part.refresh = None \/ (auth # Absent /\ part.refresh = auth.refresh)
                               /\ part.key = None \/ (auth # Absent /\ part.key = auth.key)
<1>1. CASE auth = Absent
  BY <1>1, NoAuthType, AbsentAssumption DEF Parts, NoAuth
<1>2. CASE auth # Absent
  BY <1>2, NoAuthType, AbsentAssumption DEF Parts, NoAuth, Auth
<1> QED  BY <1>1, <1>2

LEMMA CutShortOK ==
    ASSUME NEW cfg \in Config, NEW text \in CutShort(cfg)
    PROVE  /\ text \in Config
           /\ \A home, alone \in BOOLEAN :
                 HomeCfg(cfg, home, alone) => HomeCfg(text, home, alone)
<1>1. ASSUME NEW n \in Names \cup {None}, text = [EmptyConfig EXCEPT !.current = n]
      PROVE  /\ text \in Config
             /\ \A home, alone \in BOOLEAN : HomeCfg(text, home, alone)
  BY <1>1 DEF EmptyConfig, Config, HomeCfg, Has
<1>2. ASSUME NEW last \in Names, NEW whole \in SUBSET Present(cfg),
             NEW part \in Parts(cfg.contexts[last]), text = Kept(cfg, whole, last, part)
      PROVE  /\ text \in Config
             /\ \A home, alone \in BOOLEAN :
                   HomeCfg(cfg, home, alone) => HomeCfg(text, home, alone)
  <2>1. cfg.contexts \in [Names -> Auth \cup {Absent}] /\ cfg.current \in Names \cup {None}
    BY DEF Config
  <2>2. /\ part \in Auth \cup {Absent}
        /\ part # Absent => /\ part.refresh = None \/ (Has(cfg, last) /\ part.refresh = cfg.contexts[last].refresh)
                            /\ part.key = None \/ (Has(cfg, last) /\ part.key = cfg.contexts[last].key)
    BY <2>1, PartsOK DEF Has
  <2>3. /\ text.current = cfg.current
        /\ text.contexts = [n \in Names |-> IF n \in whole THEN cfg.contexts[n]
                                            ELSE IF n = last THEN part ELSE Absent]
        /\ text \in Config
    BY <1>2, <2>1, <2>2 DEF Kept, Config
  <2>4. ASSUME NEW home \in BOOLEAN, NEW alone \in BOOLEAN, HomeCfg(cfg, home, alone),
               NEW n \in Names, Has(text, n)
        PROVE  /\ home => text.contexts[n].refresh \in Own(n)
               /\ alone => text.contexts[n].key \in Own(n)
    <3>1. text.contexts[n] # Absent /\ None \in Own(n)
      BY <2>4 DEF Has, Own
    <3>2. CASE n \in whole
      BY <2>3, <2>4, <3>1, <3>2 DEF HomeCfg, Has
    <3>3. CASE n \notin whole
      <4>1. n = last /\ text.contexts[n] = part
        BY <2>3, <3>1, <3>3
      <4> QED  BY <2>2, <2>4, <3>1, <4>1 DEF HomeCfg
    <3> QED  BY <3>2, <3>3
  <2> QED  BY <2>3, <2>4 DEF HomeCfg
<1> QED  BY <1>1, <1>2 DEF CutShort

(* A splice only adds to the new text, and completes a context of it.      *)
LEMMA AddedOK ==
    ASSUME NEW new \in Config, NEW old \in Config, NEW more \in SUBSET Present(old),
           NEW last, NEW auth, last \in Names => auth \in Auth
    PROVE  LET text == Added(new, old, more, last, auth)
           IN  /\ text \in Config
               /\ CurrentOK(new) => CurrentOK(text)
<1>1. PICK text : text = Added(new, old, more, last, auth)
  OBVIOUS
<1>2. /\ new.contexts \in [Names -> Auth \cup {Absent}] /\ new.current \in Names \cup {None}
      /\ old.contexts \in [Names -> Auth \cup {Absent}]
  BY DEF Config
<1>3. /\ text.current = new.current
      /\ text.contexts = [n \in Names |-> IF n = last THEN auth
                                          ELSE IF n \in more THEN old.contexts[n]
                                          ELSE new.contexts[n]]
      /\ text \in Config
  BY <1>1, <1>2 DEF Added, Config
<1>4. \A n \in Names : Has(new, n) => Has(text, n)
  BY <1>3, AbsentAssumption DEF Has, Present
<1> QED  BY <1>1, <1>3, <1>4 DEF CurrentOK, Has

LEMMA SplicedOK ==
    ASSUME NEW new \in Config, NEW old \in Config, NEW text \in Spliced(new, old)
    PROVE  text \in Config /\ (CurrentOK(new) => CurrentOK(text))
<1>1. ASSUME NEW more \in SUBSET (Present(old) \ Present(new)),
             text = Added(new, old, more, None, Absent)
      PROVE  text \in Config /\ (CurrentOK(new) => CurrentOK(text))
  BY <1>1, NoneAssumption, AddedOK
<1>2. ASSUME NEW last \in Present(new), NEW m \in Present(old),
             NEW more \in SUBSET (Present(old) \ Present(new)),
             NEW auth \in Completed(new.contexts[last], old.contexts[m]),
             text = Added(new, old, more, last, auth)
      PROVE  text \in Config /\ (CurrentOK(new) => CurrentOK(text))
  <2>1. new.contexts[last] \in Auth /\ old.contexts[m] \in Auth
    BY DEF Present, Config
  <2>2. auth \in Auth
    BY <2>1 DEF Completed, Auth
  <2> QED  BY <1>2, <2>2, AddedOK
<1> QED  BY <1>1, <1>2 DEF Spliced

LEMMA OverOK ==
    ASSUME NEW new \in Config, NEW old \in Config \cup {Blank, Torn}, NEW text \in Over(new, old)
    PROVE  /\ text \in Config \cup {Blank, Torn}
           /\ Whole(text) => (CurrentOK(new) => CurrentOK(text))
           /\ old = Blank => text = new
<1>1. CASE old \in {Blank, new}
  BY <1>1 DEF Over
<1>2. CASE old \notin {Blank, new}
  <2>1. text \in {new, Torn} \/ (old \in Config /\ text \in Spliced(new, old))
    BY <1>2 DEF Over
  <2> QED  BY <1>2, <2>1, SplicedOK DEF Whole
<1> QED  BY <1>1, <1>2

-----------------------------------------------------------------------------
(* Save.  While commands do not overlap, what is opened and written is not *)
(* config.yaml, and what is renamed is a whole copy; while no write was    *)
(* cut short, every text there is keeps its current context.               *)
LEMMA DiskOK ==
    ASSUME FileInv, NEW i \in Inodes, NEW text \in Config \cup {Blank, Torn},
           disk' = [disk EXCEPT ![i] = text], path' = path, Onward,
           cuts' = 0 => (Whole(text) => CurrentOK(text)),
           Alone' => i # path
    PROVE  disk' \in [Inodes -> Config \cup {Blank, Torn}] /\ FilesOK'
<1>1. /\ disk \in [Inodes -> Config \cup {Blank, Torn}]
      /\ path # None => path \in Inodes
  BY DEF FileInv, TypeOK
<1>2. /\ disk'[i] = text /\ \A j \in Inodes \ {i} : disk'[j] = disk[j]
      /\ disk' \in [Inodes -> Config \cup {Blank, Torn}]
  BY <1>1
<1>3. cuts' = 0 => \A j \in Inodes : Whole(disk'[j]) => CurrentOK(disk'[j])
  BY <1>2 DEF FileInv, FilesOK, Onward
<1>4. Alone' /\ path # None => (Whole(disk'[path]) => CurrentOK(disk'[path]))
  BY <1>1, <1>2 DEF FileInv, FilesOK, Onward
<1> QED  BY <1>2, <1>3, <1>4 DEF FilesOK, Whole, CurrentOK, Has

LEMMA ReturnedOK ==
    ASSUME FileInv, NEW p \in Procs, proc[p].at # "idle"
    PROVE  Returned(p) \in Busy \cup {Idle} /\ CopyOK(Returned(p))
BY BusyType DEF Returned, Busy, CopyOK

LEMMA OpenOK ==
    ASSUME CommandInv, NEW p \in Procs, Open(p)
    PROVE  FileInv'
<1> USE DEF CommandInv
<1>1. PICK i \in Inodes : /\ IF tmp = None THEN i \notin InUse ELSE i = tmp
                          /\ disk' = [disk EXCEPT ![i] = Blank] /\ tmp' = i
                          /\ proc' = [proc EXCEPT ![p] = [proc[p] EXCEPT !.at = "write", !.fd = i]]
  BY DEF Open, Become, Target
<1> DEFINE q == [proc[p] EXCEPT !.at = "write", !.fd = i]
<1>2. proc[p] \in Busy /\ CopyOK(proc[p]) /\ proc[p] # Idle
  BY BusyType DEF Open, At
<1>3. q \in Busy /\ CopyOK(q)
  BY <1>2 DEF Busy, CopyOK
<1>4. Onward
  BY Onwards DEF Open
<1>5. proc' \in [Procs -> Busy \cup {Idle}] /\ CopiesOK'
  BY <1>1, <1>3, <1>4, ProcOK
<1>6. i # path
  BY <1>1 DEF InUse, AloneInv
<1>7. disk' \in [Inodes -> Config \cup {Blank, Torn}] /\ FilesOK'
  BY <1>1, <1>4, <1>6, DiskOK DEF Open, Whole
<1> QED  BY <1>1, <1>5, <1>7 DEF Open, FileInv, TypeOK

(* A busy command that writes has its own temporary file, if it is alone.  *)
LEMMA Writing ==
    ASSUME CommandInv, NEW p \in Procs, proc[p].at = "write"
    PROVE  /\ proc[p] \in Busy /\ CopyOK(proc[p]) /\ proc[p] # Idle
           /\ proc[p].fd \in Inodes /\ disk[proc[p].fd] \in Config \cup {Blank, Torn}
           /\ Alone => /\ proc[p].fd = tmp /\ proc[p].fd # path
                       /\ disk[proc[p].fd] = Blank
<1>1. proc[p] \in Busy /\ CopyOK(proc[p]) /\ proc[p] # Idle
  BY BusyAlone
<1>2. proc[p].fd \in Inodes
  BY <1>1 DEF CopyOK
<1>3. disk[proc[p].fd] \in Config \cup {Blank, Torn}
  BY <1>2 DEF CommandInv, FileInv, TypeOK
<1>4. ASSUME Alone
      PROVE  proc[p].fd = tmp /\ proc[p].fd # path /\ disk[proc[p].fd] = Blank
  BY <1>4, BusyAlone DEF AloneOK, CommandInv, AloneInv
<1> QED  BY <1>1, <1>2, <1>3, <1>4

LEMMA WriteOK ==
    ASSUME CommandInv, NEW p \in Procs, Write(p)
    PROVE  FileInv'
<1> USE DEF CommandInv
<1> DEFINE q == [proc[p] EXCEPT !.at = "rename", !.fd = None]
           i == proc[p].fd
<1>1. PICK text \in Over(proc[p].copy, disk[i]) :
         disk' = [disk EXCEPT ![i] = text] /\ Note("spliced", text \notin {proc[p].copy, Torn})
  BY DEF Write
<1>2. /\ proc[p] \in Busy /\ CopyOK(proc[p]) /\ proc[p] # Idle
      /\ i \in Inodes /\ disk[i] \in Config \cup {Blank, Torn} /\ (Alone => i # path)
  BY Writing DEF Write, At
<1>3. q \in Busy /\ CopyOK(q) /\ proc' = [proc EXCEPT ![p] = q]
  BY <1>2 DEF Busy, CopyOK, Write, Become
<1>4. /\ events' \subseteq {"overlap", "killed", "spliced", "unsaved", "reverted"}
      /\ Onward
  BY <1>1, EventsType, Onwards DEF Write, FileInv
<1>5. proc' \in [Procs -> Busy \cup {Idle}] /\ CopiesOK'
  BY <1>3, <1>4, ProcOK
<1>6. /\ text \in Config \cup {Blank, Torn}
      /\ cuts' = 0 => (Whole(text) => CurrentOK(text))
  <2>1. proc[p].copy \in Config /\ (cuts' = 0 => CurrentOK(proc[p].copy))
    BY <1>2, <1>4 DEF Busy, CopyOK, Safe, Onward
  <2> QED  BY <1>1, <1>2, <2>1, OverOK
<1>7. disk' \in [Inodes -> Config \cup {Blank, Torn}] /\ FilesOK'
  BY <1>1, <1>2, <1>4, <1>6, DiskOK DEF Write, Onward
<1> QED  BY <1>4, <1>5, <1>7 DEF Write, FileInv, TypeOK

LEMMA WriteFailsOK ==
    ASSUME CommandInv, NEW p \in Procs, WriteFails(p)
    PROVE  FileInv'
<1> USE DEF CommandInv
<1> DEFINE i == proc[p].fd
           starts == CutShort(proc[p].copy)
           texts == {disk[i], Torn} \cup starts \cup UNION {Over(start, disk[i]) : start \in starts}
<1>1. PICK text \in texts :
         disk' = [disk EXCEPT ![i] = text] /\ Note("spliced", text \notin {disk[i], Torn} \cup starts)
  BY DEF WriteFails
<1>2. /\ proc[p] \in Busy /\ CopyOK(proc[p]) /\ proc[p] # Idle
      /\ i \in Inodes /\ disk[i] \in Config \cup {Blank, Torn} /\ (Alone => i # path)
  BY Writing DEF WriteFails, At
<1>3. Returned(p) \in Busy \cup {Idle} /\ CopyOK(Returned(p))
  BY ReturnedOK DEF WriteFails, At
<1>4. /\ events' \subseteq {"overlap", "killed", "spliced", "unsaved", "reverted"}
      /\ events \subseteq events'
  BY <1>1, EventsType DEF FileInv
<1>5. cuts' \in 0..MaxCuts /\ cuts' # 0
  BY BoundsAssumption DEF WriteFails, FileInv, TypeOK
<1>6. Onward
  BY <1>4, <1>5 DEF Onward, Alone
<1>7. proc' \in [Procs -> Busy \cup {Idle}] /\ CopiesOK'
  BY <1>3, <1>6, ProcOK DEF WriteFails, Become
<1>8. text \in Config \cup {Blank, Torn}
  <2>1. \A start \in starts : start \in Config
    BY <1>2, CutShortOK DEF Busy
  <2>2. \A start \in starts : \A t \in Over(start, disk[i]) : t \in Config \cup {Blank, Torn}
    BY <1>2, <2>1, OverOK
  <2> QED  BY <1>1, <1>2, <2>1, <2>2
<1>9. disk' \in [Inodes -> Config \cup {Blank, Torn}] /\ FilesOK'
  BY <1>1, <1>2, <1>5, <1>6, <1>8, DiskOK DEF WriteFails, Onward
<1> QED  BY <1>4, <1>5, <1>7, <1>9 DEF WriteFails, FileInv, TypeOK

LEMMA RenameOK ==
    ASSUME CommandInv, NEW p \in Procs, Rename(p)
    PROVE  FileInv'
<1> USE DEF CommandInv
<1>1. Returned(p) \in Busy \cup {Idle} /\ CopyOK(Returned(p))
  BY ReturnedOK DEF Rename, At
<1>2. Onward
  BY Onwards DEF Rename
<1>3. proc' \in [Procs -> Busy \cup {Idle}] /\ CopiesOK'
  BY <1>1, <1>2, ProcOK DEF Rename, Become
<1>4. CASE tmp = None
  <2>1. UNCHANGED fileVars
    BY <1>4 DEF Rename
  <2> QED  BY <1>2, <1>3, <2>1, FilesKept DEF Rename, FileInv, TypeOK, fileVars
<1>5. CASE tmp # None
  <2>1. /\ path' = tmp /\ tmp' = None /\ tmp \in Inodes /\ tmp # path
        /\ disk' = [i \in Inodes |-> IF i = path THEN Blank ELSE disk[i]]
    BY <1>5 DEF Rename, FileInv, TypeOK, AloneInv
  <2>2. disk' \in [Inodes -> Config \cup {Blank, Torn}]
    BY <2>1 DEF FileInv, TypeOK
  <2>3. cuts' = 0 => \A i \in Inodes : Whole(disk'[i]) => CurrentOK(disk'[i])
    BY <1>2, <2>1 DEF FileInv, FilesOK, Onward, Whole
  <2>4. Alone' => CurrentOK(disk'[tmp])
    <3>1. proc[p] # Idle /\ CopyOK(proc[p]) /\ (Alone => disk[tmp] = proc[p].copy)
      BY BusyAlone DEF Rename, At, AloneOK
    <3> QED  BY <1>2, <2>1, <3>1 DEF CopyOK, Safe, Onward
  <2>5. FilesOK'
    BY <2>1, <2>3, <2>4 DEF FilesOK, Whole, CurrentOK, Has
  <2> QED  BY <1>3, <2>1, <2>2, <2>5 DEF Rename, FileInv, TypeOK
<1> QED  BY <1>4, <1>5

-----------------------------------------------------------------------------
(* Save.  A command that is alone finds the temporary file blank once it   *)
(* has opened it, and its own text there when it renames.                  *)
LEMMA OpenKeeps ==
    ASSUME CommandInv, NEW p \in Procs, Open(p)
    PROVE  AloneInv' /\ HomeInv' /\ LoginInv'
<1> USE DEF CommandInv
<1>1. /\ proc[p] \in Busy /\ proc[p] # Idle /\ HomeOK(proc[p], Unspliced, Alone)
      /\ Alone => /\ \A r \in Procs \ {p} : proc[r] = Idle
                  /\ AloneOK(proc[p], File, tmp, disk)
      /\ Calm => SessionOK(proc[p], live)
  BY BusyAlone DEF Open, At
<1>2. PICK i \in Inodes : /\ IF tmp = None THEN i \notin InUse ELSE i = tmp
                          /\ disk' = [disk EXCEPT ![i] = Blank] /\ tmp' = i
                          /\ proc' = [proc EXCEPT ![p] = [proc[p] EXCEPT !.at = "write", !.fd = i]]
  BY DEF Open, Become, Target
<1>3. PICK q : q = [proc[p] EXCEPT !.at = "write", !.fd = i]
  OBVIOUS
<1>4. /\ q.at = "write" /\ q.fd = i /\ q.copy = proc[p].copy /\ q.then = proc[p].then
      /\ q.name = proc[p].name /\ q.via = proc[p].via /\ q.first = proc[p].first
      /\ q.tok = proc[p].tok /\ proc[p].at = "open" /\ q # Idle
  BY <1>1, <1>3 DEF Busy, Open, At, Idle
<1>5. /\ proc'[p] = q /\ \A r \in Procs \ {p} : proc'[r] = proc[r]
      /\ disk'[i] = Blank /\ \A j \in Inodes \ {i} : disk'[j] = disk[j]
      /\ UNCHANGED <<path, live, events, cuts>> /\ Alone' = Alone /\ Unspliced' = Unspliced /\ Calm' = Calm
  BY <1>2, <1>3 DEF Open, FileInv, TypeOK, Alone, Unspliced, Calm
<1>6. i # path /\ i # None
  BY <1>2, NoneAssumption DEF InUse, AloneInv
<1>7. File' = File /\ (path # None => disk'[path] = disk[path])
  BY <1>5, <1>6 DEF File, FileInv, TypeOK
<1>8. AloneInv'
  <2>1. Alone => AloneOK(q, File', tmp', disk')
    BY <1>1, <1>2, <1>4, <1>5, <1>6, <1>7 DEF AloneOK, Calling
  <2>2. Alone => \A r \in Procs : proc'[r] # Idle => AloneOK(proc'[r], File', tmp', disk')
    BY <1>1, <1>5, <2>1
  <2>3. Alone => OneBusy'
    BY <1>1, <1>5 DEF OneBusy
  <2> QED  BY <1>2, <1>5, <1>6, <1>7, <2>2, <2>3 DEF AloneInv
<1>9. HomeInv'
  BY <1>1, <1>4, <1>5 DEF HomeInv, HomeOK, Whole
<1>10. LoginInv'
  <2>1. Calm => SessionOK(q, live)
    BY <1>1, <1>4 DEF SessionOK, Calling
  <2> QED  BY <1>4, <1>5, <2>1 DEF LoginInv
<1> QED  BY <1>8, <1>9, <1>10

LEMMA Homes ==
    /\ Alone \in BOOLEAN /\ Alone' \in BOOLEAN
    /\ Unspliced \in BOOLEAN /\ Unspliced' \in BOOLEAN
BY DEF Alone, Unspliced

LEMMA WriteKeeps ==
    ASSUME CommandInv, NEW p \in Procs, Write(p)
    PROVE  AloneInv' /\ HomeInv' /\ LoginInv'
<1> USE DEF CommandInv
<1>1. /\ proc[p] \in Busy /\ proc[p] # Idle /\ CopyOK(proc[p]) /\ HomeOK(proc[p], Unspliced, Alone)
      /\ Alone => /\ \A r \in Procs \ {p} : proc[r] = Idle
                  /\ AloneOK(proc[p], File, tmp, disk)
      /\ Calm => SessionOK(proc[p], live)
  BY BusyAlone DEF Write, At
<1>2. PICK i \in Inodes : i = proc[p].fd
  BY <1>1 DEF CopyOK, Write, At
<1>3. PICK text \in Over(proc[p].copy, disk[i]) :
         disk' = [disk EXCEPT ![i] = text] /\ Note("spliced", text \notin {proc[p].copy, Torn})
  BY <1>2 DEF Write
<1>4. PICK q : q = [proc[p] EXCEPT !.at = "rename", !.fd = None]
  OBVIOUS
<1>5. /\ q.at = "rename" /\ q.copy = proc[p].copy /\ q.then = proc[p].then
      /\ q.name = proc[p].name /\ q.via = proc[p].via /\ q.first = proc[p].first
      /\ q.tok = proc[p].tok /\ proc[p].at = "write" /\ q # Idle
  BY <1>1, <1>4 DEF Busy, Write, At, Idle
<1>6. /\ proc'[p] = q /\ \A r \in Procs \ {p} : proc'[r] = proc[r]
      /\ disk'[i] = text /\ \A j \in Inodes \ {i} : disk'[j] = disk[j]
      /\ UNCHANGED <<path, tmp, live, cuts>> /\ Alone' = Alone
      /\ Unspliced' => Unspliced /\ text \in {proc[p].copy, Torn}
      /\ Calm' => Calm
  BY <1>3, <1>4 DEF Write, Become, FileInv, TypeOK, Note, Alone, Unspliced, Calm
<1>7. Alone => i = tmp /\ tmp # None /\ i # path /\ text = proc[p].copy
  <2>1. Alone => i = tmp /\ tmp # None /\ i # path /\ disk[i] = Blank
    BY <1>1, <1>2, <1>5 DEF AloneOK, AloneInv
  <2> QED  BY <1>3, <2>1 DEF Over
<1>8. Alone => File' = File /\ (path # None => disk'[path] = disk[path])
  BY <1>6, <1>7 DEF File, FileInv, TypeOK
<1>9. AloneInv'
  <2>1. Alone => AloneOK(q, File', tmp', disk')
    BY <1>1, <1>5, <1>6, <1>7, <1>8 DEF AloneOK, Calling
  <2>2. Alone => \A r \in Procs : proc'[r] # Idle => AloneOK(proc'[r], File', tmp', disk')
    BY <1>1, <1>6, <2>1
  <2>3. Alone => OneBusy'
    BY <1>1, <1>6 DEF OneBusy
  <2> QED  BY <1>6, <1>8, <2>2, <2>3 DEF AloneInv
<1>10. HomeInv'
  <2>1. HomeOK(q, Unspliced', Alone')
    BY <1>1, <1>5, <1>6, Homes, HomeMonotone DEF HomeOK
  <2>2. Whole(text) => HomeCfg(text, Unspliced', Alone')
    <3>1. HomeCfg(proc[p].copy, Unspliced', Alone')
      BY <1>5, <2>1 DEF HomeOK
    <3>2. ASSUME text # proc[p].copy, Whole(text)
          PROVE  ~Unspliced' /\ ~Alone'
      BY <1>6, <1>7, <3>2 DEF Whole
    <3> QED  BY <3>1, <3>2 DEF HomeCfg
  <2>3. \A j \in Inodes \ {i} : Whole(disk[j]) => HomeCfg(disk[j], Unspliced', Alone')
    BY <1>6, Homes, HomeMonotone DEF HomeInv
  <2>4. \A r \in Procs \ {p} : proc[r] # Idle => HomeOK(proc[r], Unspliced', Alone')
    BY <1>6, Homes, HomeMonotone DEF HomeInv, HomeOK
  <2> QED  BY <1>6, <2>1, <2>2, <2>3, <2>4 DEF HomeInv, Whole
<1>11. LoginInv'
  <2>1. Calm => SessionOK(q, live)
    BY <1>1, <1>5 DEF SessionOK, Calling
  <2> QED  BY <1>5, <1>6, <2>1 DEF LoginInv
<1> QED  BY <1>9, <1>10, <1>11

(* What the command is after Save.                                         *)
LEMMA ReturnedFields ==
    ASSUME NEW p \in Procs, proc[p] \in Busy, proc[p].then # "idle"
    PROVE  LET q == Returned(p)
           IN  /\ q.at = "call" /\ q.copy = proc[p].copy /\ q.name = proc[p].name
               /\ q.via = proc[p].via /\ q.first = proc[p].first /\ q.tok = proc[p].tok
               /\ q # Idle /\ proc[p].then = "call"
BY DEF Returned, Busy, Idle

LEMMA WriteFailsKeeps ==
    ASSUME CommandInv, NEW p \in Procs, WriteFails(p)
    PROVE  AloneInv' /\ HomeInv' /\ LoginInv'
<1> USE DEF CommandInv
<1>1. /\ proc[p] \in Busy /\ proc[p] # Idle /\ CopyOK(proc[p]) /\ HomeOK(proc[p], Unspliced, Alone)
      /\ Alone => /\ \A r \in Procs \ {p} : proc[r] = Idle
                  /\ AloneOK(proc[p], File, tmp, disk)
  BY BusyAlone DEF WriteFails, At
<1>2. PICK i \in Inodes : i = proc[p].fd /\ proc[p].at = "write"
  BY <1>1 DEF CopyOK, WriteFails, At
<1> DEFINE starts == CutShort(proc[p].copy)
           texts == {disk[i], Torn} \cup starts \cup UNION {Over(start, disk[i]) : start \in starts}
<1>3. PICK text \in texts :
         disk' = [disk EXCEPT ![i] = text] /\ Note("spliced", text \notin {disk[i], Torn} \cup starts)
  BY <1>2 DEF WriteFails
<1>4. PICK q : q = Returned(p)
  OBVIOUS
<1>5. /\ proc'[p] = q /\ \A r \in Procs \ {p} : proc'[r] = proc[r]
      /\ disk'[i] = text /\ \A j \in Inodes \ {i} : disk'[j] = disk[j]
      /\ UNCHANGED <<path, tmp>> /\ Alone' = Alone /\ ~Calm'
      /\ Unspliced' => Unspliced /\ text \in {disk[i], Torn} \cup starts
  BY <1>3, <1>4, BoundsAssumption
     DEF WriteFails, Become, FileInv, TypeOK, Alone, Unspliced, Calm, Note
<1>6. Alone => i = tmp /\ i # path /\ disk[i] = Blank
  BY <1>1, <1>2 DEF AloneOK, AloneInv
<1>7. Alone => File' = File /\ (path # None => disk'[path] = disk[path])
  BY <1>5, <1>6 DEF File, FileInv, TypeOK
<1>8. q # Idle => /\ Alone => AloneOK(q, File', tmp', disk')
                  /\ HomeOK(q, Unspliced, Alone)
  <2> SUFFICES ASSUME q # Idle
               PROVE  (Alone => AloneOK(q, File', tmp', disk')) /\ HomeOK(q, Unspliced, Alone)
    OBVIOUS
  <2>1. /\ q.at = "call" /\ q.copy = proc[p].copy /\ q.name = proc[p].name
        /\ q.via = proc[p].via /\ q.first = proc[p].first /\ q.tok = proc[p].tok
        /\ proc[p].then = "call"
    BY <1>1, <1>4, ReturnedFields DEF Returned
  <2>2. Alone => AloneOK(q, File', tmp', disk')
    BY <1>1, <1>2, <1>7, <2>1 DEF AloneOK, Calling
  <2> QED  BY <1>1, <2>1, <2>2 DEF HomeOK
<1>9. AloneInv'
  <2>1. Alone => \A r \in Procs : proc'[r] # Idle => AloneOK(proc'[r], File', tmp', disk')
    BY <1>1, <1>5, <1>8
  <2>2. Alone => OneBusy'
    BY <1>1, <1>5 DEF OneBusy
  <2> QED  BY <1>5, <1>7, <2>1, <2>2 DEF AloneInv
<1>10. HomeInv'
  <2>1. q # Idle => HomeOK(q, Unspliced', Alone')
    BY <1>5, <1>8, Homes, HomeMonotone DEF HomeOK
  <2>2. HomeCfg(proc[p].copy, Unspliced', Alone')
    BY <1>1, <1>5, Homes, HomeMonotone DEF HomeOK
  <2>3. \A start \in starts : HomeCfg(start, Unspliced', Alone')
    BY <1>1, <2>2, Homes, CutShortOK DEF Busy
  <2>4. \A j \in Inodes : Whole(disk[j]) => HomeCfg(disk[j], Unspliced', Alone')
    BY <1>5, Homes, HomeMonotone DEF HomeInv
  <2>5. Whole(text) => HomeCfg(text, Unspliced', Alone')
    <3>1. CASE text \in {disk[i], Torn} \cup starts
      BY <3>1, <2>3, <2>4 DEF Whole
    <3>2. CASE text \notin {disk[i], Torn} \cup starts
      <4>1. ~Unspliced'
        BY <1>5, <3>2
      <4>2. ~Alone'
        <5>1. disk[i] = Blank => \A start \in starts : Over(start, disk[i]) = {start}
          BY DEF Over
        <5>2. disk[i] # Blank
          BY <1>3, <3>2, <5>1
        <5> QED  BY <1>5, <1>6, <5>2
      <4> QED  BY <4>1, <4>2 DEF HomeCfg
    <3> QED  BY <3>1, <3>2
  <2>6. \A r \in Procs \ {p} : proc[r] # Idle => HomeOK(proc[r], Unspliced', Alone')
    BY <1>5, Homes, HomeMonotone DEF HomeInv, HomeOK
  <2> QED  BY <1>5, <2>1, <2>4, <2>5, <2>6 DEF HomeInv, Whole
<1>11. LoginInv'
  BY <1>5 DEF LoginInv
<1> QED  BY <1>9, <1>10, <1>11

(* The text that replaces config.yaml is the copy, from which what the     *)
(* command still holds differs in its one context.                         *)
LEMMA RenameKeeps ==
    ASSUME CommandInv, NEW p \in Procs, Rename(p)
    PROVE  AloneInv' /\ HomeInv' /\ LoginInv'
<1> USE DEF CommandInv
<1>1. /\ proc[p] \in Busy /\ proc[p] # Idle /\ HomeOK(proc[p], Unspliced, Alone)
      /\ Alone => /\ \A r \in Procs \ {p} : proc[r] = Idle
                  /\ AloneOK(proc[p], File, tmp, disk)
      /\ Calm => SessionOK(proc[p], live)
  BY BusyAlone DEF Rename, At
<1>2. PICK q : q = Returned(p)
  OBVIOUS
<1>3. /\ proc'[p] = q /\ \A r \in Procs \ {p} : proc'[r] = proc[r]
      /\ UNCHANGED <<live, events, cuts>> /\ Alone' = Alone /\ Unspliced' = Unspliced /\ Calm' = Calm
      /\ proc[p].at = "rename"
  BY <1>2 DEF Rename, Become, FileInv, TypeOK, Alone, Unspliced, Calm, At
<1>4. /\ tmp' # None => tmp' # path'
      /\ \A i \in Inodes : disk'[i] \in {disk[i], Blank}
      /\ Alone => /\ path' = tmp /\ path' \in Inodes /\ disk'[path'] = proc[p].copy
                  /\ proc[p].copy \in Config
  <2>1. CASE tmp = None
    BY <1>1, <1>3, <2>1 DEF Rename, fileVars, AloneInv, AloneOK
  <2>2. CASE tmp # None
    <3>1. /\ path' = tmp /\ tmp' = None /\ tmp \in Inodes /\ tmp # path
          /\ disk' = [i \in Inodes |-> IF i = path THEN Blank ELSE disk[i]]
      BY <2>2 DEF Rename, FileInv, TypeOK, AloneInv
    <3>2. Alone => disk[tmp] = proc[p].copy
      BY <1>1, <1>3 DEF AloneOK
    <3> QED  BY <1>1, <3>1, <3>2 DEF Busy
  <2> QED  BY <2>1, <2>2
<1>5. Alone => File' = proc[p].copy
  BY <1>4, NoneAssumption DEF File
<1>6. q # Idle => /\ q.at = "call" /\ q.copy = proc[p].copy /\ q.name = proc[p].name
                  /\ q.via = proc[p].via /\ q.first = proc[p].first /\ q.tok = proc[p].tok
                  /\ proc[p].then = "call"
  BY <1>1, <1>2, ReturnedFields DEF Returned
<1>7. ASSUME Alone, q # Idle
      PROVE  AloneOK(q, File', tmp', disk')
  <2>1. PICK n \in Names : n = proc[p].name
    BY <1>1 DEF Busy
  <2>2. PICK cfg \in Config : cfg = proc[p].copy
    BY <1>1 DEF Busy
  <2>3. /\ proc[p].via = n /\ SameCurrent(cfg, File, n)
        /\ q.first # None => SameCurrent(q.first, File, n)
    BY <1>1, <1>3, <1>6, <1>7, <2>1, <2>2 DEF AloneOK, Calling
  <2>4. SameCurrent(cfg, cfg, n) /\ Near(cfg, cfg, n)
    BY <2>3, NearSelf DEF SameCurrent
  <2>5. q.first # None => SameCurrent(q.first, cfg, n)
    BY <2>3 DEF SameCurrent, SameBut
  <2> QED  BY <1>5, <1>6, <1>7, <2>1, <2>2, <2>3, <2>4, <2>5 DEF AloneOK
<1>8. AloneInv'
  <2>1. Alone => \A r \in Procs : proc'[r] # Idle => AloneOK(proc'[r], File', tmp', disk')
    BY <1>1, <1>3, <1>7
  <2>2. Alone => OneBusy'
    BY <1>1, <1>3 DEF OneBusy
  <2> QED  BY <1>3, <1>4, <2>1, <2>2 DEF AloneInv
<1>9. HomeInv'
  <2>1. q # Idle => HomeOK(q, Unspliced, Alone)
    BY <1>1, <1>6 DEF HomeOK
  <2> QED  BY <1>3, <1>4, <2>1 DEF HomeInv, Whole
<1>10. LoginInv'
  <2>1. Calm => Live(File', live)
    BY <1>1, <1>5 DEF SessionOK, Alone, Calm
  <2>2. Calm /\ q # Idle => SessionOK(q, live)
    BY <1>1, <1>3, <1>6 DEF SessionOK, Calling
  <2> QED  BY <1>3, <2>1, <2>2 DEF LoginInv
<1> QED  BY <1>8, <1>9, <1>10

-----------------------------------------------------------------------------
LEMMA FileInit == Init => FileInv
BY NoneAssumption, BoundsAssumption DEF Init, FileInv, TypeOK, FilesOK, CopiesOK, CopyOK, Whole

LEMMA FileStep == CommandInv /\ [Next]_vars => FileInv'
<1> SUFFICES ASSUME CommandInv, FileInv, [Next]_vars
             PROVE  FileInv'
  BY DEF CommandInv
<1>1. ASSUME NEW p \in Procs,
             \/ \E n \in Names : Use(p, n) \/ Delete(p, n) \/ \E use \in BOOLEAN : Create(p, n, use)
             \/ \E over \in Names \cup {None} : Login(p, over) \/ Call(p, over) \/ KeyCreate(p, over)
      PROVE  FileInv'
  BY <1>1, StartsOK
<1>2. ASSUME NEW p \in Procs, LoggedIn(p) \/ Again(p) \/ Mint(p) \/ End(p) \/ Kill(p)
      PROVE  FileInv'
  BY <1>2, LoggedInOK, AgainOK, MintOK, EndOK, KillOK
<1>3. ASSUME NEW p \in Procs, NEW rotates \in BOOLEAN, NEW saves \in BOOLEAN,
             Refresh(p, rotates, saves)
      PROVE  FileInv'
  BY <1>3, RefreshOK
<1>4. ASSUME NEW p \in Procs, Open(p) \/ Write(p) \/ WriteFails(p) \/ Rename(p)
      PROVE  FileInv'
  BY <1>4, OpenOK, WriteOK, WriteFailsOK, RenameOK
<1>5. CASE UNCHANGED vars
  BY <1>5 DEF vars, FileInv, TypeOK, FilesOK, CopiesOK, CopyOK, Whole, CurrentOK, Has, Safe, Alone
<1> QED  BY <1>1, <1>2, <1>3, <1>4, <1>5 DEF Next

LEMMA CommandInit == Init => CommandInv
<1> SUFFICES ASSUME Init PROVE CommandInv
  OBVIOUS
<1>1. FileInv
  BY FileInit
<1>2. File = EmptyConfig /\ path = None /\ tmp = None /\ \A p \in Procs : proc[p] = Idle
  BY DEF Init, File
<1>3. AloneInv /\ HomeInv
  BY <1>2 DEF Init, AloneInv, OneBusy, HomeInv, Whole
<1>4. Live(File, live)
  BY <1>2 DEF EmptyConfig, Live, Has
<1> QED  BY <1>1, <1>2, <1>3, <1>4 DEF CommandInv, LoginInv

LEMMA CommandNext == CommandInv /\ [Next]_vars => CommandInv'
<1> SUFFICES ASSUME CommandInv, [Next]_vars PROVE CommandInv'
  OBVIOUS
<1>0. FileInv'
  BY FileStep
<1>1. ASSUME NEW p \in Procs,
             \/ \E n \in Names : Use(p, n) \/ Delete(p, n) \/ \E use \in BOOLEAN : Create(p, n, use)
             \/ \E over \in Names \cup {None} : Login(p, over) \/ Call(p, over) \/ KeyCreate(p, over)
      PROVE  AloneInv' /\ HomeInv' /\ LoginInv'
  BY <1>1, StartsKeep
<1>2. ASSUME NEW p \in Procs, LoggedIn(p) \/ Again(p) \/ Mint(p) \/ End(p) \/ Kill(p)
      PROVE  AloneInv' /\ HomeInv' /\ LoginInv'
  BY <1>2, LoggedInKeeps, AgainKeeps, MintKeeps, EndKeeps, KillKeeps
<1>3. ASSUME NEW p \in Procs, NEW rotates \in BOOLEAN, NEW saves \in BOOLEAN,
             Refresh(p, rotates, saves)
      PROVE  AloneInv' /\ HomeInv' /\ LoginInv'
  BY <1>3, RefreshKeeps
<1>4. ASSUME NEW p \in Procs, Open(p) \/ Write(p) \/ WriteFails(p) \/ Rename(p)
      PROVE  AloneInv' /\ HomeInv' /\ LoginInv'
  BY <1>4, OpenKeeps, WriteKeeps, WriteFailsKeeps, RenameKeeps
<1>5. CASE UNCHANGED vars
  <2>1. /\ UNCHANGED <<disk, path, tmp, proc, live, events, cuts>>
        /\ File' = File /\ Alone' = Alone /\ Unspliced' = Unspliced /\ Calm' = Calm
    BY <1>5 DEF vars, File, Alone, Unspliced, Calm
  <2>2. AloneInv'
    BY <2>1 DEF CommandInv, AloneInv, OneBusy
  <2>3. HomeInv' /\ LoginInv'
    BY <2>1 DEF CommandInv, HomeInv, Whole, LoginInv
  <2> QED  BY <1>0, <2>2, <2>3 DEF CommandInv
<1> QED  BY <1>0, <1>1, <1>2, <1>3, <1>4, <1>5 DEF Next, CommandInv

LEMMA CommandCorrect == Spec => []CommandInv
BY CommandInit, CommandNext, PTL DEF Spec

(* Every file holds a config, nothing, or a text that does not parse, and  *)
(* every command is where the code can be, however commands overlap, die   *)
(* and are cut short.                                                      *)
THEOREM TypeCorrect == Spec => []TypeOK
<1>1. CommandInv => TypeOK
  BY DEF CommandInv, FileInv
<1> QED  BY <1>1, CommandCorrect, PTL

(* Overlapping commands, crashes and spliced texts do not leave a file     *)
(* whose current context is not one of its contexts (Config.Delete, Use),  *)
(* nor does a write cut short while commands do not overlap.               *)
THEOREM CurrentCorrect == Spec => []CurrentExists
<1>1. CommandInv => CurrentExists
  BY LoadedType DEF CommandInv, FileInv, CurrentExists, Safe, Alone
<1> QED  BY <1>1, CommandCorrect, PTL

(* Unless texts were spliced, refresh tokens are only ever in the context  *)
(* whose IdP issued them, and while commands do not overlap so are keys.   *)
THEOREM HomeCorrect == Spec => []TokensStayHome
<1>1. CommandInv => TokensStayHome
  BY LoadedHome DEF CommandInv, TokensStayHome, HomeCfg, Own, Alone, Unspliced
<1> QED  BY <1>1, CommandCorrect, PTL

(* Between commands, while nothing harmful has happened, every refresh     *)
(* token in the file is one that its IdP accepts.                          *)
THEOREM LoginCorrect == Spec => []LoginLasts
<1>1. CommandInv => LoginLasts
  BY LoadedFile DEF CommandInv, LoginLasts, SessionsUsable, Quiet, LoginInv, Live, Alone, Calm
<1> QED  BY <1>1, CommandCorrect, PTL

-----------------------------------------------------------------------------
(* Refinement.  A start is BeginCommand, the rename Change, and whatever   *)
(* ends a command EndCommand; a command that starts while another is busy  *)
(* is Overlap, and so is every later step.                                 *)
LEMMA AboutBusy ==
    ASSUME NEW f, NEW p \in Procs, f[p] # Idle, \A r \in Procs \ {p} : f[r] = Idle
    PROVE  LET busy == {r \in Procs : f[r] # Idle}
           IN  (IF busy = {} THEN None ELSE f[CHOOSE r \in busy : TRUE].name) = f[p].name
<1>1. {r \in Procs : f[r] # Idle} = {p}
  OBVIOUS
<1>2. (CHOOSE r \in {p} : TRUE) = p
  OBVIOUS
<1> QED  BY <1>1, <1>2

LEMMA AboutNone ==
    ASSUME NEW f, \A r \in Procs : f[r] = Idle
    PROVE  LET busy == {r \in Procs : f[r] # Idle}
           IN  (IF busy = {} THEN None ELSE f[CHOOSE r \in busy : TRUE].name) = None
OBVIOUS

LEMMA RegisterInitialized == Init => RegisterOf!RegisterInit
<1> SUFFICES ASSUME Init PROVE RegisterOf!RegisterInit
  OBVIOUS
<1>1. /\ path = None /\ \A p \in Procs : proc[p] = Idle
      /\ "overlap" \notin events
  BY DEF Init
<1>2. About = None
  BY <1>1, AboutNone DEF About
<1> QED  BY <1>1, <1>2 DEF RegisterOf!RegisterInit, EmptyConfig

(* The steps of a command that is alone and stays so.                      *)
LEMMA RegisterQuiet ==
    ASSUME CommandInv, NEW p \in Procs, NEW q, proc' = [proc EXCEPT ![p] = q],
           proc[p] # Idle, Alone, Alone', File' = File,
           q # Idle => q.name = proc[p].name
    PROVE  [RegisterOf!RegisterNext]_(RegisterOf!registerVars)
<1> USE DEF CommandInv
<1>1. /\ \A r \in Procs \ {p} : proc[r] = Idle
      /\ \A r \in Procs \ {p} : proc'[r] = Idle
      /\ proc'[p] = q
  BY OnlyBusy DEF FileInv, TypeOK
<1>2. About = proc[p].name /\ proc[p].name \in Names
  BY <1>1, AboutBusy DEF About, FileInv, TypeOK, Busy
<1>3. /\ ("overlap" \notin events) = TRUE /\ ("overlap" \notin events') = TRUE
      /\ (IF path' = None THEN EmptyConfig ELSE disk'[path'])
           = (IF path = None THEN EmptyConfig ELSE disk[path])
  BY DEF Alone, File
<1>4. CASE q = Idle
  <2>1. About' = None
    BY <1>1, <1>4, AboutNone DEF About
  <2>2. About # None
    BY <1>2, NoneAssumption
  <2> QED  BY <1>3, <2>1, <2>2 DEF RegisterOf!RegisterNext, RegisterOf!EndCommand
<1>5. CASE q # Idle
  <2>1. About' = About
    BY <1>1, <1>2, <1>5, AboutBusy DEF About
  <2> QED  BY <1>3, <2>1 DEF RegisterOf!registerVars
<1> QED  BY <1>4, <1>5

LEMMA RegisterStart ==
    ASSUME CommandInv, NEW p \in Procs, NEW at, NEW over, NEW n \in Names, NEW copy, NEW tok,
           Start(p, at, over, n, copy, tok), at # "idle", Alone'
    PROVE  RegisterOf!BeginCommand(n)
<1> USE DEF CommandInv
<1> DEFINE q == [at |-> at, over |-> over, name |-> n, via |-> n, copy |-> copy,
                 first |-> None, tok |-> tok, then |-> "idle", fd |-> None]
<1>1. /\ Alone /\ \A r \in Procs : proc[r] = Idle
      /\ proc' = [proc EXCEPT ![p] = q] /\ UNCHANGED fileVars
  BY DEF Start, Note, Alone
<1>2. q # Idle /\ q.name = n
  BY DEF Idle
<1>3. proc'[p] = q /\ \A r \in Procs \ {p} : proc'[r] = Idle
  BY <1>1 DEF FileInv, TypeOK
<1> HIDE DEF q
<1>4. About = None /\ About' = n
  BY <1>1, <1>2, <1>3, AboutNone, AboutBusy DEF About
<1>5. /\ ("overlap" \notin events) = TRUE /\ ("overlap" \notin events') = TRUE
      /\ (IF path' = None THEN EmptyConfig ELSE disk'[path'])
           = (IF path = None THEN EmptyConfig ELSE disk[path])
  BY <1>1 DEF Alone, fileVars
<1> QED  BY <1>4, <1>5 DEF RegisterOf!BeginCommand

LEMMA RegisterRename ==
    ASSUME CommandInv, NEW p \in Procs, Rename(p), Alone
    PROVE  \E n \in Names : RegisterOf!Change(n)
<1> USE DEF CommandInv
<1>1. /\ proc[p] \in Busy /\ proc[p] # Idle /\ proc[p].at = "rename"
      /\ \A r \in Procs \ {p} : proc[r] = Idle
      /\ AloneOK(proc[p], File, tmp, disk)
  BY BusyAlone DEF Rename, At
<1>2. PICK n \in Names : n = proc[p].name
  BY <1>1 DEF Busy
<1>3. PICK q : q = Returned(p)
  OBVIOUS
<1>4. /\ proc'[p] = q /\ \A r \in Procs \ {p} : proc'[r] = Idle
      /\ events' = events
  BY <1>1, <1>3 DEF Rename, Become, FileInv, TypeOK
<1>5. q # Idle => q.name = n
  BY <1>1, <1>2, <1>3, ReturnedFields DEF Returned
<1>6. About = n /\ About' \in {n, None}
  <2>1. About = n
    BY <1>1, <1>2, AboutBusy DEF About
  <2>2. q = Idle => About' = None
    BY <1>4, AboutNone DEF About
  <2>3. q # Idle => About' = n
    BY <1>4, <1>5, AboutBusy DEF About
  <2> QED  BY <2>1, <2>2, <2>3
<1>7. File' = proc[p].copy /\ proc[p].copy \in Config
  <2>1. tmp # None /\ disk[tmp] = proc[p].copy /\ tmp # path /\ tmp \in Inodes
    BY <1>1 DEF AloneOK, AloneInv, FileInv, TypeOK
  <2>2. path' = tmp /\ disk' = [i \in Inodes |-> IF i = path THEN Blank ELSE disk[i]]
    BY <2>1 DEF Rename
  <2> QED  BY <1>1, <2>1, <2>2 DEF File, Busy
<1>8. Near(File', File, n)
  BY <1>1, <1>2, <1>7 DEF AloneOK
<1>9. /\ ("overlap" \notin events) = TRUE /\ ("overlap" \notin events') = TRUE
      /\ File = (IF path = None THEN EmptyConfig ELSE disk[path])
      /\ File' = (IF path' = None THEN EmptyConfig ELSE disk'[path'])
  BY <1>4 DEF Alone, File
<1>10. File' \in RegisterOf!Register
  BY <1>7 DEF Config, RegisterOf!Register
<1> QED
  BY <1>6, <1>8, <1>9, <1>10 DEF RegisterOf!Change, Near, SameBut

LEMMA RegisterStep ==
    CommandInv /\ [Next]_vars => [RegisterOf!RegisterNext]_(RegisterOf!registerVars)
<1> SUFFICES ASSUME CommandInv, [Next]_vars
             PROVE  [RegisterOf!RegisterNext]_(RegisterOf!registerVars)
  OBVIOUS
<1>1. CASE ~Alone'
  <2>1. ("overlap" \notin events') = FALSE
    BY <1>1 DEF Alone
  <2> QED  BY <2>1 DEF RegisterOf!RegisterNext, RegisterOf!Overlap
<1>2. CASE UNCHANGED vars
  <2>1. /\ (IF path' = None THEN EmptyConfig ELSE disk'[path'])
             = (IF path = None THEN EmptyConfig ELSE disk[path])
        /\ About' = About /\ events' = events
    BY <1>2 DEF vars, About
  <2> QED  BY <2>1 DEF RegisterOf!registerVars
<1>3. ASSUME NEW p \in Procs, NEW n \in Names, Alone',
             Use(p, n) \/ Delete(p, n) \/ \E use \in BOOLEAN : Create(p, n, use)
      PROVE  RegisterOf!BeginCommand(n)
  BY <1>3, RegisterStart DEF Use, Delete, Create
<1>4. ASSUME NEW p \in Procs, NEW over \in Names \cup {None}, Alone',
             Login(p, over) \/ Call(p, over) \/ KeyCreate(p, over)
      PROVE  \E n \in Names : RegisterOf!BeginCommand(n)
  <2>1. PICK n \in Names : n = Resolved(Loaded, over)
    BY <1>4 DEF Login, Call, KeyCreate, Has
  <2>2. RegisterOf!BeginCommand(n)
    BY <1>4, <2>1, RegisterStart DEF Login, Call, KeyCreate
  <2> QED  BY <2>2
<1>5. ASSUME NEW p \in Procs, Alone', LoggedIn(p) \/ Again(p) \/ Mint(p) \/ End(p) \/ Kill(p)
      PROVE  [RegisterOf!RegisterNext]_(RegisterOf!registerVars)
  <2>1. proc[p] # Idle /\ Alone /\ UNCHANGED fileVars
    BY <1>5 DEF LoggedIn, Again, Mint, End, Kill, Idle, Note, Alone
  <2>2. File' = File
    BY <2>1 DEF fileVars, File
  <2>3. \E q : proc' = [proc EXCEPT ![p] = q] /\ (q # Idle => q.name = proc[p].name)
    <3>1. proc[p] \in Busy
      BY <2>1 DEF CommandInv, FileInv, TypeOK
    <3>2. \A copy, then : Saving(p, copy, then).name = proc[p].name
      BY <3>1 DEF Saving, Busy
    <3>3. CASE LoggedIn(p)
      BY <3>2, <3>3 DEF LoggedIn, Become
    <3>4. CASE Again(p)
      <4>1. PICK n : proc' = [proc EXCEPT ![p] =
                       [proc[p] EXCEPT !.at = "call", !.via = n, !.over = None,
                                       !.first = proc[p].copy, !.copy = Loaded,
                                       !.tok = Loaded.contexts[n].refresh]]
        BY <3>4 DEF Again, Become
      <4>2. [proc[p] EXCEPT !.at = "call", !.via = n, !.over = None,
                            !.first = proc[p].copy, !.copy = Loaded,
                            !.tok = Loaded.contexts[n].refresh].name = proc[p].name
        BY <3>1 DEF Busy
      <4> QED  BY <4>1, <4>2
    <3>5. CASE Mint(p)
      <4>1. PICK copy : proc' = [proc EXCEPT ![p] =
                          [Saving(p, copy, "idle") EXCEPT !.first = None]]
        BY <3>5 DEF Mint, Become
      <4>2. [Saving(p, copy, "idle") EXCEPT !.first = None].name = proc[p].name
        BY <3>1 DEF Saving, Busy
      <4> QED  BY <4>1, <4>2
    <3>6. CASE End(p) \/ Kill(p)
      BY <3>6 DEF End, Kill, Become
    <3> QED  BY <1>5, <3>3, <3>4, <3>5, <3>6
  <2> QED  BY <1>5, <2>1, <2>2, <2>3, RegisterQuiet
<1>6. ASSUME NEW p \in Procs, NEW rotates \in BOOLEAN, NEW saves \in BOOLEAN, Alone',
             Refresh(p, rotates, saves)
      PROVE  [RegisterOf!RegisterNext]_(RegisterOf!registerVars)
  <2>1. proc[p] # Idle /\ Alone /\ UNCHANGED fileVars
    BY <1>6 DEF Refresh, Idle, Note, Alone
  <2>2. File' = File
    BY <2>1 DEF fileVars, File
  <2>3. PICK t, copy :
          proc' = [proc EXCEPT ![p] =
                     [(IF saves THEN Saving(p, copy, "call") ELSE proc[p]) EXCEPT !.tok = t]]
    BY <1>6 DEF Refresh, Become
  <2>4. PICK q : q = [(IF saves THEN Saving(p, copy, "call") ELSE proc[p]) EXCEPT !.tok = t]
    OBVIOUS
  <2>5. q.name = proc[p].name
    <3>1. proc[p] \in Busy
      BY <2>1 DEF CommandInv, FileInv, TypeOK
    <3>2. CASE saves
      BY <2>4, <3>1, <3>2 DEF Saving, Busy
    <3>3. CASE ~saves
      BY <2>4, <3>1, <3>3 DEF Busy
    <3> QED  BY <3>2, <3>3
  <2> QED  BY <1>6, <2>1, <2>2, <2>3, <2>4, <2>5, RegisterQuiet
<1>7. ASSUME NEW p \in Procs, Alone', Open(p) \/ Write(p) \/ WriteFails(p)
      PROVE  [RegisterOf!RegisterNext]_(RegisterOf!registerVars)
  <2>1. /\ proc[p] # Idle /\ proc[p] \in Busy /\ Alone
        /\ AloneOK(proc[p], File, tmp, disk)
    BY <1>7, BusyAlone DEF Open, Write, WriteFails, At, Note, Alone
  <2>2. File' = File
    <3>1. CASE Open(p)
      <4>1. PICK i \in Inodes : /\ IF tmp = None THEN i \notin InUse ELSE i = tmp
                                /\ disk' = [disk EXCEPT ![i] = Blank]
        BY <3>1 DEF Open, Target
      <4>2. i # path /\ path' = path
        BY <3>1, <4>1 DEF Open, InUse, CommandInv, AloneInv
      <4> QED  BY <4>1, <4>2 DEF File, CommandInv, FileInv, TypeOK
    <3>2. CASE Write(p) \/ WriteFails(p)
      <4>1. proc[p].fd = tmp /\ tmp # None /\ tmp # path
        BY <2>1, <3>2 DEF AloneOK, CommandInv, AloneInv, Write, WriteFails, At
      <4>2. path' = path /\ \E text : disk' = [disk EXCEPT ![tmp] = text]
        BY <3>2, <4>1 DEF Write, WriteFails
      <4> QED  BY <4>1, <4>2 DEF File, CommandInv, FileInv, TypeOK
    <3> QED  BY <1>7, <3>1, <3>2
  <2>3. \E q : proc' = [proc EXCEPT ![p] = q] /\ (q # Idle => q.name = proc[p].name)
    <3>1. CASE Open(p)
      BY <2>1, <3>1 DEF Open, Become, Busy
    <3>2. CASE Write(p)
      <4>1. proc' = [proc EXCEPT ![p] = [proc[p] EXCEPT !.at = "rename", !.fd = None]]
        BY <3>2 DEF Write, Become
      <4>2. [proc[p] EXCEPT !.at = "rename", !.fd = None].name = proc[p].name
        BY <2>1 DEF Busy
      <4> QED  BY <4>1, <4>2
    <3>3. CASE WriteFails(p)
      <4>1. proc' = [proc EXCEPT ![p] = Returned(p)]
        BY <3>3 DEF WriteFails, Become
      <4>2. Returned(p) # Idle => Returned(p).name = proc[p].name
        BY <2>1, ReturnedFields DEF Returned
      <4> QED  BY <4>1, <4>2
    <3> QED  BY <1>7, <3>1, <3>2, <3>3
  <2> QED  BY <1>7, <2>1, <2>2, <2>3, RegisterQuiet
<1>8. ASSUME NEW p \in Procs, Alone', Rename(p)
      PROVE  RegisterOf!RegisterNext
  <2>1. Alone
    BY <1>8 DEF Rename, Alone
  <2> QED  BY <1>8, <2>1, RegisterRename DEF RegisterOf!RegisterNext
<1>9. CASE Alone' /\ Next
  BY <1>3, <1>4, <1>5, <1>6, <1>7, <1>8, <1>9 DEF Next, RegisterOf!RegisterNext
<1> QED  BY <1>1, <1>2, <1>9

(* While commands do not overlap, config.yaml is a register that each of   *)
(* them changes at once and in its own context, wherever one is killed and *)
(* whatever an earlier one left in the temporary file.                     *)
THEOREM RegisterRefinement == Spec => KeepsRegister
BY RegisterInitialized, RegisterStep, CommandCorrect, PTL
   DEF Spec, KeepsRegister, RegisterOf!RegisterSpec

(* Whoever reads the file finds a whole config whose current context is in *)
(* it, as long as commands have not overlapped.  The register alone says   *)
(* so: nothing about temporary files is needed any more.                   *)
THEOREM ReadersCorrect == Spec => []RegisterOf!FileGood
<1>1. RegisterOf!RegisterInit => RegisterOf!FileGood
  BY DEF RegisterOf!RegisterInit, RegisterOf!FileGood, RegisterOf!Register
<1>2. RegisterOf!FileGood /\ [RegisterOf!RegisterNext]_(RegisterOf!registerVars)
        => RegisterOf!FileGood'
  BY DEF RegisterOf!RegisterNext, RegisterOf!registerVars, RegisterOf!BeginCommand,
         RegisterOf!Change, RegisterOf!EndCommand, RegisterOf!Overlap, RegisterOf!FileGood,
         RegisterOf!Register
<1>3. RegisterOf!RegisterSpec => []RegisterOf!FileGood
  BY <1>1, <1>2, PTL DEF RegisterOf!RegisterSpec
<1> QED  BY <1>3, RegisterRefinement, PTL DEF KeepsRegister
=============================================================================
