---------------------------- MODULE ContextFile ----------------------------
(***************************************************************************)
(* internal/config and the commands of internal/cli that change the        *)
(* context file: each loads the whole file, changes its copy and saves all *)
(* of it, through one temporary file that all commands share.  A command   *)
(* that calls the proxy may also be handed rotated tokens by the identity  *)
(* provider (IdP), and saves its copy with them.  Commands of one user may *)
(* overlap, and any of them may be killed.                                 *)
(*                                                                         *)
(* A context is what the commands keep of it: its refresh token, which     *)
(* stands for the set of cached tokens, and its API key; cut short, either *)
(* counts as none.  Its settings, which only create touches, and static    *)
(* tokens and client secrets, with which nothing is cached, are left out.  *)
(* The file is block YAML, current-context first: much of what is cut      *)
(* short, or written over a longer text, still parses.  Of two contexts of *)
(* one name the first counts.  Operators called Fault... are seeded bugs,  *)
(* no part of the specification.                                           *)
(***************************************************************************)
EXTENDS Naturals, FiniteSets

CONSTANTS
    Procs,           \* processes of qw that may run at the same time
    Names,           \* names of contexts
    Inodes,          \* enough for config.yaml and what each process writes
    SendsIDToken,    \* bearerPref: the ID token, or else the access token
    MaxRuns,         \* bound on the commands run
    MaxIssued,       \* bound on the credentials issued
    MaxCuts,         \* bound on the writes cut short
    None, Absent, Blank, Torn

ASSUME InodesAssumption ==
    IsFiniteSet(Procs) /\ IsFiniteSet(Inodes) /\ Cardinality(Inodes) > Cardinality(Procs)
ASSUME BoundsAssumption ==
    MaxRuns \in Nat /\ MaxIssued \in Nat /\ MaxCuts \in Nat /\ SendsIDToken \in BOOLEAN
ASSUME NoneAssumption == None \notin Names \cup Inodes

VARIABLES
    disk,            \* what each inode holds
    path, tmp,       \* the inodes of config.yaml and config.yaml.tmp, or None
    proc,            \* what each process is doing
    live,            \* the refresh tokens the IdP accepts
    issued, runs,    \* how many credentials and commands there have been
    cuts,            \* how many writes have been cut short
    events           \* history: what has happened that can do harm

vars == <<disk, path, tmp, proc, live, issued, runs, cuts, events>>
fileVars == <<disk, path, tmp>>

(* A credential says whose it is: the context it was issued for.           *)
Credentials == Names \X (1..MaxIssued)
Auth == [refresh : Credentials \cup {None}, key : Credentials \cup {None}]
Config == [current : Names \cup {None}, contexts : [Names -> Auth \cup {Absent}]]

ASSUME AbsentAssumption == Absent \notin Auth
ASSUME TextAssumption == Blank \notin Config /\ Torn \notin Config

NoAuth == [refresh |-> None, key |-> None]
EmptyConfig == [current |-> None, contexts |-> [n \in Names |-> Absent]]

Idle == [at |-> "idle"]
Busy == [at : {"login", "again", "call", "open", "write", "rename"},
         over : Names \cup {None},        \* --context, for adminRequest
         name : Names, via : Names,       \* the context saved, the one called
         copy : Config,                   \* what the next save writes
         first : Config \cup {None},      \* apikey create's own copy
         tok : Credentials \cup {None},   \* held by the token source
         then : {"call", "idle"},         \* where Save returns to
         fd : Inodes \cup {None}]

TypeOK ==
    /\ disk \in [Inodes -> Config \cup {Blank, Torn}]
    /\ path \in Inodes \cup {None} /\ tmp \in Inodes \cup {None}
    /\ proc \in [Procs -> Busy \cup {Idle}]
    /\ live \subseteq Credentials
    /\ issued \in 0..MaxIssued /\ runs \in 0..MaxRuns /\ cuts \in 0..MaxCuts
    /\ events \subseteq {"overlap", "killed", "spliced", "unsaved", "reverted"}

Init ==
    /\ disk = [i \in Inodes |-> Blank]
    /\ path = None /\ tmp = None
    /\ proc = [p \in Procs |-> Idle]
    /\ live = {} /\ issued = 0 /\ runs = 0 /\ cuts = 0 /\ events = {}

Note(what, occurs) == events' = IF occurs THEN events \cup {what} ELSE events

-----------------------------------------------------------------------------
(* Load: no file, and an empty one, are an empty config; a text that does  *)
(* not parse ends the command (Readable).                                  *)
Text == IF path = None THEN Blank ELSE disk[path]
Readable == Text # Torn
Loaded == IF Text \in {Blank, Torn} THEN EmptyConfig ELSE Text

Has(cfg, n) == n \in Names /\ cfg.contexts[n] # Absent

(* Resolve: the override, else the current context.                        *)
Resolved(cfg, over) == IF over # None THEN over ELSE cfg.current

(* A command that reads the file and goes on to "at" with its copy of it.  *)
Start(p, at, over, name, copy, tok) ==
    /\ proc[p] = Idle /\ Readable /\ runs < MaxRuns
    /\ proc' = [proc EXCEPT ![p] =
           [at |-> at, over |-> over, name |-> name, via |-> name, copy |-> copy,
            first |-> None, tok |-> tok, then |-> "idle", fd |-> None]]
    /\ runs' = runs + 1
    /\ Note("overlap", \E q \in Procs : proc[q] # Idle)
    /\ UNCHANGED <<fileVars, live, issued, cuts>>

(* context use, create and delete change their copy at once.               *)
Use(p, n) ==
    Has(Loaded, n) /\ Start(p, "open", None, n, [Loaded EXCEPT !.current = n], None)

FaultUpsert(cfg, n) == [EmptyConfig EXCEPT !.contexts[n] = NoAuth]
FaultOnly(cfg, n) == [current |-> cfg.current, contexts |-> [m \in {n} |-> NoAuth]]
Upsert(cfg, n) ==
    [cfg EXCEPT !.contexts[n] = IF Has(cfg, n) THEN cfg.contexts[n] ELSE NoAuth]

Create(p, n, use) ==
    Start(p, "open", None, n,
        [Upsert(Loaded, n) EXCEPT !.current = IF use \/ @ = None THEN n ELSE @], None)

FaultDangling(cfg, n) == [cfg EXCEPT !.contexts[n] = Absent]
Without(cfg, n) ==
    [cfg EXCEPT !.contexts[n] = Absent, !.current = IF @ = n THEN None ELSE @]

Delete(p, n) == Has(Loaded, n) /\ Start(p, "open", None, n, Without(Loaded, n), None)

(* login, a command that calls the proxy, and apikey create.  A stored key *)
(* spares a call the token only while it lasts, and key management never;  *)
(* without a token only login gets anywhere.                               *)
Login(p, over) ==
    LET n == Resolved(Loaded, over) IN
    Has(Loaded, n) /\ Start(p, "login", None, n, Loaded, None)

Call(p, over) ==
    LET n == Resolved(Loaded, over) IN
    /\ Has(Loaded, n) /\ Loaded.contexts[n].refresh # None
    /\ Start(p, "call", None, n, Loaded, Loaded.contexts[n].refresh)

KeyCreate(p, over) ==
    LET n == Resolved(Loaded, over) IN
    Has(Loaded, n) /\ Start(p, "again", over, n, Loaded, None)

-----------------------------------------------------------------------------
(* A busy process goes on with some of its fields changed.                 *)
Become(p, q) == proc' = [proc EXCEPT ![p] = q]

(* Save starts; when it is through the command goes on at "then".          *)
Saving(p, copy, then) == [proc[p] EXCEPT !.at = "open", !.copy = copy, !.then = then]

(* tokensToConfig: the tokens replace all of a context's Auth.             *)
FaultKeepsOld(cfg, n, t) ==
    [cfg EXCEPT !.contexts[n] = [refresh |-> IF @.refresh = None THEN t ELSE @.refresh, key |-> None]]
WithTokens(cfg, n, t) == [cfg EXCEPT !.contexts[n] = [refresh |-> t, key |-> None]]

Issued(n) == <<n, issued + 1>>

LoggedIn(p) ==
    /\ proc[p].at = "login" /\ issued < MaxIssued
    /\ LET n == proc[p].name IN
        /\ live' = live \cup {Issued(n)}
        /\ Become(p, Saving(p, WithTokens(proc[p].copy, n, Issued(n)), "idle"))
    /\ issued' = issued + 1
    /\ UNCHANGED <<fileVars, runs, cuts, events>>

(* adminRequest loads the file and resolves the context for itself.        *)
Again(p) ==
    LET n == Resolved(Loaded, proc[p].over) IN
    /\ proc[p].at = "again" /\ Readable
    /\ Has(Loaded, n) /\ Loaded.contexts[n].refresh # None
    /\ Become(p, [proc[p] EXCEPT !.at = "call", !.via = n, !.over = None,
                                 !.first = proc[p].copy, !.copy = Loaded,
                                 !.tok = Loaded.contexts[n].refresh])
    /\ UNCHANGED <<fileVars, live, issued, runs, cuts, events>>

(* The access token has expired: oauth2 refreshes, with a new refresh      *)
(* token if the IdP rotates them.  idTokenSource saves only if an ID token *)
(* came along; persistingSource always does.                               *)
FaultOtherContext(q) == IF q.copy.current # None THEN q.copy.current ELSE q.via
Refreshed(q) == q.via

Refresh(p, rotates, saves) ==
    LET q == proc[p]
        t == IF rotates THEN Issued(q.via) ELSE q.tok IN
    /\ q.at = "call" /\ q.tok \in live
    /\ rotates => issued < MaxIssued
    /\ saves \/ SendsIDToken
    /\ live' = IF rotates THEN (live \ {q.tok}) \cup {t} ELSE live
    /\ issued' = IF rotates THEN issued + 1 ELSE issued
    /\ Become(p, [(IF saves THEN Saving(p, WithTokens(q.copy, Refreshed(q), t), "call") ELSE q)
                      EXCEPT !.tok = t])
    /\ Note("unsaved", ~saves)
    /\ UNCHANGED <<fileVars, runs, cuts>>

(* apikey create: the key goes into the first copy.                        *)
Mint(p) ==
    LET q == proc[p] IN
    /\ q.at = "call" /\ q.first # None /\ issued < MaxIssued
    /\ Become(p, [Saving(p, [q.first EXCEPT !.contexts[q.name] =
                                [@ EXCEPT !.key = Issued(q.via)]], "idle") EXCEPT !.first = None])
    /\ issued' = issued + 1
    /\ Note("reverted", q.first.contexts[q.name].refresh # q.tok)
    /\ UNCHANGED <<fileVars, live, runs, cuts>>

(* A command ends: it is done, or login, a request or a load failed.       *)
End(p) ==
    /\ proc[p].at \in {"login", "again", "call"}
    /\ Become(p, Idle)
    /\ UNCHANGED <<fileVars, live, issued, runs, cuts, events>>

-----------------------------------------------------------------------------
(* Save: os.WriteFile opens (and truncates) the temporary file and writes  *)
(* it, os.Rename puts it in place.  The refresh ignores errors of Save.    *)
At(p, where) == proc[p].at = where

FaultInPlace == path
Target == tmp

InUse == {path, tmp} \cup {proc[p].fd : p \in {q \in Procs : proc[q] # Idle}}

Open(p) ==
    /\ At(p, "open")
    /\ \E i \in Inodes :
        /\ IF Target = None THEN i \notin InUse ELSE i = Target
        /\ disk' = [disk EXCEPT ![i] = Blank]
        /\ tmp' = i
        /\ Become(p, [proc[p] EXCEPT !.at = "write", !.fd = i])
    /\ UNCHANGED <<path, live, issued, runs, cuts, events>>

(* What parses of a text that was cut short.  In its first line current    *)
(* may have become another name.  After that some contexts are whole and   *)
(* the last one has lost its key, its tokens or the end of its name; in    *)
(* which order a file lists its contexts is left open.                     *)
Present(cfg) == {n \in Names : cfg.contexts[n] # Absent}

Parts(a) == {Absent, NoAuth} \cup (IF a = Absent THEN {} ELSE {a, [a EXCEPT !.key = None]})

Kept(cfg, whole, last, part) ==
    [cfg EXCEPT !.contexts = [n \in Names |-> IF n \in whole THEN cfg.contexts[n]
                                              ELSE IF n = last THEN part ELSE Absent]]
CutShort(cfg) ==
    {[EmptyConfig EXCEPT !.current = n] : n \in Names \cup {None}}
    \cup UNION {{Kept(cfg, whole, last, part) : whole \in SUBSET Present(cfg),
                                               part \in Parts(cfg.contexts[last])} : last \in Names}

(* What parses of a text followed by the end of a longer one, which it was *)
(* written over: the rest may add contexts, and complete the last context  *)
(* of the new text with tokens that are missing there.                     *)
Completed(a, b) ==
    {a} \cup {[refresh |-> a.refresh, key |-> k] : k \in IF a.key = None THEN {b.key} ELSE {}}
       \cup {[refresh |-> r, key |-> b.key] : r \in IF a = NoAuth THEN {b.refresh} ELSE {}}

Added(new, old, more, last, auth) ==
    [new EXCEPT !.contexts = [n \in Names |-> IF n = last THEN auth
                                              ELSE IF n \in more THEN old.contexts[n] ELSE @[n]]]
Spliced(new, old) ==
    {Added(new, old, more, None, Absent) : more \in SUBSET (Present(old) \ Present(new))}
    \cup UNION {{Added(new, old, more, last, auth) :
                    more \in SUBSET (Present(old) \ Present(new)),
                    auth \in Completed(new.contexts[last], old.contexts[m])}
               : last \in Present(new), m \in Present(old)}

(* A text written into a file that holds "old": it replaces what another   *)
(* command has written there meanwhile if it is at least as long.          *)
Over(text, old) ==
    IF old \in {Blank, text} THEN {text}
    ELSE {text, Torn} \cup (IF old = Torn THEN {} ELSE Spliced(text, old))

Write(p) ==
    /\ At(p, "write")
    /\ \E text \in Over(proc[p].copy, disk[proc[p].fd]) :
        /\ disk' = [disk EXCEPT ![proc[p].fd] = text]
        /\ Note("spliced", text \notin {proc[p].copy, Torn})
    /\ Become(p, [proc[p] EXCEPT !.at = "rename", !.fd = None])
    /\ UNCHANGED <<path, tmp, live, issued, runs, cuts>>

Returned(p) == IF proc[p].then = "idle" THEN Idle
               ELSE [proc[p] EXCEPT !.at = "call", !.fd = None]

(* The disk is full: Save returns the error and leaves what was written.   *)
(* (A process killed in the middle of the write does the same, then Kill.) *)
WriteFails(p) ==
    LET old == disk[proc[p].fd]
        starts == CutShort(proc[p].copy) IN
    /\ At(p, "write") /\ cuts < MaxCuts
    /\ \E text \in {old, Torn} \cup starts \cup UNION {Over(start, old) : start \in starts} :
        /\ disk' = [disk EXCEPT ![proc[p].fd] = text]
        /\ Note("spliced", text \notin {old, Torn} \cup starts)
    /\ cuts' = cuts + 1
    /\ Become(p, Returned(p))
    /\ UNCHANGED <<path, tmp, live, issued, runs>>

(* Rename moves whatever file has the name, and fails without one.  The    *)
(* file it replaces is gone.                                               *)
Rename(p) ==
    /\ At(p, "rename")
    /\ IF tmp = None THEN UNCHANGED fileVars
       ELSE /\ path' = tmp /\ tmp' = None
            /\ disk' = [i \in Inodes |-> IF i = path THEN Blank ELSE disk[i]]
    /\ Become(p, Returned(p))
    /\ UNCHANGED <<live, issued, runs, cuts, events>>

(* Ctrl-C or SIGKILL: the process is gone, the files stay.  (Save does not *)
(* fsync: what a power cut leaves on the disk is not modelled.)            *)
Kill(p) ==
    /\ proc[p] # Idle
    /\ Become(p, Idle)
    /\ Note("killed", TRUE)
    /\ UNCHANGED <<fileVars, live, issued, runs, cuts>>

Next ==
    \E p \in Procs :
        \/ \E n \in Names : Use(p, n) \/ Delete(p, n) \/ \E use \in BOOLEAN : Create(p, n, use)
        \/ \E over \in Names \cup {None} : Login(p, over) \/ Call(p, over) \/ KeyCreate(p, over)
        \/ LoggedIn(p) \/ Again(p) \/ Mint(p) \/ End(p)
        \/ \E rotates, saves \in BOOLEAN : Refresh(p, rotates, saves)
        \/ Open(p) \/ Write(p) \/ WriteFails(p) \/ Rename(p)
        \/ Kill(p)

Spec == Init /\ [][Next]_vars

-----------------------------------------------------------------------------
Whole(text) == text \notin {Blank, Torn}

CurrentOK(cfg) == cfg.current # None => Has(cfg, cfg.current)

(* config.yaml never names a current context that it does not have, though *)
(* commands overlap, splice their texts and die, or though writes are cut  *)
(* short: a text that was cut gets there only by the rename of a command   *)
(* that overlapped, so it takes both.                                      *)
CurrentExists == ("overlap" \notin events \/ cuts = 0) => (Readable => CurrentOK(Loaded))

(* No command saves the tokens of one context's IdP into another context;  *)
(* only a text spliced of two can do that.  A key may get there if the     *)
(* current context was switched meanwhile.                                 *)
TokensStayHome ==
    Readable => \A n \in Names : Has(Loaded, n) =>
        /\ "spliced" \notin events =>
               Loaded.contexts[n].refresh \in ({n} \X (1..MaxIssued)) \cup {None}
        /\ "overlap" \notin events =>
               Loaded.contexts[n].key \in ({n} \X (1..MaxIssued)) \cup {None}

(* "Write via a temp file + rename so a crash can't leave a half-written   *)
(* ... config": while commands do not overlap, and though each writes all  *)
(* of the file, it is a register that a command changes at once, and in    *)
(* the context it is about, wherever one dies and whatever an earlier one  *)
(* left in the temporary file.                                             *)
About ==
    LET busy == {p \in Procs : proc[p] # Idle} IN
    IF busy = {} THEN None ELSE proc[CHOOSE p \in busy : TRUE].name

RegisterOf ==
    INSTANCE ContextRegister WITH
        file <- IF path = None THEN EmptyConfig ELSE disk[path],
        about <- About,
        alone <- "overlap" \notin events

KeepsRegister == RegisterOf!RegisterSpec

Quiet == \A p \in Procs : proc[p] = Idle

SessionsUsable ==
    Quiet /\ Readable => \A n \in Names : Has(Loaded, n) => Loaded.contexts[n].refresh \in live \cup {None}

(* A login lasts: between commands the file holds a refresh token that the *)
(* IdP accepts, unless commands overlapped, one died or was cut short,     *)
(* a refresh came without an ID token, or apikey create refreshed.         *)
LoginLasts == (events = {} /\ cuts = 0) => SessionsUsable

=============================================================================
