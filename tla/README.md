# Verification of quickwit-cli

This directory models the two programs of the repository in TLA+: `qw`, the
command-line client, and `qwproxy`, the proxy that authenticates people and
agents, lets only read requests through to Quickwit, and writes an audit record
of each call to Postgres. TLC checks the modules on small instances; TLAPS
proves theorems about them for every value of their constants. Every definition
is translated from `src/`; `PROJECT.json` maps each one to its lines.

## 1. The system

| Component | Source | State it keeps | Operations | Modelled by |
|---|---|---|---|---|
| Audit writer | `internal/audit/writer.go` | bounded channel, batch, three atomic counters, closed flag | `Log`, the worker's `select`, `flush`, `Close`, cancelled context | `AuditWriter`, `AuditLedger` |
| Audit table | `internal/audit/pgx.go`, `schema.sql` | monthly partitions of `qw_audit`, the DEFAULT partition | `EnsurePartitions`, `InsertBatch` | `AuditPartitions`; `InsertBatch` in `AuditWriter` |
| Proxy process | `cmd/qwproxy/main.go` | where `run` is, open connections, the shutdown deadline | start, serve, signal, `Shutdown`, `Close`, release of the pools | `Qwproxy` |
| Request handler | `internal/proxy/proxy.go`, `metrics.go` | one request: credentials, body, recorder, record, metrics | `authenticate`, allowlist, body capture, forwarding, recording | `ProxyHandler` |
| API keys, service accounts | `internal/apikey`, `internal/proxy/apikeys.go`, `serviceaccounts.go` | two tables in Postgres | create, revoke, disable, authenticate, stamp last use, list, warn | `ApiKeyStore` |
| Context file | `internal/config`, `internal/cli/app.go`, `context.go`, `apikey.go`, `login.go`, `configcmd.go`, token sources of `internal/oidc` | `config.yaml`, its temporary file, the copies each command holds, the token source | load, save, use, create, delete, login, refresh, key create | `ContextFile`, `ContextRegister` |
| Login | `internal/oidc/oidc.go`, `internal/cli/login.go` | the loopback listener, state and verifier, a channel of one place | bind, callback, exchange, device code, shutdown, interrupt | `LoginFlow`; the save at its end is in `ContextFile` |
| Token verification | `internal/oidc/verify.go`, configuration of `cmd/qwproxy/main.go` | the accepted audiences | `validate`, `Verify` | `ProxyHandler` |
| Tail | `internal/cli/search.go` | window, dedup set | poll, print, move the window, forget, stop | `Tail` |
| Self-update | `internal/selfupdate`, `internal/cli/upgrade.go` | the binary, the staged copy | download, verify, extract, stage, rename | `SelfUpdate` |
| Quickwit client, output, root commands | `internal/qw`, `internal/cli/output.go`, ... | none | build a request, decode, print | not modelled: no state of their own |
| Deployment | `charts`, `deploy`, CI | configuration | - | not modelled |

How they interact. Each HTTP request runs in its own goroutine through
`Handler.ServeHTTP` (**ProxyHandler**), which asks the key store
(**ApiKeyStore**) whether a key authorizes, hands the request to
`httputil.ReverseProxy`, and then calls `Writer.Log` (**AuditWriter**). Handlers
share only the channel and the atomic counters. The worker goroutine takes
records off the channel and inserts them in batches into a table whose
partitions are made at startup by every replica (**AuditPartitions**). `main`
(**Qwproxy**) waits for a signal or a listener error, calls `Server.Shutdown`
and `Writer.Close` under one deadline of 15 s and returns; the signal's context
is also the context of the worker. Replicas share only Postgres. `qw` has no
running process: its commands share a configuration file (**ContextFile**), and
`qw upgrade` the binary and a staged copy beside it (**SelfUpdate**). `qw tail`
(**Tail**) talks to Quickwit alone. `qw login` (**LoginFlow**) meets the browser and
the identity provider, and any other login on the machine, on one fixed port.

What is hard to test here: the pick of a `select` between a cancelled context, a
closed channel and records still on it; counters that are added to after the channel
is released; an insert that commits and fails to say so, or says so and does not
commit; a send on a closed channel; a shutdown with handlers that never return and a
database that hangs; two replicas in the middle of their startups, in different
months; a key that is revoked, or whose account is disabled, while it is being
judged or minted; three credentials in one request; two commands in one temporary
file, one of them killed or out of disk, and what is left still parses; a refresh
token that is rotated while another command holds the old one; documents indexed
late and out of order while tail polls; two upgrades that write, rename and remove
one staged file; a browser tab that outlives the login it was opened for.
`PROJECT.json` lists each hazard at its line with the properties that would catch
it.

## 2. Modules

`AuditLedger` is the abstract specification of the audit trail: every record
handed over gets one verdict (refused, or queued and then written or lost),
batches are judged as a whole, and what is declared written is a row unless the
commit of its batch broke, which is told to nobody.

`AuditWriter` is the writer. `ch`, `closed`, `enqueued`, `dropped`, `written`
are the fields of `Writer`; `batch` is the worker's slice; `handler`, `worker`
and `closer` say where the goroutines are. Actions are the separately
observable steps: a handler's send or refusal (`LogSend`, `LogRefuse`,
`LogPanic`) and its later count (`CountEnqueued`, `CountRefused`); the four
cases of the worker's select (`Receive`, `Tick`, `SeeClosed`, `SeeCancelled`),
each with the `flush` it runs; the outcomes of an insert; `CloseCall`,
`CloseDone`, `CloseGiveUp`; `CancelCtx`. An insert is one implicit transaction that
commits at the Sync behind its statements: `InsertCommit` is followed by `InsertOk`,
or by `InsertErr` if the answer is lost; `InsertErr` alone is a statement that
failed; and in `CommitBreaks` each statement has given its result and the commit
then fails, which only `br.Close()` reports, whose error `pgx.go:138` discards, so
`InsertOk` follows here too. `rows` is the table; `fate` (what became of each
record) and `broken` (whose commit broke) are history. One handler logs one record.

`Qwproxy` EXTENDS `AuditWriter` and puts it in the process. Requests arrive, look
a key up, reach `Log`, return or are aborted; `Signal` is `CancelCtx`, because `main`
gives the worker the signal's context; `main` goes through starting, serving, draining,
closing, unwinding and exited. The environment's freedom of `AuditWriter`
(anyone may close or cancel at any time) becomes the order of `run`.

`AuditPartitions` is the table over the months: several replicas, each going
through the statements of `EnsurePartitions` with the month it read at its
start, serving and inserting, and dying anywhere. Postgres routes rows to a
month or to DEFAULT and refuses a partition for a month that DEFAULT has rows of.

`ProxyHandler` is one request: `authenticate` by bearer, X-ID-Token and
X-API-Key in that order, the allowlist, the capture of a search body, the
recorder under `ReverseProxy`, the audit record and the metrics. Paths are the
classes the allowlist tells apart; a body is empty, JSON, other text, longer
than the limit, or broken off. A token is forged or names audiences, which `Verify`
compares with those of the configuration, and `validate` says which configurations
start. The verdict on a key is an input.

`ApiKeyStore` is the two tables under concurrent requests. One SQL statement is
one step, so `CreateServiceAccountKey` (`ResolveAccount`, `InsertAccountKey`),
`Authenticate` (`Lookup`, `Decide`, then `TouchLastUsed` in the background) take
several. `Duration` is the product that makes a `time.Duration` of days, and wraps
around; a request's days (`Clamped`, `Expiry`) and a label's (`KeyTTL`) both go
through it; the history field `asked` of a row is the label its key was minted with.
`Delete` is the dispatch of DELETE requests. `ActiveKeys`, `StaleKeys` and `KeyStatus`
are the three reports people see about keys. The proxy's warning has the threshold
of its configuration (`UnusedFor`, `QWPROXY_SA_STALE_DAYS`), `qw` one of its own
(`StaleAfter`, 90 days).

`ContextFile` is the file, down to inodes: `path` and `tmp` are what the names
`config.yaml` and `config.yaml.tmp` refer to. A command loads the file, changes
its copy (`Use`, `Create`, `Delete` at once; `Login`, `Call` and `KeyCreate` after a
call) and saves it by `Open` (create or truncate), `Write`, `Rename`; a write may be
cut short (`WriteFails`, bounded by `MaxCuts`) and any process may be killed. The file
is block YAML with `current-context` first, so what is left of a cut text may parse:
`CutShort` says as what, with some contexts whole and the last one in part. A command
that writes into the inode another is writing, or has renamed, replaces a prefix of
what is there (`Over`); if the old text is longer, the result may parse as a mixture
of both (`Spliced`), or not at all (`Torn`). `Refresh` is the token source
inside a call, `Again` the second load that `adminRequest` makes. A credential
names the context it was issued for; `live` is what the identity provider still
accepts. `events` remembers what happened that a property excludes, and `cuts` counts
the writes cut short.

`ContextRegister` is what a command promises of the file, abstractly: while commands
run one at a time, each changes the context it is about, and the name of the
current one, in a single step, and leaves all else as it was. `ContextFile`
implements it (`KeepsRegister`): a command's `Rename` is the register's `Change`, and
loading, writing the temporary file and dying in between are stutters.

`Tail` is the poll loop: `ReadClock`, `Search` or `SearchFails`, then the `select`
between the ticker (`Tick`) and the context (`Stop`), while documents are indexed
(`Index`) with any time, time passes and a Ctrl-C comes. `Moved` is the next start
of the window, `Kept` the dedup set, `Factor` what `parseHitTS` makes of the unit of
the timestamp field.

`SelfUpdate` is `qw upgrade` from the download to the rename, several at a time.
A binary is two halves, written at the offset of the process that writes; the
name of the staged copy refers to an inode that another process may truncate,
rename over the binary, or remove.

`LoginFlow` is `Login` and `LoginDevice` under `runLogin`: `Bind` (one login has the
port, another fails), `Open`, the `select` (`Take` and `Cancelled`, either of which may
win), `Exchange` and `ExchangeFails`, and the deferred calls (`CloseListener`, then
`Shutdown` or `ShutdownTimesOut`, then the process is gone). `calls` are the requests
of the browser, each in its handler: `Send` puts the answer on the channel of one
place, and blocks while it is full; `Page` is the handler's return, with which the
page goes out. The user signs in, again, or refuses; a redirect may be followed at
any later time, any number of times, and reaches whichever login listens then.
`MaxCalls` bounds the requests, `MaxGrants` the codes of a login.

The `..._proofs` modules hold the theorems and proofs of the module they are named
for; `AuditWriter_proofs` holds those of `Qwproxy` too, since they rest on the
writer's invariants, and begins with lemmas on sequences and `Functions!Range`. `MC...`
modules define symmetry and give TLC its instances. Operators whose name begins with
`Fault` are seeded bugs (a dropped guard, an off-by-one, a missing reset), one
for each property of a passing run; putting one in the place of the definition
below it makes that property fail. They are no part of a specification.

## 3. What is checked

| Run | Instance | Shows |
|---|---|---|
| `audit_writer` | 3 records, channel 1, batch 2 | counters account for every record (`CountersAgree`); a pending record is in one place (`QueuedOnce`); a record counted as written is a row or its own commit broke unseen, and no row is there twice (`RowsFaithful`); a Close that finishes drains unless the context was cancelled (`CleanCloseDrains`); the writer implements the ledger (`KeepsLedger`); a queued record settles, and closing or cancelling stops the worker (`RecordSettles`) |
| `qwproxy_shutdown` | 3 requests, channel 1, batch 2 | a handler panics in `Log` only past the deadline (`PanicOnlyPastDeadline`); the last log line's figures plus what was left on the channel are the answered requests (`LastLineAccounts`); what an exit loses uncounted is bounded (`StrandedBounded`); a signalled proxy ends unless a key lookup hangs (`SignalStops`) |
| `audit_partitions` | 2 replicas, 5 months, retention 2 | a started replica has two months' partitions whatever the others do (`TwoMonthsReady`); no month within the retention is dropped (`KeepsRecent`) |
| `proxy_handler` | every request of the model, replies of up to 2 chunks | only reads reach Quickwit, with a credential that is valid for this deployment (`UpstreamGuarded`); a user's token beats a key (`AttributedToUser`); capturing does not change the body (`BodyIntact`); a completed call is recorded and counted once, and the record shows the reply (`RecordShowsReply`) |
| `api_keys` | 2 users, 1 account, 2 keys, 1 two-step request, clock 0 to 2, requests past twice what a duration holds, the labels "never", one day and one too long, thresholds 0 and 1 | authentication is as of one instant of the request (`AuthenticateExact`); a dead key stays dead (`DeathIsFinal`); the keys an account is said to have and those warned of work, and the stale keys by the proxy's threshold and by `qw`'s contain each other as the thresholds do (`ReportsAgree`); personal keys expire within the limit whatever was asked for, and an account's key lives exactly as long as its own label says, for ever only if that is "never"; of labels longer than a `Duration` nothing is said (`LifetimesKept`) |
| `context_file` | 2 processes, 2 contexts, 4 commands, 3 credentials, 3 inodes, 1 write cut short | the current context exists in the file, though commands overlap, splice their texts and die, or though writes are cut short (`CurrentExists`: it takes both to break it); without overlap, and whatever dies or is cut, the file is a register of which a command changes its own context at once (`KeepsRegister`); refresh tokens stay in their context unless texts were spliced, API keys while nothing overlaps (`TokensStayHome`); a login lasts unless one of five named events occurs or a write is cut short (`LoginLasts`) |
| `tail` | 3 documents, pages and dedup set of 2, overlap 2 | no document in time is missed (`NoneMissed`); on a quiet index tail falls silent, and Ctrl-C ends it (`Settles`) |
| `self_update` | 3 processes, 2 versions, 4 upgrades, 4 inodes | without overlap the binary is always whole (`AlwaysRunnable`); nothing unverified is installed (`OnlyVerified`); overlapping upgrades to one version leave it whole in the end (`OverlapHeals`) |
| `login_flow` | 2 logins, 3 callbacks, 1 code each | a login redeems only a code of its own, once (`RedeemsOwn`); a login that succeeds has shown its page (`PageShown`); Ctrl-C, or the end of the device code, ends it (`LoginsEnd`) |
| `qwproxy_close_flushes` | 2 requests | violated: see 6 |
| `audit_partitions_blocked` | 1 replica | violated: see 6 |
| `proxy_unaudited` | every request of the model | violated: see 6 |

Every module that models code, but for `Qwproxy`, which has few variables of its
own, has a type invariant `TypeOK` that its run checks as well.

Why the bounds are enough. In the writer, three records fill a channel of one
while a batch of two waits or is being inserted, or find it full; they also
leave a partial batch, so each way of reaching `flush` and each way of finding
the channel full occur. One record on the channel, one in the batch and one late
suffice for the shutdown.
The theorems of section 5 hold for any size. Two replicas are
enough for a stale one to meet a fresh one; five months let a month age past the
retention and a replica sleep through one. For keys, two keys let one of an
account live beside a personal one; an account may be resolved before a disable
and minted after it; the clock passes every expiry of the instance. A single
two-step request runs beside every single-statement operation; two such
requests touch each other only through the rows. In the context file two
processes are enough for one to load, write or rename between two steps of the
other; four commands let one set up a context, one log in and two collide; three
credentials let a token be rotated and a key be minted after a login. One write cut
short, before or after an overlap, puts a text that parses in the way of every later
command, and it is already enough to break `CurrentExists` once commands overlap as
well. Three
processes that upgrade let one remove what a second renames while a third
writes; the fourth upgrade is the one that finds what is left. In the login flow
two logins are one whose tab is stray and one it reaches; of three callbacks one ends
the wait, one fills the channel behind it and one blocks. Two audiences are this
deployment's and another's. A duration of -4 to 3 days has lifetimes that wrap to
less than zero and to a small positive one. In tail three
documents overflow a page and a dedup set of two, with one late and one in time.

What the abstractions leave out. Which cut and mixed texts parse is
over-approximated: contexts may be listed in any order, any of them may be the ones
kept or added, of two with one name the first counts, and a token or key that is cut
in its middle counts as none. What is written over a text that does not parse is the
new text or does not parse either. A process dies, a machine does not: `Save` calls no
fsync, so what a power cut leaves is not covered. Static tokens, client secrets and the
settings of a context are left out of the file, because no refresh touches them.
All binaries are equally long. Tail tells documents apart by their text: two
lines with one text are one document. Which version an upgrade asks for is an
input. A code names the login whose challenge it is bound to, and its state is that
login's: that nobody guesses either is not in question here. A duration overflows at
a whole number of days.

Deadlock is not checked: the process really ends, a request really ends, and the
calendar and the clock of the models are bounded.

## 4. Fairness

- `InsertsReturn`, a premise of `RecordSettles` only: the worker
  keeps running (its ticker always makes a case ready, so fairness is of the
  select as a whole, never of one case: which ready case is taken stays open)
  and an insert returns in the end, with a result or an error.
- `ServerFairSpec`: `main` and the worker run (startup has a timeout of 30 s), the
  15 s timer fires, and an insert returns once its context is cancelled, which is what pgx does.
  Handlers may stream for ever and nothing is assumed of the database otherwise.
  `LookupsReturn`, the premise of `SignalStops`: again and again no key lookup is
  under way. No timeout of the code makes it so.
- `FairSpec` of `Tail`: the loop as a whole goes on, because a request is answered or
  fails and the ticker ticks. Neither case of the `select` is fair by itself, and
  a search may fail at any time. `Settles` holds because, after an interrupt, a search whose
  context is cancelled fails, though the select may take the ticker first.
- `Spec` of `LoginFlow`: the process goes on (`Main`), the second that its `Shutdown`
  waits passes, and the polling of a device code ends, because the code expires.
  The user, the browser, the identity provider and the handlers may stall for ever:
  that Ctrl-C ends a login all the same is what `LoginsEnd` says. `Main` is one
  process, so its fairness never says which ready case a `select` takes.
- `AuditPartitions`, `ProxyHandler`, `ApiKeyStore`, `ContextFile` and `SelfUpdate` state
  safety only.

## 5. What is proved

| Theorem | States |
|---|---|
| `AuditWriter_proofs!TypeCorrect` | `Spec => []TypeOK`: the channel and the batch never exceed their capacities |
| `QueueCorrect` | `[]QueuedOnce` |
| `CloseCorrect` | `[]CleanCloseDrains` |
| `RowsCorrect` | `[]RowsFaithful` |
| `CountersCorrect` | `[]CountersAgree` |
| `Refinement` | `Spec => KeepsLedger`: the writer implements `AuditLedger` |
| `VerdictsCorrect` | what the ledger promises: what is declared written is a row or its commit broke, verdicts are final, rows stay |
| `ServerRefinement` | `ServerSpec => Spec /\ KeepsLedger`: the process implements the writer |
| `PanicCorrect` | `ServerSpec => []PanicOnlyPastDeadline` |
| `LastLineCorrect` | `[]LastLineAccounts` |
| `StrandedCorrect` | `[]StrandedBounded`, for any capacity and batch size |
| `AuditPartitions_proofs!TypeCorrect` | `[]TypeOK` |
| `ReadyCorrect` | `[]TwoMonthsReady` |
| `RetentionCorrect` | `KeepsRecent` |
| `ProxyHandler_proofs!TypeCorrect` | `[]TypeOK` |
| `GuardCorrect` | `[]UpstreamGuarded`, whatever audiences are configured |
| `AttributionCorrect` | `[]AttributedToUser` |
| `BodyCorrect` | `[]BodyIntact` |
| `RecordCorrect` | `[]RecordShowsReply`, for replies of any length |
| `ContextFile_proofs!TypeCorrect` | `[]TypeOK` |
| `CurrentCorrect` | `[]CurrentExists`, for any number of processes, contexts and cut writes |
| `HomeCorrect` | `[]TokensStayHome` |
| `LoginCorrect` | `[]LoginLasts` |
| `RegisterRefinement` | `Spec => KeepsRegister`: the file implements `ContextRegister` |
| `ReadersCorrect` | what the register promises: without overlap a reader finds a whole config whose current context exists |
| `Tail_proofs!TypeCorrect` | `[]TypeOK` |
| `NoneMissedCorrect` | `NoneMissed`, for any window, overlap, page and dedup set |
| `SelfUpdate_proofs!TypeCorrect` | `[]TypeOK` |
| `VerifiedCorrect` | `[]OnlyVerified`, for any number of processes and versions |
| `RunnableCorrect` | `[]AlwaysRunnable` |
| `HealCorrect` | `[]OverlapHeals`, for any number of processes and versions |
| `ApiKeyStore_proofs!TypeCorrect` | `[]TypeOK` |
| `AuthenticateCorrect` | `[]AuthenticateExact` |
| `LifetimesCorrect` | `[]LifetimesKept`, for any lifetimes asked for or configured and any width of a `Duration` (of overlong labels it says nothing) |
| `DeathCorrect` | `DeathIsFinal` |
| `ReportsCorrect` | `[]ReportsAgree`, for any two thresholds |
| `LoginFlow_proofs!TypeCorrect` | `[]TypeOK` |
| `RedeemsCorrect` | `[]RedeemsOwn`, for any number of logins, callbacks and codes |
| `PageCorrect` | `[]PageShown` |

Assumptions: options are at least one (`withDefaults` makes them so), the set of
records is finite (cardinalities are compared with counters), the retention and
the last month are naturals, the processes and inodes of the two file models
are finite and there is one inode more than processes (so a free one exists:
each process holds at most one), the parameters of tail are naturals with an
overlap and a page that are what the code's constants are; `maxTTL` is positive and
less than a `Duration` holds, lifetimes are whole numbers; the bounds of `LoginFlow`
are naturals. `None`, `Absent`, `Blank`, `Torn`, `Bad`, `Gap`, `Never`, `Failure` and
`Forged` are no members of what they are told apart from (a config, for `Blank` and
`Torn`, the texts that do not parse; a body, a method or a record, for the `None` of
`ProxyHandler`). Nothing else is assumed.

The writer. None of the invariants is inductive. `QueueInv` strengthens `QueuedOnce`
by the type invariant, by control (which worker states go with an empty or a full
batch, and that an exited worker was closed or cancelled) and by `HandlerFate`: a
record that is not yet logged or is being refused is not queued, so that a send
cannot put a record on the channel twice. `RowsInv` adds `CommittedBatch` and
`BrokenBatch`: a batch in state "committed" is in the table, and one in state
"broken" is among the broken; without them `InsertOk` could declare written what is
neither. `BrokenCounted` says that what broke has been declared written or is about
to be, so it is never inserted again. `CountersCorrect` follows with cardinality
lemmas (one more, one less, a disjoint union, and that an injective sequence has as
many elements as its length). The refinement is a step simulation: `LogSend` is
`Accept`, `LogRefuse` is `Refuse`, `InsertCommit`, `CommitBreaks`, `InsertOk` and
`InsertErr` are `Commit`, `Break`, `Confirm` and `GiveUp` of the batch, and
everything else stutters. `VerdictsCorrect` is proved of the ledger alone and
carried over by the refinement.

The process. Every step of `ServerNext` is a step of the writer or leaves it alone
(`ServerStepIsWriterStep`), so `QueueInv` and `CountersAgree` hold of the process with
the proofs they have. `ServerInv` adds what `main` makes true: where it is goes with
where the closer is (`PhaseInv`), a request whose handler is past `Log` is active or
answered (`ConnInv`), and a channel that was closed before the deadline was closed
with no request active. From that, a handler can find the channel closed only past
the deadline; after a drained shutdown nobody is inside `Log`, so the answered
requests are exactly those with a fate, which the counters count; and what is
queued is on the channel or in the batch, once each, so their capacities bound it.

The partitions. `Prepared` says what a replica has made so far: after its first
statement its own month, after the second the next one too, and that its start
is not after the calendar. It is inductive because another replica drops only a
month that is `Retention` >= 1 before its own start, and so before the calendar.

The handler. `HandlerInv` says of each place of `ServeHTTP` what is known there of
the credentials: which were tried and found invalid on the way to it, and that
whoever is past `authenticate` has one that is valid, the user's if there is one
(`CredentialsInv`). `RouteInv` says that what is past the allowlist may be read,
`BodyInv` what the captured and restored body is, `ReplyInv` that the recorder has
counted what was sent and has the final status unless an informational one came
first, and `RecordInv` that a record is a copy of the recorder. Each of the four
properties is then read off at the place where its event happens.

The context file. A save writes the copy a command made steps ago, so
`CurrentExists` is not inductive. `FileInv` adds `CopiesOK`: every copy a process
holds names a current context it has, the first copy of `apikey create` still
has the context its key is for, and a writer has its file open; and `FilesOK`, which
says the same of the files. Both hold of everything until a write is cut short; after
it, what holds is that `config.yaml` and the copies made from it are right for as
long as commands do not overlap (`Safe`), while the temporary file may hold anything.
That splicing two right texts gives a right one is `SplicedOK`: the new text keeps its
first line and its contexts, and the rest of the old one only adds to them.

What holds without overlap needs `AloneInv`: at most one command is busy, its copy
differs from the file in its own context only and has a current context the register
allows (`Near`, `SameCurrent`), and its temporary file is empty after `Open` and holds
exactly the copy after `Write`, whatever an earlier command that died or was cut short
left there. With it the refinement is a step simulation: `Start` is
`BeginCommand`, `Rename` is `Change`, a command's end or death is `EndCommand`, the
second command to start is `Overlap`, and the rest stutters. `HomeInv` follows every
token to where it can be: the file, each inode, each copy and the first copy of `apikey
create`; of refresh tokens it holds with overlaps too, until two texts are spliced.
Cutting a text short moves no token (`CutShortOK`). `LoginInv` adds that while none of
the five events has occurred and no write was cut, every copy of a busy command holds
live tokens (but for the first copy of `apikey create`, in the context that was called),
and so does the file unless a save is under way: `Refresh` kills the old token before
the file has the new.

Tail. `WindowInv` says where the window may be: its start is at most `Since`, or
more than `Overlap` before the last end (`StartOK`), so that what is indexed in time
later falls into it; and everything indexed in time has been printed or is not
before the start (`Covered`). A search prints all of its page, and the window
moves at most to the newest line printed, less the overlap, so both are kept
while no page was cut and the timestamps are in seconds or milliseconds.

The upgrade. `OnlyVerified` speaks of the installed file, which another process
may have written: `UpdateInv` says that no inode anywhere holds an unverified
byte, and `ArchiveOK` that whoever is past the check carries what it verified.
`SwapInv` is for upgrades that do not overlap: the one that is busy has its staged copy
written up to where it is, from the start, with halves of its own version, and the name
refers to its inode, never to the installed one. `HealInv` is for those that overlap, to
one version: each half of the installed and of the staged file is that version's or will
still be written by an upgrade that has the file open, so what nobody has open is whole.

The keys. `KeyInv` adds to the invariants what links the tables and the requests:
`NothingDangles` (a key's account, the account a key is being minted for, and the
row a request has read exist) and `LookupsRight`, which says of a request that has
read its row, with no regard to what became of the row since, that `alive` is
what the row says about the time it was read. `Authorizes` looks at the clock
later, and the clock only moves on, so a grant implies that the key was alive and
a denial that it was dead or has expired. `StepKeeps` is what every step leaves of
a minted row - its account and expiry stay, a revocation and a disabled account
stay - and `DeathIsFinal` follows. Only `account # "absent"` in `NothingDangles` keeps
`CreateServiceAccount` from reviving the keys of an account. For the lifetimes,
each key is held to the label in its own row (`Lasts`), which no step changes
(`AccountKeysLastOK`), and `KeyTTLFacts` says up to where the product of days is what
was asked for: a label of less than `Half` days. For the reports, `LastUse` and one
clock make the two stale tests comparable, so whichever threshold is the longer, its
keys are among the other's.

The login. `LoginInv` says that what is on a login's channel is a code of its own
(`ResultsOwn`), that the codes issued to a login which still waits are unused, since it
alone can redeem them (`OwnUnused`), and that the handler which brought the code on
the channel, or in the login's hands, still has its page to return or has returned
it (`PageOnItsWay`). `Shutdown` waits for those that have not, so with its timeout
excepted the page is out when the command is done.

Only model-checked: liveness (`RecordSettles`, `SignalStops`, `LoginsEnd`, `Settles`),
which needs fairness and is outside what this prover does. Every invariant, action
property and refinement that a passing run checks has a theorem above.

## 6. Where code and documentation disagree

With a run each:

- `qwproxy_close_flushes`: `writer.go:105` says Close "flushes what is
  buffered". `main.go:94` gives the worker the signal's context, so on SIGTERM
  the worker flushes its batch and returns without looking at the channel; Close
  then finishes with records on it, counted nowhere. `StrandedBounded` bounds it.
- `audit_partitions_blocked`: `schema.sql:5` calls DEFAULT "a safety net". Once it
  has caught a row of a month, that month's partition cannot be created,
  `EnsurePartitions` fails and the proxy does not start until the month is over.
- `proxy_unaudited`: `writer.go:1` says that package audit records "every proxied
  Quickwit call", `skills/qw/SKILL.md:176` "Every query is audited". When a reply breaks
  off, `ReverseProxy` panics (`proxy.go:124`) past `Log` and the metrics: Quickwit has
  run the query and nothing says so.

Reachable in the models, seen while they were written, without a run of their own:

- `main` releases the pools after its deadline (`main.go:80`, `:117`), and
  `pgxpool.Close` waits for every connection that is out. A key lookup runs in the
  request's context, which nothing but the client ends, so one that Postgres never
  answers keeps a signalled proxy from exiting; hence the premise of `SignalStops`.
  After a listener error the worker's context is alive until the very last deferred
  call, so an insert that hangs keeps the process as well.
- A handler that outlives the shutdown deadline panics in `Log`
  (`writer.go:98` after `writer.go:108`); `PanicOnlyPastDeadline` says when.
- `pgx.go:95` says EnsurePartitions runs "at startup and monthly"; only startup
  calls it (`main.go:84`). It drops the one month exactly `retentionMonths` back
  (`pgx.go:111`), so a month in which no replica started is kept for ever.
- A search by GET is recorded without its query, which is in the URL.
- `CreateServiceAccountKey` can mint a key for an account disabled a moment
  before (`serviceaccount.go:123` and `:137`); `AuthenticateExact` shows that it
  does not work.
- `apikeys.go:36` says that a larger ttl is clamped. One whose duration wraps to
  nothing or less is not clamped but refused, with 500 (`apikeys.go:112`,
  `store.go:115`). A label whose days overflow a `Duration` (from 106752 on,
  `serviceaccounts.go:88`) wraps around as well: to zero or less, and its keys never
  expire, or to some other positive lifetime. Only "never" should mean that a key does
  not expire, by `serviceaccounts.go:23` and `:51`, `README.md:142` and `values.yaml:51`.
- `cli/serviceaccount.go:19` says of the 90 days after which `qw` shows a key as stale
  that they mirror the proxy's default. They do, but the proxy's are a setting
  (`main.go:171`, `:354`): once `QWPROXY_SA_STALE_DAYS` is another number, keys are
  warned of that `qw` shows as active, or the other way round. `ReportsAgree` says that
  among keys that work the shorter threshold's are then the larger set.
- A batch is counted as written when `InsertBatch` returns nil (`writer.go:130`), which
  it does after the last statement's result (`pgx.go:139-144`). The batch commits at
  the Sync behind them, and the error of `br.Close()`, which would tell, is discarded
  (`pgx.go:138`): a commit that fails, or a connection lost before it, leaves records
  counted as written that are no rows. `RowsFaithful` and `KeepsLedger` say that
  nothing else is counted as written without being a row.
- DELETE with a name and an empty `key_id` disables the account
  (`serviceaccounts.go:146`).
- `main.go:259` says insecureSkipAudience "disables the aud check entirely"; with
  audiences configured it has no effect (`verify.go:162`).
- `oidc.go:200` says that the URL can be copied "from the message the caller prints";
  `login.go` prints none, so that a login whose browser does not open waits for a
  callback that cannot come, and it has no timeout: only Ctrl-C ends it.
- "You're signed in" is sent before the code is exchanged (`oidc.go:188`, `:215`), so
  a login that then fails has told the browser otherwise.
- A stray tab of another login, or its denial, fails the login that listens
  ("state mismatch"), although its own tab is still open (`oidc.go:182`, `:177`).
- `app.go:219` says of tokens "auto-refreshed + persisted". `apikey create` loads the
  config (`apikey.go:116`), `adminRequest` loads it again, refreshes and saves the
  rotated tokens, and then the first copy is saved over them (`apikey.go:144`): the
  file has a refresh token that is used up. `LoginLasts` excludes it ("reverted").
- The window of tail follows whatever is new, backwards too (`search.go:299`): a line
  near its start leads tail back through a contiguous log, beyond the "5m for tail"
  of `skills/qw/SKILL.md:96`.
- `apikey_auth_test.go:92` says an X-API-Key "must be tried first"; it is tried last.

- `proxy.go:354` says the recorder "captures the status code". `ReverseProxy`
  passes 1xx responses through `WriteHeader`, and the recorder keeps the first;
  `RecordShowsReply` says when the record is right.
- Overlapping upgrades can install a mixed or torn binary (two versions, or one
  killed, or a full disk) where `selfupdate.go:285` says "atomically swaps".
- Overlapping commands can tear `config.yaml`: the rename of `config.go:129` guards
  against a crash, but both write one `config.yaml.tmp`. A shorter text written over a
  longer one may even parse, as a mixture in which one context has the tokens of
  another ("spliced", which `TokensStayHome` excludes for them). And a write that a full
  disk cuts short can leave a temporary file that parses, with the first line
  (`config.go:40`) and no contexts (`:41`); an overlapping command's rename installs it,
  and the current context does not exist. `CurrentExists` excludes the two together.
- A refresh or a login drops the API key stored beside the tokens (`app.go:290`
  against `config.go:77`); `IDTokenSource` saves a rotated refresh token only if an
  ID token came along (`oidc.go:314` against `:286`); `adminRequest` resolves the
  current context again (`apikey.go:69`).
- Tail: more than 500 new hits in a poll are skipped; one failed search ends it;
  identical lines are shown once; a dropped dedup set repeats lines where
  `docs/EXAMPLES.md:148` says "deduped"; a timestamp field in microseconds or
  nanoseconds moves the window to the distant future (`Factor`); `--to` is ignored.

In code that is not modelled: a revoke with an id that is no UUID is answered with 500;
`context create` drops scopes and bearer token of a context it overwrites.

## 7. Not modelled

Formatting and parsing of output, request building (`internal/qw`), signature
checks and discovery (go-oidc), TLS, configuration parsing, metrics wiring, the
pool's sizing, Helm and compose files, time-of-day and latency. Body
decoding of the two admin handlers. Discovery before a login. The rest of what the
environment configures (`loadConfig`) is numbers and addresses that are constants
here. `OnError`, a log line.

## 8. Plan

Done: `AuditLedger`, `AuditWriter`, `Qwproxy`, `AuditPartitions`, `ProxyHandler`,
`ApiKeyStore`, `ContextRegister`, `ContextFile`, `LoginFlow`, `Tail`, `SelfUpdate`, and the proofs of section 5.

Left, by weight of what can go wrong:

1. The safety half of the liveness properties: what keeps the worker, `main` and a
   login from being stuck (that some step of theirs can be taken, said without ENABLED).
2. Row casts of `InsertBatch`.
3. The decoding of the bodies of the two admin handlers.

Runs: one passing run a module, with safety, action and liveness properties
together; new properties replace weaker ones rather than lengthen the list.
Violated runs where code and documentation disagree on something that takes
several steps to see.
