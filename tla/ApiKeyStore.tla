---------------------------- MODULE ApiKeyStore ----------------------------
(***************************************************************************)
(* internal/apikey (the key and service-account tables) under the requests *)
(* that proxy.authenticate, /qwproxy/apikeys and /qwproxy/serviceaccounts  *)
(* run against it concurrently, from one proxy replica or several.  One    *)
(* SQL statement is one atomic step; an operation that issues two, or that *)
(* compares a row with the clock after reading it, takes several.          *)
(*                                                                         *)
(* Management needs an OIDC login (oidcCaller), service accounts also an   *)
(* admin group (isAdmin): the callers here have passed.  Hashes, display   *)
(* prefixes, descriptions and who minted a key are left out; a key names   *)
(* its own row.  Both clocks, the proxy's and Postgres's, are one.         *)
(***************************************************************************)
EXTENDS Integers, FiniteSets

CONSTANTS
    Users,             \* OIDC subjects
    Names,             \* names a service account can have
    Keys,              \* every key that is ever minted
    Clients,           \* concurrent requests of the two-step operations
    MaxTTL,            \* maxTTL: the longest life of a personal key
    AskDays,           \* ttl_days users ask for; 0 stands for none given
    Labels,            \* saKeyTTLs: the days of account keys; 0 is "never"
    Half,              \* a Duration is that of -Half..(Half - 1) days
    UnusedFor,         \* QWPROXY_SA_STALE_DAYS: the proxy warns of keys unused for longer
    StaleAfter,        \* staleAfter: qw, built apart from the proxy, shows them as stale
    MaxTime,           \* bound of the model's clock
    None, Never        \* no row, no account; no expiry

ASSUME TTLAssumption ==
    /\ Half \in Nat \ {0} /\ MaxTTL \in 1..(Half - 1)
    /\ AskDays \subseteq Int /\ Labels \subseteq Nat
    /\ UnusedFor \in Nat /\ StaleAfter \in Nat /\ MaxTime \in Nat
ASSUME NoneAssumption == Never \notin Nat /\ None \notin Nat /\ None \notin Names

VARIABLES
    rows,        \* qw_api_keys: Keys -> a row or None
    accounts,    \* qw_service_accounts: "absent", "active" or "disabled"
    clock,
    req,         \* what each client's request has got to, and what it read
    touching     \* keys whose last_used_at is being stamped in background

vars == <<rows, accounts, clock, req, touching>>

(* The principal "sa:<name>"; no OIDC subject has the prefix.  "asked" is  *)
(* history: the label an account's key was minted with.                    *)
SA(n) == <<"sa", n>>

Row == [owner : Users \cup {SA(n) : n \in Names}, account : Names \cup {None},
        asked : Labels \cup {None}, created : Nat, expires : Nat \cup {Never}, revoked : BOOLEAN,
        used : Nat \cup {None}]

ASSUME RowAssumption == None \notin Row

Idle == [at |-> "idle"]
Minting  == [at : {"minting"}, name : Names, label : Labels]
Checking == [at : {"checking", "granted", "denied"}, key : Keys, row : Row,
             disabled : BOOLEAN, alive : BOOLEAN, time : Nat]

TypeOK ==
    /\ rows \in [Keys -> Row \cup {None}]
    /\ accounts \in [Names -> {"absent", "active", "disabled"}]
    /\ clock \in 0..MaxTime
    /\ req \in [Clients -> {Idle} \cup Minting \cup Checking]
    /\ touching \subseteq Keys

Init ==
    /\ rows = [k \in Keys |-> None]
    /\ accounts = [n \in Names |-> "absent"]
    /\ clock = 0
    /\ req = [c \in Clients |-> Idle]
    /\ touching = {}

Minted == {k \in Keys : rows[k] # None}
FaultExpired(row, now) == row.expires # Never /\ row.expires < now
Expired(row, now) == row.expires # Never /\ row.expires <= now
Disabled(row) == row.account # None /\ accounts[row.account] = "disabled"

(* "A key authorizes iff it exists, is unexpired, and has not been         *)
(* revoked", and its account is not disabled.                              *)
Usable(k) ==
    /\ k \in Minted /\ ~rows[k].revoked /\ ~Disabled(rows[k])
    /\ rows[k].expires = Never \/ clock < rows[k].expires

-----------------------------------------------------------------------------
(* Management, one statement each.                                         *)
Insert(owner, account, asked, expires) ==
    \E k \in Keys \ Minted :
        rows' = [rows EXCEPT ![k] =
            [owner |-> owner, account |-> account, asked |-> asked, created |-> clock,
             expires |-> expires, revoked |-> FALSE, used |-> None]]

(* time.Duration(days) * 24 * time.Hour, which wraps around silently.      *)
Duration(days) == ((days + Half) % (2 * Half)) - Half

(* APIKeyAdmin.create: a larger or unset ttl is clamped, after it has been *)
(* converted.  Store.Create refuses what is left if it is not positive.    *)
FaultUnclamped(days) == IF days > 0 THEN Duration(days) ELSE MaxTTL
Clamped(days) == IF days > 0 /\ Duration(days) < MaxTTL THEN Duration(days) ELSE MaxTTL

FaultNever(ttl) == IF ttl > 0 THEN {clock + ttl} ELSE {Never}
Expiry(ttl) == IF ttl > 0 THEN {clock + ttl} ELSE {}

Create(u, days) ==
    /\ \E expires \in Expiry(Clamped(days)) : Insert(u, None, None, expires)
    /\ UNCHANGED <<accounts, clock, req, touching>>

SetRevoked(k) ==
    /\ k \in Minted /\ ~rows[k].revoked
    /\ rows' = [rows EXCEPT ![k].revoked = TRUE]
    /\ UNCHANGED <<accounts, clock, req, touching>>

Revoke(u, k) == SetRevoked(k) /\ rows[k].owner = u

RevokeServiceAccountKey(n, k) == SetRevoked(k) /\ rows[k].account = n

SetAccount(n, from, to) ==
    /\ accounts[n] = from
    /\ accounts' = [accounts EXCEPT ![n] = to]
    /\ UNCHANGED <<rows, clock, req, touching>>

(* A taken name is refused, even if its account is disabled.               *)
FaultUpsert(n) == SetAccount(n, "absent", "active") \/ SetAccount(n, "disabled", "active")
CreateServiceAccount(n) == SetAccount(n, "absent", "active")

DisableServiceAccount(n) == SetAccount(n, "active", "disabled")

(* DELETE on the one path of ServiceAccountAdmin: no key_id, or an empty   *)
(* one, means the account.                                                 *)
Delete(n, keyID) ==
    IF keyID = None THEN DisableServiceAccount(n) ELSE RevokeServiceAccountKey(n, keyID)

(* ParseKeyTTLs wraps around as well, CreateServiceAccountKey takes what   *)
(* is not positive for "never": activeServiceAccountID, then the insert.   *)
FaultDefaultTTL(label) == IF label = 0 THEN MaxTTL ELSE Duration(label)
KeyTTL(label) == IF label = 0 THEN 0 ELSE Duration(label)

ResolveAccount(c, n, label) ==
    /\ req[c] = Idle
    /\ accounts[n] = "active"
    /\ req' = [req EXCEPT ![c] = [at |-> "minting", name |-> n, label |-> label]]
    /\ UNCHANGED <<rows, accounts, clock, touching>>

FaultNoPrefix(n) == n
AccountOwner(n) == SA(n)

InsertAccountKey(c) ==
    /\ req[c].at = "minting"
    /\ LET m == req[c]
           ttl == KeyTTL(m.label)
       IN  Insert(AccountOwner(m.name), m.name, m.label,
                  IF ttl > 0 THEN clock + ttl ELSE Never)
    /\ req' = [req EXCEPT ![c] = Idle]
    /\ UNCHANGED <<accounts, clock, touching>>

-----------------------------------------------------------------------------
(* Authenticate: one SELECT joins key and account; the row is judged by    *)
(* the clock afterwards.  "alive" and "time" are history: whether the key  *)
(* was usable when it was looked up, and when it was judged.               *)
Lookup(c, k) ==
    /\ req[c] = Idle
    /\ k \in Minted
    /\ req' = [req EXCEPT ![c] =
        [at |-> "checking", key |-> k, row |-> rows[k], disabled |-> Disabled(rows[k]),
         alive |-> Usable(k), time |-> clock]]
    /\ UNCHANGED <<rows, accounts, clock, touching>>

FaultNoJoin(q) == ~q.row.revoked /\ ~Expired(q.row, clock)
Authorizes(q) == ~q.row.revoked /\ ~q.disabled /\ ~Expired(q.row, clock)

Decide(c) ==
    /\ req[c].at = "checking"
    /\ IF Authorizes(req[c])
       THEN /\ req' = [req EXCEPT ![c].at = "granted", ![c].time = clock]
            /\ touching' = touching \cup {req[c].key}
       ELSE /\ req' = [req EXCEPT ![c].at = "denied", ![c].time = clock]
            /\ UNCHANGED touching
    /\ UNCHANGED <<rows, accounts, clock>>

Answer(c) ==
    /\ req[c].at \in {"granted", "denied"}
    /\ req' = [req EXCEPT ![c] = Idle]
    /\ UNCHANGED <<rows, accounts, clock, touching>>

(* touchLastUsed: detached, may fail or be late.                           *)
TouchLastUsed(k) ==
    /\ k \in touching
    /\ touching' = touching \ {k}
    /\ rows' \in {rows, [rows EXCEPT ![k].used = clock]}
    /\ UNCHANGED <<accounts, clock, req>>

Tick ==
    /\ clock < MaxTime
    /\ clock' = clock + 1
    /\ UNCHANGED <<rows, accounts, req, touching>>

Next ==
    \/ \E u \in Users :
         \/ \E days \in AskDays : Create(u, days)
         \/ \E k \in Keys : Revoke(u, k)
    \/ \E n \in Names :
         \/ CreateServiceAccount(n)
         \/ \E keyID \in Keys \cup {None} : Delete(n, keyID)
         \/ \E c \in Clients, label \in Labels : ResolveAccount(c, n, label)
    \/ \E c \in Clients :
         \/ InsertAccountKey(c) \/ Decide(c) \/ Answer(c)
         \/ \E k \in Keys : Lookup(c, k)
    \/ \E k \in Keys : TouchLastUsed(k)
    \/ Tick

Spec == Init /\ [][Next]_vars

-----------------------------------------------------------------------------
(* The queries and the display that tell people about keys.                *)
(* ListServiceAccounts: the keys an account's ACTIVE KEYS column counts.   *)
ActiveKeys(n) ==
    {k \in Minted : /\ rows[k].account = n /\ ~rows[k].revoked
                    /\ rows[k].expires = Never \/ rows[k].expires > clock}

LastUse(row) == IF row.used = None THEN row.created ELSE row.used

(* StaleServiceAccountKeys, logged at startup and daily.                   *)
FaultStaleJoin == {k \in Minted : rows[k].account # None /\ ~rows[k].revoked
                                  /\ LastUse(rows[k]) + UnusedFor < clock}
StaleKeys ==
    {k \in Minted :
        /\ rows[k].account # None /\ accounts[rows[k].account] = "active"
        /\ ~rows[k].revoked
        /\ rows[k].expires = Never \/ rows[k].expires > clock
        /\ LastUse(rows[k]) + UnusedFor < clock}

(* keyStatus of qw sa key list, by qw's own threshold.                     *)
KeyStatus(row) ==
    CASE row.revoked -> "revoked"
      [] ~row.revoked /\ Expired(row, clock) -> "expired"
      [] OTHER -> IF clock > LastUse(row) + StaleAfter THEN "stale" ELSE "active"

-----------------------------------------------------------------------------
(* Authenticate answers as if it had judged the key at one instant of the  *)
(* request: a grant means the key was usable when it was looked up, so it  *)
(* comes of no lookup after a revocation, a disabling or an expiry - keys  *)
(* minted while their account was being disabled included; a denial means  *)
(* the key was dead then, or had expired when it was judged.               *)
AuthenticateExact ==
    \A c \in Clients :
        LET q == req[c]
            late == q.row.expires # Never /\ q.row.expires <= q.time
        IN  /\ q.at = "granted" => q.alive /\ ~late
            /\ q.at = "denied" => ~q.alive \/ late

(* A personal key expires, no later than MaxTTL after it was minted and    *)
(* not before, whatever its owner asked for: nothing given, too much, or   *)
(* more than a Duration can hold.                                          *)
PersonalKeysExpire ==
    \A k \in Minted : rows[k].account = None =>
        /\ rows[k].expires # Never
        /\ rows[k].created < rows[k].expires /\ rows[k].expires <= rows[k].created + MaxTTL

(* A key of an account lives exactly as long as the label it was asked for *)
(* says, however long ago the account was resolved, and for ever if that   *)
(* is "never".  Of a label too long for a Duration nothing is claimed: it  *)
(* wraps around, to "never" or to any other lifetime.                      *)
AccountKeysLast ==
    \A k \in Minted : rows[k].account # None =>
        /\ rows[k].asked = 0 => rows[k].expires = Never
        /\ rows[k].asked \in 1..(Half - 1) => rows[k].expires = rows[k].created + rows[k].asked

LifetimesKept == PersonalKeysExpire /\ AccountKeysLast

(* Whatever made a key unusable, nothing makes it usable again.            *)
DeathIsFinal == [][\A k \in Minted : ~Usable(k) => ~Usable(k)']_vars

(* What admins are told agrees with what Authenticate does: the keys an    *)
(* active account is said to have are those that work, and a key that is   *)
(* warned of works.  Which working keys are stale, the proxy and qw each   *)
(* judge by a threshold of their own: the keys of the longer one are among *)
(* those of the shorter, and they agree only where the settings do.        *)
ShownStale == {k \in Minted : /\ rows[k].account # None /\ Usable(k)
                              /\ KeyStatus(rows[k]) = "stale"}
ReportsAgree ==
    /\ \A n \in Names : accounts[n] = "active" =>
           ActiveKeys(n) = {k \in Minted : rows[k].account = n /\ Usable(k)}
    /\ \A k \in StaleKeys : rows[k].account # None /\ Usable(k)
    /\ UnusedFor <= StaleAfter => ShownStale \subseteq StaleKeys
    /\ StaleAfter <= UnusedFor => StaleKeys \subseteq ShownStale

=============================================================================
