------------------------ MODULE ApiKeyStore_proofs ------------------------
(***************************************************************************)
(* Theorems about ApiKeyStore, for any number of users, accounts, keys and *)
(* requests, whatever lifetimes are asked for or configured.               *)
(***************************************************************************)
EXTENDS ApiKeyStore, TLAPS

(* An account that has a key, or for which one is being minted, exists,    *)
(* and so does a key that has been looked up.                              *)
NothingDangles ==
    /\ touching \subseteq Minted
    /\ \A c \in Clients : req[c].at = "checking" => req[c].key \in Minted
    /\ \A k \in Minted : rows[k].account # None => accounts[rows[k].account] # "absent"
    /\ \A c \in Clients : req[c].at = "minting" => accounts[req[c].name] # "absent"

(* A request that has read its row knows whether the key was usable then.  *)
Seen(q) ==
    /\ q.time <= clock
    /\ q.alive <=> /\ ~q.row.revoked /\ ~q.disabled
                   /\ q.row.expires = Never \/ q.time < q.row.expires

LookupsRight == \A c \in Clients : req[c].at = "checking" => Seen(req[c])

KeyInv ==
    /\ TypeOK
    /\ NothingDangles /\ LookupsRight
    /\ AuthenticateExact /\ PersonalKeysExpire

-----------------------------------------------------------------------------
LEMMA RowFacts ==
    ASSUME TypeOK, NEW k \in Minted
    PROVE  /\ k \in Keys /\ rows[k] \in Row
           /\ rows[k].account \in Names \cup {None}
           /\ rows[k].created \in Nat /\ rows[k].expires \in Nat \cup {Never}
           /\ rows[k].revoked \in BOOLEAN /\ rows[k].used \in Nat \cup {None}
           /\ clock \in Nat
BY TTLAssumption DEF TypeOK, Minted, Row

LEMMA ReqFacts ==
    ASSUME TypeOK, NEW c \in Clients
    PROVE  /\ req[c].at = "minting" => req[c] \in Minting
           /\ req[c].at \in {"checking", "granted", "denied"} => req[c] \in Checking
BY DEF TypeOK, Idle, Minting, Checking

(* A lifetime is a whole number of days, also when it has wrapped around.  *)
LEMMA DurationInt == ASSUME NEW days \in Int PROVE Duration(days) \in Int
<1>1. Half \in Nat /\ 2 * Half \in Nat \ {0} /\ days + Half \in Int
    BY TTLAssumption
<1>2. \A a \in Int, b \in Nat \ {0} : a % b \in Int
    OBVIOUS
<1> QED BY <1>1, <1>2 DEF Duration

LEMMA ClampedFacts ==
    ASSUME NEW days \in Int
    PROVE  Clamped(days) \in Int /\ Clamped(days) <= MaxTTL
BY DurationInt, TTLAssumption DEF Clamped

LEMMA InitOK == Init => KeyInv
BY TTLAssumption DEF Init, KeyInv, TypeOK, NothingDangles, LookupsRight, AuthenticateExact,
   PersonalKeysExpire, Minted, Idle

(* What a step leaves of the requests.                                     *)
LEMMA RequestsKept ==
    ASSUME KeyInv, UNCHANGED req, clock' \in Nat, clock <= clock'
    PROVE  LookupsRight' /\ AuthenticateExact'
<1>1. \A c \in Clients : req[c].at = "checking" => req[c].time \in Nat
    BY ReqFacts DEF KeyInv, Checking
<1>2. clock \in Nat
    BY TTLAssumption DEF KeyInv, TypeOK
<1> QED BY <1>1, <1>2 DEF KeyInv, LookupsRight, AuthenticateExact, Seen

(* A minted key takes a free row, and no other row notices.                *)
Added(k, account, asked, expires) ==
    /\ Minted' = Minted \cup {k}
    /\ rows'[k].account = account /\ rows'[k].asked = asked
    /\ rows'[k].expires = expires /\ rows'[k].created = clock
    /\ \A m \in Minted : rows'[m] = rows[m]

LEMMA InsertFacts ==
    ASSUME TypeOK,
           NEW owner \in Users \cup {SA(n) : n \in Names}, NEW account \in Names \cup {None},
           NEW asked \in Labels \cup {None}, NEW expires \in Nat \cup {Never},
           Insert(owner, account, asked, expires)
    PROVE  /\ rows' \in [Keys -> Row \cup {None}]
           /\ \E k \in Keys \ Minted : Added(k, account, asked, expires)
<1> DEFINE row == [owner |-> owner, account |-> account, asked |-> asked, created |-> clock,
                   expires |-> expires, revoked |-> FALSE, used |-> None]
<1>1. row \in Row /\ row # None
    <2>1. clock \in Nat
        BY TTLAssumption DEF TypeOK
    <2>2. row \in Row
        BY <2>1 DEF Row
    <2> QED BY <2>2, RowAssumption
<1>2. /\ row.account = account /\ row.expires = expires
      /\ row.created = clock /\ row.asked = asked
    OBVIOUS
<1>3. PICK k \in Keys \ Minted : rows' = [rows EXCEPT ![k] = row]
    BY DEF Insert
<1> HIDE DEF row
<1>4. rows' \in [Keys -> Row \cup {None}] /\ rows'[k] = row /\ \A m \in Keys \ {k} : rows'[m] = rows[m]
    BY <1>1, <1>3 DEF TypeOK
<1>5. Minted' = Minted \cup {k}
    BY <1>1, <1>4 DEF Minted
<1> QED BY <1>2, <1>4, <1>5 DEF Minted, Added

LEMMA CreateOK == ASSUME KeyInv, NEW u \in Users, NEW days \in AskDays, Create(u, days) PROVE KeyInv'
<1>1. days \in Int /\ clock \in Nat /\ MaxTTL \in Nat /\ None \notin Names
    BY TTLAssumption, NoneAssumption DEF KeyInv, TypeOK
<1>2. PICK expires \in Expiry(Clamped(days)) : Insert(u, None, None, expires)
    BY DEF Create
<1>3. expires \in Nat /\ clock < expires /\ expires <= clock + MaxTTL
    BY <1>1, <1>2, ClampedFacts DEF Expiry
<1>4. UNCHANGED <<accounts, clock, req, touching>>
    BY DEF Create
<1>a. /\ TypeOK /\ u \in Users \cup {SA(n) : n \in Names} /\ None \in Names \cup {None}
      /\ expires \in Nat \cup {Never} /\ None \in Labels \cup {None}
    BY <1>3 DEF KeyInv
<1>5. rows' \in [Keys -> Row \cup {None}]
    BY <1>a, <1>2, InsertFacts
<1>6. PICK k \in Keys \ Minted : Added(k, None, None, expires)
    BY <1>a, <1>2, InsertFacts
<1>7. TypeOK'
    BY <1>4, <1>5 DEF KeyInv, TypeOK
<1>8. NothingDangles'
    BY <1>4, <1>6 DEF KeyInv, NothingDangles, Added
<1>9. PersonalKeysExpire'
    BY <1>3, <1>6, NoneAssumption DEF KeyInv, PersonalKeysExpire, Added
<1> QED BY <1>1, <1>4, <1>7, <1>8, <1>9, RequestsKept DEF KeyInv

(* A statement that changes a row leaves its owner and its dates alone.    *)
LEMMA UpdateOK ==
    ASSUME KeyInv, NEW k \in Minted, NEW row \in Row, rows' = [rows EXCEPT ![k] = row],
           row.account = rows[k].account, row.created = rows[k].created,
           row.expires = rows[k].expires,
           touching' \subseteq touching, UNCHANGED <<accounts, clock, req>>
    PROVE  KeyInv'
<1>1. k \in Keys /\ clock \in Nat /\ row # None
    BY RowFacts, RowAssumption DEF KeyInv
<1>2. /\ rows' \in [Keys -> Row \cup {None}] /\ rows'[k] = row
      /\ \A m \in Keys \ {k} : rows'[m] = rows[m]
    BY <1>1 DEF KeyInv, TypeOK
<1>3. Minted' = Minted
    BY <1>1, <1>2 DEF Minted
<1>4. /\ \A m \in Minted : /\ rows'[m].account = rows[m].account
                           /\ rows'[m].created = rows[m].created
                           /\ rows'[m].expires = rows[m].expires
    BY <1>2 DEF Minted
<1>5. TypeOK'
    BY <1>2 DEF KeyInv, TypeOK
<1>6. NothingDangles'
    BY <1>3, <1>4 DEF KeyInv, NothingDangles
<1>7. PersonalKeysExpire'
    BY <1>3, <1>4 DEF KeyInv, PersonalKeysExpire
<1> QED BY <1>1, <1>5, <1>6, <1>7, RequestsKept DEF KeyInv

LEMMA SetRevokedOK == ASSUME KeyInv, NEW k \in Keys, SetRevoked(k) PROVE KeyInv'
<1>1. k \in Minted /\ rows' = [rows EXCEPT ![k] = [rows[k] EXCEPT !.revoked = TRUE]]
      /\ UNCHANGED <<accounts, clock, req, touching>>
    BY DEF SetRevoked
<1>2. rows[k] \in Row
    BY <1>1, RowFacts DEF KeyInv
<1>3. /\ [rows[k] EXCEPT !.revoked = TRUE] \in Row
      /\ [rows[k] EXCEPT !.revoked = TRUE].account = rows[k].account
      /\ [rows[k] EXCEPT !.revoked = TRUE].created = rows[k].created
      /\ [rows[k] EXCEPT !.revoked = TRUE].expires = rows[k].expires
    BY <1>2 DEF Row
<1> QED BY <1>1, <1>3, UpdateOK

LEMMA TouchOK == ASSUME KeyInv, NEW k \in Keys, TouchLastUsed(k) PROVE KeyInv'
<1>1. /\ touching' \subseteq touching
      /\ rows' = rows \/ rows' = [rows EXCEPT ![k] = [rows[k] EXCEPT !.used = clock]]
      /\ UNCHANGED <<accounts, clock, req>>
    BY DEF TouchLastUsed, KeyInv, TypeOK
<1>2. CASE rows' = rows
    <2>1. TypeOK' /\ clock \in Nat
        BY <1>1, <1>2, TTLAssumption DEF KeyInv, TypeOK
    <2>2. NothingDangles' /\ PersonalKeysExpire'
        BY <1>1, <1>2 DEF KeyInv, NothingDangles, PersonalKeysExpire, Minted
    <2> QED BY <1>1, <2>1, <2>2, RequestsKept DEF KeyInv
<1>3. CASE k \in Minted /\ rows' = [rows EXCEPT ![k] = [rows[k] EXCEPT !.used = clock]]
    <2>1. rows[k] \in Row /\ clock \in Nat
        BY <1>3, RowFacts DEF KeyInv
    <2>2. /\ [rows[k] EXCEPT !.used = clock] \in Row
          /\ [rows[k] EXCEPT !.used = clock].account = rows[k].account
          /\ [rows[k] EXCEPT !.used = clock].created = rows[k].created
          /\ [rows[k] EXCEPT !.used = clock].expires = rows[k].expires
        BY <2>1 DEF Row
    <2> QED BY <1>1, <1>3, <2>2, UpdateOK
<1>4. k \in Minted
    BY DEF TouchLastUsed, KeyInv, NothingDangles
<1> QED BY <1>1, <1>2, <1>3, <1>4

LEMMA SetAccountOK ==
    ASSUME KeyInv, NEW n \in Names, NEW from, NEW to \in {"active", "disabled"}, SetAccount(n, from, to)
    PROVE  KeyInv'
<1>1. /\ accounts' = [accounts EXCEPT ![n] = to] /\ UNCHANGED <<rows, clock, req, touching>>
      /\ clock \in Nat
    BY TTLAssumption DEF SetAccount, KeyInv, TypeOK
<1>2. TypeOK'
    BY <1>1 DEF KeyInv, TypeOK
<1>3. \A m \in Names : accounts[m] # "absent" => accounts'[m] # "absent"
    BY <1>1 DEF KeyInv, TypeOK
<1>4. NothingDangles'
    <2>1. \A k \in Minted : rows[k].account # None => rows[k].account \in Names
        BY RowFacts DEF KeyInv
    <2>2. \A c \in Clients : req[c].at = "minting" => req[c].name \in Names
        BY ReqFacts DEF KeyInv, Minting
    <2> QED BY <1>1, <1>3, <2>1, <2>2 DEF KeyInv, NothingDangles, Minted
<1>5. PersonalKeysExpire'
    BY <1>1 DEF KeyInv, PersonalKeysExpire, Minted
<1> QED BY <1>1, <1>2, <1>4, <1>5, RequestsKept DEF KeyInv

-----------------------------------------------------------------------------
LEMMA ResolveOK ==
    ASSUME KeyInv, NEW c \in Clients, NEW n \in Names, NEW label \in Labels, ResolveAccount(c, n, label)
    PROVE  KeyInv'
<1> DEFINE q == [at |-> "minting", name |-> n, label |-> label]
<1>2. q \in Minting /\ q.at = "minting" /\ q.name = n
    BY DEF Minting
<1>3. /\ req' = [req EXCEPT ![c] = q] /\ accounts[n] = "active"
      /\ UNCHANGED <<rows, accounts, clock, touching>>
    BY DEF ResolveAccount
<1> HIDE DEF q
<1>4. req'[c] = q /\ \A d \in Clients \ {c} : req'[d] = req[d]
    BY <1>3 DEF KeyInv, TypeOK
<1>5. TypeOK'
    BY <1>2, <1>3 DEF KeyInv, TypeOK
<1>6. NothingDangles'
    BY <1>2, <1>3, <1>4 DEF KeyInv, NothingDangles, Minted
<1>7. LookupsRight' /\ AuthenticateExact' /\ PersonalKeysExpire'
    BY <1>2, <1>3, <1>4 DEF KeyInv, LookupsRight, Seen, AuthenticateExact, PersonalKeysExpire, Minted
<1> QED BY <1>5, <1>6, <1>7 DEF KeyInv

(* A request that ends.                                                    *)
LEMMA IdleOK ==
    ASSUME KeyInv, NEW c \in Clients, req' = [req EXCEPT ![c] = Idle],
           UNCHANGED <<rows, accounts, clock, touching>>
    PROVE  KeyInv'
<1>1. req'[c] = Idle /\ Idle.at = "idle" /\ \A d \in Clients \ {c} : req'[d] = req[d]
    BY DEF KeyInv, TypeOK, Idle
<1>2. TypeOK'
    BY DEF KeyInv, TypeOK
<1>3. NothingDangles'
    BY <1>1 DEF KeyInv, NothingDangles, Minted
<1>4. LookupsRight' /\ AuthenticateExact' /\ PersonalKeysExpire'
    BY <1>1 DEF KeyInv, LookupsRight, Seen, AuthenticateExact, PersonalKeysExpire, Minted
<1> QED BY <1>2, <1>3, <1>4 DEF KeyInv

LEMMA InsertAccountKeyOK == ASSUME KeyInv, NEW c \in Clients, InsertAccountKey(c) PROVE KeyInv'
<1>1. /\ req[c].at = "minting" /\ req[c] \in Minting /\ req[c].name \in Names
      /\ req[c].label \in Labels /\ accounts[req[c].name] # "absent"
      /\ clock \in Nat
    BY ReqFacts, TTLAssumption DEF InsertAccountKey, KeyInv, TypeOK, NothingDangles, Minting
<1> DEFINE ttl == KeyTTL(req[c].label)
<1>a. ttl \in Int /\ (IF ttl > 0 THEN clock + ttl ELSE Never) \in Nat \cup {Never}
    <2>1. PICK l \in Labels : l = req[c].label
        BY <1>1
    <2>2. l \in Int /\ ttl = KeyTTL(l)
        BY <2>1, TTLAssumption
    <2>3. ttl \in Int
        BY <2>2, DurationInt DEF KeyTTL
    <2> HIDE DEF ttl
    <2> QED BY <1>1, <2>3
<1> PICK expires \in Nat \cup {Never} : expires = IF ttl > 0 THEN clock + ttl ELSE Never
    BY <1>a
<1> HIDE DEF ttl
<1> PICK label \in Labels \cup {None} : label = req[c].label
    BY <1>1
<1> PICK n \in Names : n = req[c].name
    BY <1>1
<1>2. /\ Insert(SA(n), n, label, expires)
      /\ req' = [req EXCEPT ![c] = Idle] /\ UNCHANGED <<accounts, clock, touching>>
    BY DEF InsertAccountKey, AccountOwner, ttl
<1>b. SA(n) \in Users \cup {SA(m) : m \in Names}
    OBVIOUS
<1> PICK owner \in Users \cup {SA(m) : m \in Names} : owner = SA(n)
    BY <1>b
<1>c. TypeOK /\ n \in Names \cup {None} /\ Insert(owner, n, label, expires)
    BY <1>2 DEF KeyInv
<1>3. rows' \in [Keys -> Row \cup {None}]
    BY <1>c, InsertFacts
<1>4. PICK k \in Keys \ Minted : Added(k, n, label, expires)
    BY <1>c, InsertFacts
<1>5. req'[c] = Idle /\ Idle.at = "idle" /\ \A d \in Clients \ {c} : req'[d] = req[d]
    BY <1>2 DEF KeyInv, TypeOK, Idle
<1>6. TypeOK'
    BY <1>2, <1>3 DEF KeyInv, TypeOK
<1>7. NothingDangles'
    BY <1>1, <1>2, <1>4, <1>5 DEF KeyInv, NothingDangles, Added
<1>8. PersonalKeysExpire'
    BY <1>2, <1>4, NoneAssumption DEF KeyInv, PersonalKeysExpire, Added
<1>9. LookupsRight' /\ AuthenticateExact'
    BY <1>2, <1>5 DEF KeyInv, LookupsRight, Seen, AuthenticateExact
<1> QED BY <1>6, <1>7, <1>8, <1>9 DEF KeyInv

LEMMA LookupOK == ASSUME KeyInv, NEW c \in Clients, NEW k \in Keys, Lookup(c, k) PROVE KeyInv'
<1> DEFINE q == [at |-> "checking", key |-> k, row |-> rows[k], disabled |-> Disabled(rows[k]),
                 alive |-> Usable(k), time |-> clock]
<1>1. /\ k \in Minted /\ req' = [req EXCEPT ![c] = q] /\ UNCHANGED <<rows, accounts, clock, touching>>
    BY DEF Lookup
<1>2. rows[k] \in Row /\ clock \in Nat
    BY <1>1, RowFacts DEF KeyInv
<1>3. q \in Checking
    <2>1. Disabled(rows[k]) \in BOOLEAN /\ Usable(k) \in BOOLEAN
        BY DEF Disabled, Usable
    <2> QED BY <1>2, <2>1 DEF Checking
<1>4. Seen(q)
    BY <1>1, <1>2 DEF Seen, Usable
<1>5. q.at = "checking" /\ q.key = k
    OBVIOUS
<1> HIDE DEF q
<1>6. req'[c] = q /\ \A d \in Clients \ {c} : req'[d] = req[d]
    BY <1>1 DEF KeyInv, TypeOK
<1>7. TypeOK'
    BY <1>1, <1>3 DEF KeyInv, TypeOK
<1>8. NothingDangles'
    BY <1>1, <1>5, <1>6 DEF KeyInv, NothingDangles, Minted
<1>9. LookupsRight' /\ AuthenticateExact' /\ PersonalKeysExpire'
    BY <1>1, <1>4, <1>5, <1>6 DEF KeyInv, LookupsRight, Seen, AuthenticateExact, PersonalKeysExpire, Minted
<1> QED BY <1>7, <1>8, <1>9 DEF KeyInv

LEMMA DecideOK == ASSUME KeyInv, NEW c \in Clients, Decide(c) PROVE KeyInv'
<1> PICK q \in Checking : q = req[c] /\ q.at = "checking"
    BY ReqFacts DEF Decide, KeyInv
<1>1. Seen(q) /\ q.key \in Minted /\ clock \in Nat
    BY TTLAssumption DEF KeyInv, LookupsRight, NothingDangles, TypeOK
<1> PICK at \in {"granted", "denied"} :
        /\ at = "granted" <=> Authorizes(q)
        /\ req' = [req EXCEPT ![c] = [[q EXCEPT !.at = at] EXCEPT !.time = clock]]
        /\ touching' \in {touching, touching \cup {q.key}}
    BY DEF Decide
<1> DEFINE r == [[q EXCEPT !.at = at] EXCEPT !.time = clock]
<1>2. /\ r \in Checking /\ r.at = at /\ r.time = clock
      /\ r.row = q.row /\ r.alive = q.alive /\ r.key = q.key
    BY <1>1 DEF Checking
<1>3. UNCHANGED <<rows, accounts, clock>>
    BY DEF Decide
<1> HIDE DEF r
<1>4. req' = [req EXCEPT ![c] = r]
    BY DEF r
<1>5. req'[c] = r /\ \A d \in Clients \ {c} : req'[d] = req[d]
    BY <1>4 DEF KeyInv, TypeOK
<1>6. TypeOK'
    BY <1>1, <1>2, <1>3, <1>4 DEF KeyInv, TypeOK, Minted
<1>7. NothingDangles'
    BY <1>1, <1>2, <1>3, <1>5 DEF KeyInv, NothingDangles, Minted
<1>8. LookupsRight' /\ PersonalKeysExpire'
    BY <1>2, <1>3, <1>5 DEF KeyInv, LookupsRight, Seen, PersonalKeysExpire, Minted
<1>9. AuthenticateExact'
    <2>1. q.row.expires \in Nat \cup {Never} /\ q.time \in Nat
        BY DEF Checking, Row
    <2>2. /\ at = "granted" => q.alive /\ ~(q.row.expires # Never /\ q.row.expires <= clock)
          /\ at = "denied" => ~q.alive \/ (q.row.expires # Never /\ q.row.expires <= clock)
        BY <1>1, <2>1, NoneAssumption DEF Seen, Authorizes, Expired
    <2> QED BY <1>2, <1>5, <2>2 DEF KeyInv, AuthenticateExact
<1> QED BY <1>6, <1>7, <1>8, <1>9 DEF KeyInv

LEMMA TickOK == KeyInv /\ Tick => KeyInv'
<1> SUFFICES ASSUME KeyInv, Tick PROVE KeyInv'
    OBVIOUS
<1>1. clock \in Nat /\ clock' = clock + 1 /\ clock' \in 0..MaxTime /\ UNCHANGED <<rows, accounts, req, touching>>
    BY TTLAssumption DEF Tick, KeyInv, TypeOK
<1>2. TypeOK'
    BY <1>1 DEF KeyInv, TypeOK
<1>3. NothingDangles' /\ PersonalKeysExpire'
    BY <1>1 DEF KeyInv, NothingDangles, PersonalKeysExpire, Minted
<1> QED BY <1>1, <1>2, <1>3, RequestsKept DEF KeyInv

-----------------------------------------------------------------------------
LEMMA NextOK == KeyInv /\ Next => KeyInv'
<1> SUFFICES ASSUME KeyInv, Next PROVE KeyInv'
    OBVIOUS
<1>1. ASSUME NEW u \in Users, NEW days \in AskDays, Create(u, days) PROVE KeyInv'
    BY <1>1, CreateOK
<1>2. ASSUME NEW u \in Users, NEW k \in Keys, Revoke(u, k) PROVE KeyInv'
    BY <1>2, SetRevokedOK DEF Revoke
<1>3. ASSUME NEW n \in Names, CreateServiceAccount(n) PROVE KeyInv'
    BY <1>3, SetAccountOK DEF CreateServiceAccount
<1>4. ASSUME NEW n \in Names, NEW keyID \in Keys \cup {None}, Delete(n, keyID) PROVE KeyInv'
    BY <1>4, SetAccountOK, SetRevokedOK DEF Delete, DisableServiceAccount, RevokeServiceAccountKey
<1>5. ASSUME NEW n \in Names, NEW c \in Clients, NEW label \in Labels, ResolveAccount(c, n, label)
      PROVE  KeyInv'
    BY <1>5, ResolveOK
<1>6. ASSUME NEW c \in Clients, InsertAccountKey(c) \/ Decide(c) PROVE KeyInv'
    BY <1>6, InsertAccountKeyOK, DecideOK
<1>7. ASSUME NEW c \in Clients, Answer(c) PROVE KeyInv'
    BY <1>7, IdleOK DEF Answer
<1>8. ASSUME NEW c \in Clients, NEW k \in Keys, Lookup(c, k) PROVE KeyInv'
    BY <1>8, LookupOK
<1>9. ASSUME NEW k \in Keys, TouchLastUsed(k) PROVE KeyInv'
    BY <1>9, TouchOK
<1> QED BY <1>1, <1>2, <1>3, <1>4, <1>5, <1>6, <1>7, <1>8, <1>9, TickOK DEF Next

LEMMA Invariance == Spec => []KeyInv
<1>1. KeyInv /\ UNCHANGED vars => KeyInv'
    BY DEF KeyInv, TypeOK, NothingDangles, LookupsRight, Seen, AuthenticateExact,
       PersonalKeysExpire, Minted, vars
<1>2. KeyInv /\ [Next]_vars => KeyInv'
    BY <1>1, NextOK
<1> QED BY InitOK, <1>2, PTL DEF Spec

(* Every row, account and request is one the tables and the code can hold. *)
THEOREM TypeCorrect == Spec => []TypeOK
<1>1. KeyInv => TypeOK
    BY DEF KeyInv
<1> QED BY <1>1, Invariance, PTL

(* Authenticate judges a key as at one instant of the request, whatever    *)
(* happens to the key and its account in between.                          *)
THEOREM AuthenticateCorrect == Spec => []AuthenticateExact
<1>1. KeyInv => AuthenticateExact
    BY DEF KeyInv
<1> QED BY <1>1, Invariance, PTL

(* The counts and warnings given to admins are those of Authenticate; the  *)
(* proxy's warnings and qw's states differ by their two thresholds only.   *)
THEOREM ReportsCorrect == Spec => []ReportsAgree
<1>1. KeyInv => ReportsAgree
    <2> SUFFICES ASSUME KeyInv PROVE ReportsAgree
        OBVIOUS
    <2>1. ASSUME NEW n \in Names, accounts[n] = "active"
          PROVE  ActiveKeys(n) = {k \in Minted : rows[k].account = n /\ Usable(k)}
        <3>1. ASSUME NEW k \in Minted, rows[k].account = n
              PROVE  /\ ~Disabled(rows[k])
                     /\ rows[k].expires \in Nat \cup {Never} /\ clock \in Nat
            BY <2>1, <3>1, RowFacts DEF Disabled, KeyInv
        <3> QED BY <3>1 DEF ActiveKeys, Usable
    <2>2. ASSUME NEW k \in Minted, rows[k].account # None
          PROVE  Disabled(rows[k]) <=> accounts[rows[k].account] # "active"
        BY <2>2, RowFacts DEF Disabled, KeyInv, TypeOK, NothingDangles
    <2>3. ASSUME NEW k \in Minted
          PROVE  Expired(rows[k], clock) <=> ~(rows[k].expires = Never \/ rows[k].expires > clock)
        BY RowFacts, NoneAssumption DEF Expired, KeyInv
    <2>4. ASSUME NEW k \in Minted
          PROVE  /\ k \in StaleKeys <=> /\ rows[k].account # None /\ Usable(k)
                                        /\ LastUse(rows[k]) + UnusedFor < clock
                 /\ k \in ShownStale <=> /\ rows[k].account # None /\ Usable(k)
                                         /\ LastUse(rows[k]) + StaleAfter < clock
        <3>1. LastUse(rows[k]) \in Nat /\ StaleAfter \in Nat /\ clock \in Nat
            BY RowFacts, TTLAssumption DEF LastUse, KeyInv
        <3>2. ~rows[k].revoked /\ ~Expired(rows[k], clock)
                => (KeyStatus(rows[k]) = "stale" <=> LastUse(rows[k]) + StaleAfter < clock)
            BY <3>1 DEF KeyStatus
        <3>3. rows[k].expires \in Nat \cup {Never}
            BY RowFacts DEF KeyInv
        <3>4. Usable(k) <=> /\ ~rows[k].revoked /\ ~Disabled(rows[k])
                            /\ ~Expired(rows[k], clock)
            BY <2>3, <3>1, <3>3 DEF Usable
        <3> QED BY <2>2, <2>3, <3>2, <3>4 DEF StaleKeys, ShownStale
    <2>5. \A k \in Minted : LastUse(rows[k]) \in Nat
        BY RowFacts DEF LastUse, KeyInv
    <2>6. StaleKeys \subseteq Minted /\ ShownStale \subseteq Minted
        BY DEF StaleKeys, ShownStale
    <2>7. UnusedFor \in Nat /\ StaleAfter \in Nat /\ clock \in Nat
        BY TTLAssumption DEF KeyInv, TypeOK
    <2>8. UnusedFor <= StaleAfter => ShownStale \subseteq StaleKeys
        BY <2>4, <2>5, <2>6, <2>7
    <2>9. StaleAfter <= UnusedFor => StaleKeys \subseteq ShownStale
        BY <2>4, <2>5, <2>6, <2>7
    <2> QED BY <2>1, <2>4, <2>6, <2>8, <2>9 DEF ReportsAgree
<1> QED BY <1>1, Invariance, PTL

-----------------------------------------------------------------------------
(* What keeps a dead key dead.                                             *)
LEMMA DeadStaysDead ==
    ASSUME KeyInv, clock' \in Nat, clock <= clock', NEW k \in Minted, ~Usable(k), k \in Minted',
           rows'[k].account = rows[k].account, rows'[k].expires = rows[k].expires,
           rows[k].revoked => rows'[k].revoked,
           \A n \in Names : accounts[n] = "disabled" => accounts'[n] = "disabled"
    PROVE  ~Usable(k)'
BY RowFacts DEF KeyInv, Usable, Disabled

(* What every step keeps of the keys there are.                            *)
StepKeeps ==
    /\ clock' \in Nat /\ clock <= clock'
    /\ \A n \in Names : accounts[n] = "disabled" => accounts'[n] = "disabled"
    /\ \A k \in Minted : /\ k \in Minted'
                         /\ rows'[k].account = rows[k].account
                         /\ rows'[k].created = rows[k].created
                         /\ rows'[k].expires = rows[k].expires
                         /\ rows'[k].asked = rows[k].asked
                         /\ rows[k].revoked => rows'[k].revoked

(* A minted row stays, with its account and its dates.                     *)
LEMMA NothingRevives == ASSUME KeyInv, [Next]_vars PROVE StepKeeps
<1>1. rows \in [Keys -> Row \cup {None}] /\ clock \in Nat
    BY TTLAssumption DEF KeyInv, TypeOK
<1>2. CASE UNCHANGED <<rows, accounts, clock>>
    BY <1>1, <1>2 DEF StepKeeps, Minted
<1>3. ASSUME NEW owner, NEW account, NEW asked, NEW expires,
             Insert(owner, account, asked, expires),
             UNCHANGED <<accounts, clock>>
      PROVE  StepKeeps
    <2>1. \A m \in Minted : rows'[m] = rows[m]
        BY <1>1, <1>3 DEF Insert, Minted
    <2> QED BY <1>1, <1>3, <2>1 DEF StepKeeps, Minted
<1>4. ASSUME NEW k \in Keys, SetRevoked(k) PROVE StepKeeps
    <2>1. /\ rows' = [rows EXCEPT ![k] = [rows[k] EXCEPT !.revoked = TRUE]]
          /\ k \in Minted /\ rows[k] \in Row /\ UNCHANGED <<accounts, clock>>
        BY <1>4, RowFacts DEF SetRevoked, KeyInv
    <2> PICK row \in Row : row = [rows[k] EXCEPT !.revoked = TRUE]
        BY <2>1 DEF Row
    <2>2. /\ row.account = rows[k].account /\ row.created = rows[k].created
          /\ row.expires = rows[k].expires /\ row.asked = rows[k].asked /\ row.revoked = TRUE
        BY <2>1 DEF Row
    <2>3. rows'[k] = row /\ \A m \in Keys \ {k} : rows'[m] = rows[m]
        BY <1>1, <2>1
    <2>4. Minted' = Minted
        BY <1>1, <2>1, <2>3, RowAssumption DEF Minted
    <2>5. \A m \in Minted : /\ rows'[m].account = rows[m].account
                            /\ rows'[m].created = rows[m].created
                            /\ rows'[m].expires = rows[m].expires
                            /\ rows'[m].asked = rows[m].asked
                            /\ rows[m].revoked => rows'[m].revoked
        BY <2>2, <2>3 DEF Minted
    <2> QED BY <1>1, <2>1, <2>4, <2>5 DEF StepKeeps
<1>5. ASSUME NEW k \in Keys, TouchLastUsed(k) PROVE StepKeeps
    <2>1. CASE rows' = rows
        BY <1>2, <1>5, <2>1 DEF TouchLastUsed
    <2>2. CASE rows' = [rows EXCEPT ![k] = [rows[k] EXCEPT !.used = clock]]
        <3>1. k \in Minted /\ rows[k] \in Row /\ UNCHANGED <<accounts, clock>>
            BY <1>5, RowFacts DEF TouchLastUsed, KeyInv, NothingDangles
        <3>2. /\ [rows[k] EXCEPT !.used = clock] \in Row
              /\ [rows[k] EXCEPT !.used = clock].account = rows[k].account
              /\ [rows[k] EXCEPT !.used = clock].created = rows[k].created
              /\ [rows[k] EXCEPT !.used = clock].expires = rows[k].expires
              /\ [rows[k] EXCEPT !.used = clock].asked = rows[k].asked
              /\ [rows[k] EXCEPT !.used = clock].revoked = rows[k].revoked
            BY <1>1, <3>1 DEF Row
        <3> QED BY <1>1, <2>2, <3>1, <3>2, RowAssumption DEF StepKeeps, Minted
    <2> QED BY <1>5, <2>1, <2>2 DEF TouchLastUsed
<1>6. ASSUME NEW n \in Names, NEW from \in {"absent", "active"}, NEW to, SetAccount(n, from, to)
      PROVE  StepKeeps
    BY <1>1, <1>6 DEF StepKeeps, SetAccount, Minted, KeyInv, TypeOK
<1>7. CASE Tick
    BY <1>1, <1>7 DEF Tick, StepKeeps, Minted
<1>8. CASE UNCHANGED vars
    BY <1>2, <1>8 DEF vars
<1>9. ASSUME NEW u \in Users, NEW days \in AskDays, Create(u, days) PROVE StepKeeps
    BY <1>3, <1>9 DEF Create
<1>10. ASSUME NEW u \in Users, NEW k \in Keys, Revoke(u, k) PROVE StepKeeps
    BY <1>4, <1>10 DEF Revoke
<1>11. ASSUME NEW n \in Names, CreateServiceAccount(n) PROVE StepKeeps
    BY <1>6, <1>11 DEF CreateServiceAccount
<1>12. ASSUME NEW n \in Names, NEW keyID \in Keys \cup {None}, Delete(n, keyID) PROVE StepKeeps
    BY <1>4, <1>6, <1>12 DEF Delete, DisableServiceAccount, RevokeServiceAccountKey
<1>13. ASSUME NEW c \in Clients, InsertAccountKey(c) PROVE StepKeeps
    BY <1>3, <1>13 DEF InsertAccountKey
<1>14. ASSUME NEW c \in Clients, Decide(c) \/ Answer(c) PROVE StepKeeps
    BY <1>2, <1>14 DEF Decide, Answer
<1>15. ASSUME NEW c \in Clients, NEW k \in Keys, Lookup(c, k) PROVE StepKeeps
    BY <1>2, <1>15 DEF Lookup
<1>16. ASSUME NEW n \in Names, NEW c \in Clients, NEW label \in Labels, ResolveAccount(c, n, label)
       PROVE  StepKeeps
    BY <1>2, <1>16 DEF ResolveAccount
<1>17. CASE Next
    BY <1>5, <1>7, <1>9, <1>10, <1>11, <1>12, <1>13, <1>14, <1>15, <1>16, <1>17 DEF Next
<1> QED BY <1>8, <1>17

(* Nothing makes a key usable again.                                       *)
THEOREM DeathCorrect == Spec => DeathIsFinal
<1> DEFINE Final == \A k \in Minted : ~Usable(k) => ~Usable(k)'
<1>1. ASSUME KeyInv, [Next]_vars PROVE Final
    <2>1. StepKeeps
        BY <1>1, NothingRevives
    <2> QED BY <1>1, <2>1, DeadStaysDead DEF StepKeeps
<1>2. KeyInv /\ [Next]_vars => [Final]_vars
    BY <1>1
<1> QED BY <1>2, Invariance, PTL DEF Spec, DeathIsFinal

-----------------------------------------------------------------------------
(* How long the key of an account lives.                                   *)
Lasts(row) ==
    /\ row.asked = 0 => row.expires = Never
    /\ row.asked \in 1..(Half - 1) => row.expires = row.created + row.asked

(* A Duration holds a label of less than Half days.                        *)
LEMMA KeyTTLFacts ==
    ASSUME NEW label \in Nat
    PROVE  /\ label = 0 => KeyTTL(label) = 0
           /\ label \in 1..(Half - 1) => KeyTTL(label) = label
<1>1. Half \in Nat \ {0}
    BY TTLAssumption
<1>2. \A a \in Nat, b \in Nat \ {0} : a < b => a % b = a
    OBVIOUS
<1>3. ASSUME label < Half PROVE (label + Half) % (2 * Half) = label + Half
    BY <1>1, <1>2, <1>3
<1> QED BY <1>1, <1>3 DEF KeyTTL, Duration

LEMMA AccountKeyLasts ==
    ASSUME KeyInv, NEW c \in Clients, InsertAccountKey(c)
    PROVE  \E k \in Keys : Minted' = Minted \cup {k} /\ Lasts(rows'[k])
<1>1. /\ req[c].at = "minting" /\ req[c] \in Minting /\ req[c].name \in Names /\ clock \in Nat
    BY ReqFacts, TTLAssumption DEF InsertAccountKey, KeyInv, TypeOK, Minting
<1> PICK label \in Labels : label = req[c].label
    BY <1>1 DEF Minting
<1>3. label \in Nat /\ Half \in Nat /\ KeyTTL(label) \in Int
    BY DurationInt, TTLAssumption DEF KeyTTL
<1> DEFINE expires == IF KeyTTL(label) > 0 THEN clock + KeyTTL(label) ELSE Never
<1>4. /\ expires \in Nat \cup {Never}
      /\ label = 0 => expires = Never
      /\ label \in 1..(Half - 1) => expires = clock + label
    BY <1>1, <1>3, KeyTTLFacts
<1>5. Insert(SA(req[c].name), req[c].name, label, expires)
    BY DEF InsertAccountKey, AccountOwner
<1>6. PICK k \in Keys \ Minted : Added(k, req[c].name, label, expires)
    <2>1. /\ SA(req[c].name) \in Users \cup {SA(n) : n \in Names}
          /\ req[c].name \in Names \cup {None} /\ label \in Labels \cup {None}
        BY <1>1
    <2> HIDE DEF expires
    <2> QED BY <1>4, <1>5, <2>1, InsertFacts DEF KeyInv
<1> HIDE DEF expires
<1> QED BY <1>4, <1>6 DEF Lasts, Added

(* What is new is of a person, or lasts as long as asked; what was there   *)
(* keeps its account, its label and its dates.                             *)
LEMMA AccountKeysLastOK ==
    ASSUME KeyInv, AccountKeysLast, [Next]_vars
    PROVE  AccountKeysLast'
<1>1. \A k \in Minted : rows[k].account # None => Lasts(rows[k])
    BY DEF AccountKeysLast, Lasts
<1>2. StepKeeps
    BY NothingRevives
<1>3. \A k \in Minted : rows'[k].account # None => Lasts(rows'[k])
    BY <1>1, <1>2 DEF StepKeeps, Lasts
<1>5. ASSUME \A k \in Minted' \ Minted : rows'[k].account # None => Lasts(rows'[k])
      PROVE  AccountKeysLast'
    BY <1>3, <1>5 DEF AccountKeysLast, Lasts
<1>6. ASSUME NEW u \in Users, NEW days \in AskDays, Create(u, days)
      PROVE  AccountKeysLast'
    <2>1. days \in Int /\ clock \in Nat
        BY TTLAssumption DEF KeyInv, TypeOK
    <2>2. PICK expires \in Nat : Insert(u, None, None, expires)
        BY <1>6, <2>1, ClampedFacts DEF Create, Expiry
    <2>3. \E k \in Keys : Minted' = Minted \cup {k} /\ rows'[k].account = None
        <3>1. /\ None \in Labels \cup {None} /\ None \in Names \cup {None}
              /\ u \in Users \cup {SA(n) : n \in Names} /\ expires \in Nat \cup {Never}
            OBVIOUS
        <3>2. \E k \in Keys \ Minted : Added(k, None, None, expires)
            BY <2>2, <3>1, InsertFacts DEF KeyInv
        <3> QED BY <3>2 DEF Added
    <2> QED BY <1>5, <2>3
<1>7. ASSUME NEW c \in Clients, InsertAccountKey(c)
      PROVE  AccountKeysLast'
    BY <1>5, <1>7, AccountKeyLasts
<1>8. ASSUME Minted' \subseteq Minted
      PROVE  AccountKeysLast'
    BY <1>5, <1>8
<1>9. CASE UNCHANGED rows
    BY <1>8, <1>9 DEF Minted
<1>12. ASSUME NEW k \in Keys, SetRevoked(k) \/ TouchLastUsed(k)
       PROVE  AccountKeysLast'
    <2>1. k \in Minted
        BY <1>12 DEF SetRevoked, TouchLastUsed, KeyInv, NothingDangles
    <2>2. \A m \in Keys \ {k} : rows'[m] = rows[m]
        BY <1>12 DEF SetRevoked, TouchLastUsed, KeyInv, TypeOK
    <2>3. Minted' \subseteq Minted
        BY <2>1, <2>2 DEF Minted
    <2> QED BY <1>8, <2>3
<1>16. CASE Next
    BY <1>6, <1>7, <1>9, <1>12, <1>16
       DEF Next, Revoke, CreateServiceAccount, Delete, DisableServiceAccount, SetAccount,
           RevokeServiceAccountKey, ResolveAccount, Decide, Answer, Lookup, Tick
<1> QED BY <1>9, <1>16 DEF vars

(* A personal key expires within MaxTTL, whatever lifetime was asked for,  *)
(* and a key of an account lives as long as its own label says if that     *)
(* fits a Duration, for any width of a Duration and any labels.            *)
THEOREM LifetimesCorrect == Spec => []LifetimesKept
<1>1. Init => AccountKeysLast
    BY DEF Init, AccountKeysLast, Minted
<1>2. KeyInv /\ AccountKeysLast /\ [Next]_vars => AccountKeysLast'
    BY AccountKeysLastOK
<1>3. KeyInv /\ AccountKeysLast => LifetimesKept
    BY DEF KeyInv, LifetimesKept
<1> QED BY <1>1, <1>2, <1>3, Invariance, PTL DEF Spec

=============================================================================
