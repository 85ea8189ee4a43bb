--------------------------- MODULE ProxyHandler ---------------------------
(***************************************************************************)
(* internal/proxy/proxy.go: one request through Handler.ServeHTTP, from    *)
(* its credentials to its audit record, with httputil.ReverseProxy and the *)
(* upstream as the environment.  Handlers share nothing but the counters,  *)
(* the key store (ApiKeyStore) and the audit writer (AuditWriter), so one  *)
(* request at a time stands for all.  Paths are the classes the allowlist  *)
(* tells apart; the recorded index, client address, user agent and latency *)
(* are left out, and so are protocol upgrades.  Operators called Fault...  *)
(* are seeded bugs, no part of the specification.                          *)
(***************************************************************************)
EXTENDS Naturals

CONSTANTS
    Audiences,    \* what the aud claim of a token may name
    ClientIDs,    \* those that this deployment can be configured with
    MaxBytes,     \* bound on the chunks of one response
    Forged,       \* a token whose signature, issuer or expiry is wrong
    None          \* no token, no record, nothing forwarded, no status yet

ASSUME BoundsAssumption == MaxBytes \in Nat /\ ClientIDs \subseteq Audiences

Methods == {"GET", "POST", "DELETE"}
Paths == {"version", "indexes", "index", "describe", "search", "_msearch",
          "_field_caps", "_mapping", "ingest"}
Bodies == {"empty", "json", "text", "long", "broken"}

(* A token that go-oidc accepts is the audiences it names.  A key is what  *)
(* apikey.Store.Authenticate makes of it: a key of a user or of a service  *)
(* account, or an error of any kind.                                       *)
Tokens == (SUBSET Audiences) \cup {Forged, None}
Requests == [bearer : Tokens, idToken : Tokens,
             key : {"none", "user", "sa", "bad"},
             method : Methods, path : Paths, body : Bodies]

AuthMethods == {"oidc", "oidc-id-token", "api-key", "sa-key"}
Codes == {103, 200, 500, 401, 403, 502}
AuditRecords == [auth : AuthMethods, query : {"body", "prefix", None}, status : Codes, bytes : 0..MaxBytes]

ASSUME NoneAssumption ==
    None # Forged /\ None \notin Nat \cup Bodies \cup AuthMethods \cup AuditRecords

VARIABLES
    allowedAud, skipAud,  \* expectedAudiences, insecureSkipAudience
    req, keysEnabled,     \* the request; whether Options.APIKeys is set
    pc,                   \* where ServeHTTP is
    auth,                 \* the method that authenticated the request
    body, query,          \* r.Body as restored; queryBody
    up,                   \* the body the upstream got with the request
    rec,                  \* the recorder: status, bytes, wroteHeader
    sent,                 \* what the server sends: the final status, bytes
    record,               \* the audit record
    fails, requests       \* this request's share of the metrics

vars == <<allowedAud, skipAud, req, keysEnabled, pc, auth, body, query, up, rec, sent, record,
          fails, requests>>

TypeOK ==
    /\ allowedAud \subseteq ClientIDs /\ skipAud \in BOOLEAN
    /\ req \in Requests /\ keysEnabled \in BOOLEAN
    /\ pc \in {"bearer", "id-token", "key", "allow", "capture", "forward",
               "awaiting", "copying", "audit", "done", "aborted"}
    /\ auth \in AuthMethods \cup {None}
    /\ body \in Bodies /\ query \in {"body", "prefix", None}
    /\ up \in Bodies \cup {None}
    /\ rec \in [status : Codes, bytes : 0..MaxBytes, wrote : BOOLEAN]
    /\ sent \in [status : Codes \cup {None}, bytes : 0..MaxBytes]
    /\ record \in AuditRecords \cup {None}
    /\ fails \in 0..1 /\ requests \in 0..1

(* config.validate: qwproxy does not start without audiences unless told.   *)
FaultEmpty(auds, skip) == TRUE
validate(auds, skip) == auds # {} \/ skip

Init ==
    /\ allowedAud \in SUBSET ClientIDs /\ skipAud \in BOOLEAN
    /\ validate(allowedAud, skipAud)
    /\ req \in Requests /\ keysEnabled \in BOOLEAN
    /\ pc = "bearer"
    /\ auth = None /\ query = None /\ up = None /\ record = None
    /\ body = req.body
    /\ rec = [status |-> 200, bytes |-> 0, wrote |-> FALSE]
    /\ sent = [status |-> None, bytes |-> 0]
    /\ fails = 0 /\ requests = 0

Goto(from, to) == pc = from /\ pc' = to
Reject(code) == sent' = [sent EXCEPT !.status = code]

configVars == <<allowedAud, skipAud>>
bodyVars == <<body, query, up>>
replyVars == <<rec, record, requests>>

-----------------------------------------------------------------------------
(* Verifier.Verify: some audience of the token must be accepted, unless    *)
(* none is configured.                                                     *)
FaultAllMatch(token) == token \notin {None, Forged} /\ token \subseteq allowedAud
Verify(token) ==
    token \notin {None, Forged} /\ (allowedAud = {} \/ token \cap allowedAud # {})

(* authenticate.                                                           *)
Authenticated(from, how) ==
    /\ Goto(from, "allow")
    /\ auth' = how
    /\ UNCHANGED <<configVars, req, keysEnabled, bodyVars, sent, replyVars, fails>>

Unauthorized(from) ==
    /\ Goto(from, "done") /\ Reject(401)
    /\ fails' = fails + 1
    /\ UNCHANGED <<configVars, req, keysEnabled, auth, bodyVars, replyVars>>

NextCredential(from, to) ==
    Goto(from, to) /\ UNCHANGED <<configVars, req, keysEnabled, auth, bodyVars, sent, replyVars, fails>>

MissingCredentials ==
    /\ req.bearer = None /\ req.idToken = None /\ req.key = "none"
    /\ Unauthorized("bearer")

TryBearer ==
    /\ req.bearer # None \/ req.idToken # None \/ req.key # "none"
    /\ IF Verify(req.bearer) THEN Authenticated("bearer", "oidc")
       ELSE NextCredential("bearer", "id-token")

FaultKeyShadows ==
    IF Verify(req.idToken) /\ req.key = "none" THEN Authenticated("id-token", "oidc-id-token")
    ELSE NextCredential("id-token", "key")
TryIDToken ==
    IF Verify(req.idToken) THEN Authenticated("id-token", "oidc-id-token")
    ELSE NextCredential("id-token", "key")

FaultUnprefixed(key) == key
AuthMethod(key) == IF key = "sa" THEN "sa-key" ELSE "api-key"

TryKey ==
    IF keysEnabled /\ req.key \in {"user", "sa"}
    THEN Authenticated("key", AuthMethod(req.key))
    ELSE Unauthorized("key")

-----------------------------------------------------------------------------
(* The allowlist; "ingest" stands for every path that is not on it.        *)
allowedRoutes ==
    {"GET"} \X {"version", "indexes", "index", "describe", "search", "_field_caps", "_mapping"}
    \cup {"POST"} \X {"search", "_msearch"}

FaultAnyMethod(method, path) == \E rt \in allowedRoutes : rt[2] = path
isAllowed(method, path) == <<method, path>> \in allowedRoutes

isSearch(q)  == q.path = "search" /\ q.method \in {"GET", "POST"}
isMSearch(q) == q.path = "_msearch" /\ q.method = "POST"

CheckAllowed ==
    /\ IF isAllowed(req.method, req.path)
       THEN Goto("allow", "capture") /\ UNCHANGED sent
       ELSE Goto("allow", "done") /\ Reject(403)
    /\ UNCHANGED <<configVars, req, keysEnabled, auth, bodyVars, replyVars, fails>>

(* drainAndRestore and drainMSearch read the body to its end; a body that  *)
(* cannot be read is replaced by an empty one, and one past the limit is   *)
(* cut for the record only - which leaves no valid JSON of one object, but *)
(* the leading lines of a multi-search.                                    *)
FaultRestoreCaptured(b) == IF b \in {"broken", "long"} THEN "empty" ELSE b
Restored(b) == IF b = "broken" THEN "empty" ELSE b

Captured(q) ==
    CASE q.body = "json" -> "body"
      [] q.body = "long" /\ isMSearch(q) -> "prefix"
      [] OTHER -> None

Capture ==
    /\ Goto("capture", "forward")
    /\ IF isSearch(req) \/ isMSearch(req)
       THEN body' = Restored(body) /\ query' = Captured(req)
       ELSE UNCHANGED <<body, query>>
    /\ UNCHANGED <<configVars, req, keysEnabled, auth, up, sent, replyVars, fails>>

-----------------------------------------------------------------------------
(* ReverseProxy.ServeHTTP, writing through the recorder.                   *)
FaultNoStatus(code) == rec' = [rec EXCEPT !.wrote = TRUE]
RecordHeader(code) ==
    rec' = IF rec.wrote THEN rec ELSE [rec EXCEPT !.status = code, !.wrote = TRUE]

(* net/http sends informational headers at once and waits for a final one. *)
WriteHeader(code) ==
    /\ RecordHeader(code)
    /\ sent' = IF code >= 200 THEN [sent EXCEPT !.status = code] ELSE sent

replyRest == <<configVars, req, keysEnabled, auth, body, query, record, fails, requests>>

Forward ==
    Goto("forward", "awaiting") /\ up' = body /\ UNCHANGED <<rec, sent, replyRest>>

(* The upstream is out of reach, answers garbage, or the client has left.  *)
UpstreamError ==
    /\ pc \in {"forward", "awaiting"} /\ pc' = "audit"
    /\ WriteHeader(502)
    /\ UNCHANGED <<up, replyRest>>

Informational ==
    pc = "awaiting" /\ WriteHeader(103) /\ UNCHANGED <<pc, up, replyRest>>

Respond(code) ==
    Goto("awaiting", "copying") /\ WriteHeader(code) /\ UNCHANGED <<up, replyRest>>

Write ==
    /\ pc = "copying" /\ sent.bytes < MaxBytes
    /\ rec' = [rec EXCEPT !.bytes = @ + 1]
    /\ sent' = [sent EXCEPT !.bytes = @ + 1]
    /\ UNCHANGED <<pc, up, replyRest>>

CopyDone == Goto("copying", "audit") /\ UNCHANGED <<up, rec, sent, replyRest>>

(* A copy that fails, on either side, panics with ErrAbortHandler.         *)
CopyFails == Goto("copying", "aborted") /\ UNCHANGED <<up, rec, sent, replyRest>>

-----------------------------------------------------------------------------
Audit ==
    /\ Goto("audit", "done")
    /\ record' = [auth |-> auth, query |-> query, status |-> rec.status, bytes |-> rec.bytes]
    /\ requests' = requests + 1
    /\ UNCHANGED <<configVars, req, keysEnabled, auth, bodyVars, rec, sent, fails>>

Next ==
    \/ MissingCredentials \/ TryBearer \/ TryIDToken \/ TryKey
    \/ CheckAllowed \/ Capture
    \/ Forward \/ UpstreamError \/ Informational
    \/ \E code \in {200, 500, 401} : Respond(code)
    \/ Write \/ CopyDone \/ CopyFails
    \/ Audit

Spec == Init /\ [][Next]_vars

-----------------------------------------------------------------------------
(* A token for this deployment, or any that the identity provider has      *)
(* signed where the operator has chosen to take them all.                  *)
ForHere(token) ==
    /\ token \notin {None, Forged}
    /\ token \cap allowedAud # {} \/ (skipAud /\ allowedAud = {})
ValidUser == ForHere(req.bearer) \/ ForHere(req.idToken)
ValidKey == keysEnabled /\ req.key \in {"user", "sa"}

(* Read-only and authenticated: whatever comes with a request, Quickwit    *)
(* sees it only if one of its credentials is valid, for this deployment    *)
(* and not another of the same identity provider, and it asks to read;     *)
(* reads are GETs and the two search POSTs.                                *)
UpstreamGuarded ==
    up # None =>
        /\ ValidUser \/ ValidKey
        /\ req.path # "ingest" /\ req.method # "DELETE"
        /\ req.method = "POST" => req.path \in {"search", "_msearch"}

(* "preferring a user's OIDC token over an API key so a request carrying   *)
(* both is attributed to the user"; and nobody who holds a valid           *)
(* credential is turned away for an invalid one beside it.                 *)
AttributedToUser ==
    /\ record # None => (record.auth \in {"api-key", "sa-key"}) = ~ValidUser
    /\ sent.status = 401 /\ up = None => ~(ValidUser \/ ValidKey)

(* Reading a body for the record does not change what Quickwit gets, only  *)
(* a body the client did not manage to send is replaced.                   *)
BodyIntact == up # None => up = req.body \/ (req.body = "broken" /\ up = "empty")

(* A call that Quickwit has seen is recorded and counted once, unless its  *)
(* reply broke off, and the record shows the reply that was sent, unless   *)
(* an informational response came before it.                               *)
RecordShowsReply ==
    /\ pc = "done" /\ up # None => record # None
    /\ (record # None) = (requests = 1)
    /\ record # None =>
        /\ record.bytes = sent.bytes
        /\ record.status >= 200 => record.status = sent.status

(* "Package audit records the request envelope of every proxied Quickwit   *)
(* call".                                                                  *)
EveryCallAudited == pc \in {"done", "aborted"} /\ up # None => record # None

=============================================================================
