------------------------ MODULE ProxyHandler_proofs ------------------------
(***************************************************************************)
(* Theorems about ProxyHandler, for any audiences, any configuration that  *)
(* starts, any request, and replies of any length.  The invariant says,    *)
(* place by place, what ServeHTTP has established when it gets there.      *)
(***************************************************************************)
EXTENDS ProxyHandler, TLAPS

Trying == {"bearer", "id-token", "key"}
Unsent == Trying \cup {"allow", "capture", "forward"}
Inside == {"allow", "capture", "forward", "awaiting", "copying", "audit", "aborted"}

(* The credentials: what was tried before has failed, what let the request *)
(* in is a user's token or, when there was none, a key.                    *)
CredentialsInv ==
    /\ allowedAud # {} \/ skipAud
    /\ pc \in {"id-token", "key"} => ~ForHere(req.bearer)
    /\ pc = "key" => ~ForHere(req.idToken)
    /\ pc \in Trying => auth = None
    /\ pc \in Inside => auth # None
    /\ auth # None => IF auth \in {"api-key", "sa-key"} THEN ValidKey /\ ~ValidUser ELSE ValidUser
    /\ up # None => auth # None

RouteInv ==
    (pc \in {"capture", "forward", "awaiting", "copying", "audit", "aborted"} \/ up # None) =>
        isAllowed(req.method, req.path)

Kept(b) == b = req.body \/ (req.body = "broken" /\ b = "empty")

BodyInv ==
    /\ Kept(body)
    /\ up # None => Kept(up)
    /\ pc \in Unsent => up = None
    /\ pc \in {"awaiting", "copying"} => up # None

(* The reply: 401 is sent before anything goes upstream, or by Quickwit;   *)
(* and the recorder has the final status once there is one, unless an      *)
(* informational one came before.                                          *)
ReplyInv ==
    /\ pc \in Unsent \cup {"awaiting"} => sent.status = None
    /\ sent.status = 401 /\ up = None => pc = "done" /\ ~(ValidUser \/ ValidKey)
    /\ rec.bytes = sent.bytes
    /\ pc \in Unsent \cup {"awaiting"} => (rec.wrote => rec.status = 103)
    /\ pc \in {"copying", "audit"} => (rec.status >= 200 => rec.status = sent.status)

RecordInv ==
    /\ pc # "done" => record = None /\ requests = 0 /\ fails = 0
    /\ pc = "done" /\ up # None => record # None
    /\ (record # None) <=> (requests = 1)
    /\ record # None =>
        /\ record.auth = auth /\ auth # None
        /\ record.bytes = sent.bytes
        /\ record.status >= 200 => record.status = sent.status

HandlerInv == TypeOK /\ CredentialsInv /\ RouteInv /\ BodyInv /\ ReplyInv /\ RecordInv

-----------------------------------------------------------------------------
(* Verify accepts the tokens that are for this deployment.                 *)
LEMMA VerifyFacts == ASSUME HandlerInv, NEW token PROVE Verify(token) <=> ForHere(token)
BY DEF HandlerInv, CredentialsInv, Verify, ForHere

LEMMA RouteFacts ==
    ASSUME NEW method, NEW path, isAllowed(method, path)
    PROVE  /\ path # "ingest" /\ method # "DELETE"
           /\ method = "POST" => path \in {"search", "_msearch"}
BY DEF isAllowed, allowedRoutes

LEMMA InitOK == Init => HandlerInv
<1> SUFFICES ASSUME Init PROVE HandlerInv
    OBVIOUS
<1>1. TypeOK
    BY BoundsAssumption DEF Init, TypeOK, Requests, Codes
<1>2. CredentialsInv /\ RouteInv /\ BodyInv
    BY DEF Init, validate, CredentialsInv, RouteInv, BodyInv, Kept, Trying, Inside, Unsent
<1>3. ReplyInv /\ RecordInv
    BY NoneAssumption DEF Init, ReplyInv, RecordInv, Unsent, Trying
<1> QED BY <1>1, <1>2, <1>3 DEF HandlerInv

-----------------------------------------------------------------------------
(* The steps of authenticate leave the body and the reply alone.           *)
LEMMA AuthenticatedOK ==
    ASSUME HandlerInv, NEW from \in Trying, NEW how \in AuthMethods, Authenticated(from, how),
           IF how \in {"api-key", "sa-key"} THEN ValidKey /\ ~ValidUser ELSE ValidUser
    PROVE  HandlerInv'
<1>1. /\ pc = from /\ pc' = "allow" /\ auth' = how /\ how # None
      /\ UNCHANGED <<allowedAud, skipAud, req, keysEnabled, body, query, up, sent, rec, record, requests, fails>>
    BY NoneAssumption DEF Authenticated, Goto, configVars, bodyVars, replyVars
<1>2. TypeOK'
    BY <1>1 DEF HandlerInv, TypeOK
<1>3. CredentialsInv'
    BY <1>1 DEF HandlerInv, CredentialsInv, Trying, Inside, ForHere, ValidUser, ValidKey
<1>4. RouteInv' /\ BodyInv'
    BY <1>1 DEF HandlerInv, RouteInv, BodyInv, Kept, Unsent, Trying
<1>5. ReplyInv' /\ RecordInv'
    BY <1>1 DEF HandlerInv, ReplyInv, RecordInv, Unsent, Trying
<1> QED BY <1>2, <1>3, <1>4, <1>5 DEF HandlerInv

LEMMA NextCredentialOK ==
    ASSUME HandlerInv, NEW from \in Trying, NEW to \in Trying, NextCredential(from, to),
           to \in {"id-token", "key"} => ~ForHere(req.bearer),
           to = "key" => ~ForHere(req.idToken)
    PROVE  HandlerInv'
<1>1. /\ pc = from /\ pc' = to
      /\ UNCHANGED <<allowedAud, skipAud, req, keysEnabled, auth, body, query, up, sent, rec, record, requests, fails>>
    BY DEF NextCredential, Goto, configVars, bodyVars, replyVars
<1>2. TypeOK'
    BY <1>1 DEF HandlerInv, TypeOK, Trying
<1>3. CredentialsInv'
    BY <1>1 DEF HandlerInv, CredentialsInv, Trying, Inside, ForHere, ValidUser, ValidKey
<1>4. RouteInv' /\ BodyInv'
    BY <1>1 DEF HandlerInv, RouteInv, BodyInv, Kept, Unsent, Trying
<1>5. ReplyInv' /\ RecordInv'
    BY <1>1 DEF HandlerInv, ReplyInv, RecordInv, Unsent, Trying
<1> QED BY <1>2, <1>3, <1>4, <1>5 DEF HandlerInv

LEMMA UnauthorizedOK ==
    ASSUME HandlerInv, NEW from \in Trying, Unauthorized(from), ~(ValidUser \/ ValidKey)
    PROVE  HandlerInv'
<1>1. /\ pc = from /\ pc' = "done" /\ sent' = [sent EXCEPT !.status = 401] /\ fails' = fails + 1
      /\ UNCHANGED <<allowedAud, skipAud, req, keysEnabled, auth, body, query, up, rec, record, requests>>
    BY DEF Unauthorized, Goto, Reject, configVars, bodyVars, replyVars
<1>2. /\ fails = 0 /\ auth = None /\ up = None /\ record = None
      /\ requests = 0
    BY <1>1 DEF HandlerInv, CredentialsInv, BodyInv, RecordInv, Trying, Unsent
<1>3. sent'.bytes = sent.bytes /\ sent'.status = 401 /\ sent' \in [status : Codes \cup {None}, bytes : 0..MaxBytes]
    BY <1>1 DEF HandlerInv, TypeOK, Codes
<1>4. TypeOK'
    BY <1>1, <1>2, <1>3 DEF HandlerInv, TypeOK
<1>5. CredentialsInv' /\ RouteInv' /\ BodyInv'
    BY <1>1, <1>2 DEF HandlerInv, CredentialsInv, RouteInv, BodyInv, Kept, Unsent, Trying, Inside
<1>6. ReplyInv' /\ RecordInv'
    BY <1>1, <1>2, <1>3 DEF HandlerInv, ReplyInv, RecordInv, Unsent, Trying, ForHere, ValidUser, ValidKey
<1> QED BY <1>4, <1>5, <1>6 DEF HandlerInv

LEMMA AuthenticateOK ==
    HandlerInv /\ (MissingCredentials \/ TryBearer \/ TryIDToken \/ TryKey) => HandlerInv'
<1> SUFFICES ASSUME HandlerInv, MissingCredentials \/ TryBearer \/ TryIDToken \/ TryKey
             PROVE  HandlerInv'
    OBVIOUS
<1> "bearer" \in Trying /\ "id-token" \in Trying /\ "key" \in Trying
    BY DEF Trying
<1> {"oidc", "oidc-id-token", "api-key", "sa-key"} = AuthMethods
    BY DEF AuthMethods
<1>1. CASE MissingCredentials
    BY <1>1, UnauthorizedOK DEF MissingCredentials, ValidUser, ValidKey, ForHere
<1>2. CASE TryBearer
    <2>1. CASE Verify(req.bearer)
        BY <1>2, <2>1, VerifyFacts, AuthenticatedOK DEF TryBearer, ValidUser
    <2>2. CASE ~Verify(req.bearer)
        BY <1>2, <2>2, VerifyFacts, NextCredentialOK DEF TryBearer
    <2> QED BY <2>1, <2>2
<1>3. CASE TryIDToken
    <2>1. CASE Verify(req.idToken)
        BY <1>3, <2>1, VerifyFacts, AuthenticatedOK DEF TryIDToken, ValidUser
    <2>2. CASE ~Verify(req.idToken)
        <3>1. ~ForHere(req.bearer) /\ ~ForHere(req.idToken)
            BY <1>3, <2>2, VerifyFacts DEF TryIDToken, NextCredential, Goto, HandlerInv, CredentialsInv
        <3> QED BY <1>3, <2>2, <3>1, NextCredentialOK DEF TryIDToken
    <2> QED BY <2>1, <2>2
<1>4. CASE TryKey
    <2>1. ~ValidUser
        BY <1>4 DEF TryKey, Authenticated, Unauthorized, Goto, ValidUser, HandlerInv, CredentialsInv
    <2>2. CASE ValidKey
        BY <1>4, <2>1, <2>2, AuthenticatedOK DEF TryKey, ValidKey, AuthMethod
    <2>3. CASE ~ValidKey
        BY <1>4, <2>1, <2>3, UnauthorizedOK DEF TryKey, ValidKey
    <2> QED BY <2>2, <2>3
<1> QED BY <1>1, <1>2, <1>3, <1>4

-----------------------------------------------------------------------------
LEMMA CheckAllowedOK == HandlerInv /\ CheckAllowed => HandlerInv'
<1> SUFFICES ASSUME HandlerInv, CheckAllowed PROVE HandlerInv'
    OBVIOUS
<1>1. /\ pc = "allow"
      /\ UNCHANGED <<allowedAud, skipAud, req, keysEnabled, auth, body, query, up, rec, record, requests, fails>>
    BY DEF CheckAllowed, Goto, configVars, bodyVars, replyVars
<1>2. /\ up = None /\ record = None /\ requests = 0 /\ fails = 0
    BY <1>1 DEF HandlerInv, BodyInv, RecordInv, Unsent
<1>3. CASE isAllowed(req.method, req.path)
    <2>1. pc' = "capture" /\ sent' = sent
        BY <1>3 DEF CheckAllowed, Goto
    <2>2. TypeOK' /\ RouteInv' /\ BodyInv'
        BY <1>1, <1>3, <2>1 DEF HandlerInv, TypeOK, RouteInv, BodyInv, Kept, Unsent
    <2>3. CredentialsInv'
        BY <1>1, <2>1 DEF HandlerInv, CredentialsInv, Trying, Inside, ForHere, ValidUser, ValidKey
    <2>4. ReplyInv' /\ RecordInv'
        BY <1>1, <2>1 DEF HandlerInv, ReplyInv, RecordInv, Unsent, Trying
    <2> QED BY <2>2, <2>3, <2>4 DEF HandlerInv
<1>4. CASE ~isAllowed(req.method, req.path)
    <2>1. pc' = "done" /\ sent' = [sent EXCEPT !.status = 403]
        BY <1>4 DEF CheckAllowed, Goto, Reject
    <2>2. sent'.bytes = sent.bytes /\ sent'.status = 403
          /\ sent' \in [status : Codes \cup {None}, bytes : 0..MaxBytes]
        BY <2>1 DEF HandlerInv, TypeOK, Codes
    <2>3. TypeOK' /\ RouteInv' /\ BodyInv'
        BY <1>1, <1>2, <2>1, <2>2 DEF HandlerInv, TypeOK, RouteInv, BodyInv, Kept, Unsent, Trying
    <2>4. CredentialsInv'
        BY <1>1, <2>1 DEF HandlerInv, CredentialsInv, Trying, Inside, ForHere, ValidUser, ValidKey
    <2>5. ReplyInv' /\ RecordInv'
        BY <1>1, <1>2, <2>1, <2>2 DEF HandlerInv, ReplyInv, RecordInv, Unsent, Trying
    <2> QED BY <2>3, <2>4, <2>5 DEF HandlerInv
<1> QED BY <1>3, <1>4

LEMMA CaptureOK == HandlerInv /\ Capture => HandlerInv'
<1> SUFFICES ASSUME HandlerInv, Capture PROVE HandlerInv'
    OBVIOUS
<1>1. /\ pc = "capture" /\ pc' = "forward"
      /\ UNCHANGED <<allowedAud, skipAud, req, keysEnabled, auth, up, sent, rec, record, requests, fails>>
    BY DEF Capture, Goto, configVars, replyVars
<1>2. /\ body' \in Bodies /\ query' \in {"body", "prefix", None}
      /\ Kept(body)'
    <2>1. Restored(body) \in Bodies /\ (Restored(body) = body \/ (body = "broken" /\ Restored(body) = "empty"))
        BY DEF Restored, HandlerInv, TypeOK, Bodies
    <2>2. Captured(req) \in {"body", "prefix", None}
        BY DEF Captured
    <2>3. (body' = body /\ query' = query) \/ (body' = Restored(body) /\ query' = Captured(req))
        BY DEF Capture
    <2>4. Kept(body) /\ body \in Bodies /\ query \in {"body", "prefix", None}
        BY DEF HandlerInv, TypeOK, BodyInv
    <2> QED BY <1>1, <2>1, <2>2, <2>3, <2>4 DEF Kept
<1>3. TypeOK' /\ RouteInv'
    BY <1>1, <1>2 DEF HandlerInv, TypeOK, RouteInv
<1>4. BodyInv'
    BY <1>1, <1>2 DEF HandlerInv, BodyInv, Kept, Unsent
<1>5. CredentialsInv'
    BY <1>1 DEF HandlerInv, CredentialsInv, Trying, Inside, ForHere, ValidUser, ValidKey
<1>6. ReplyInv' /\ RecordInv'
    BY <1>1 DEF HandlerInv, ReplyInv, RecordInv, Unsent, Trying
<1> QED BY <1>3, <1>4, <1>5, <1>6 DEF HandlerInv

-----------------------------------------------------------------------------
(* The steps of ReverseProxy: what they leave alone, and what follows from *)
(* it whatever they do to the reply.                                       *)
LEMMA ReplyRest ==
    ASSUME HandlerInv, UNCHANGED replyRest,
           pc \in {"forward", "awaiting", "copying"},
           pc' \in {"awaiting", "copying", "audit", "aborted"}
    PROVE  /\ CredentialsInv' /\ RouteInv' /\ Kept(body)' /\ RecordInv'
           /\ record' = None /\ UNCHANGED <<req, auth, body, query, requests, fails>>
<1>1. UNCHANGED <<allowedAud, skipAud, req, keysEnabled, auth, body, query, record, fails, requests>>
    BY DEF replyRest, configVars
<1>2. CredentialsInv'
    BY <1>1 DEF HandlerInv, CredentialsInv, Trying, Inside, ForHere, ValidUser, ValidKey
<1>3. RouteInv' /\ Kept(body)'
    BY <1>1 DEF HandlerInv, RouteInv, BodyInv, Kept
<1>4. record = None /\ RecordInv'
    BY <1>1 DEF HandlerInv, RecordInv
<1> QED BY <1>1, <1>2, <1>3, <1>4

LEMMA WriteHeaderOK ==
    ASSUME HandlerInv, NEW code \in Codes, WriteHeader(code)
    PROVE  /\ rec' \in [status : Codes, bytes : 0..MaxBytes, wrote : BOOLEAN]
           /\ sent' \in [status : Codes \cup {None}, bytes : 0..MaxBytes]
           /\ rec'.bytes = rec.bytes /\ sent'.bytes = sent.bytes /\ rec'.wrote = TRUE
           /\ rec'.status = IF rec.wrote THEN rec.status ELSE code
           /\ sent'.status = IF code >= 200 THEN code ELSE sent.status
<1>1. /\ rec \in [status : Codes, bytes : 0..MaxBytes, wrote : BOOLEAN]
      /\ sent \in [status : Codes \cup {None}, bytes : 0..MaxBytes]
    BY DEF HandlerInv, TypeOK
<1>2. /\ rec' \in [status : Codes, bytes : 0..MaxBytes, wrote : BOOLEAN]
      /\ rec'.bytes = rec.bytes /\ rec'.wrote = TRUE
      /\ rec'.status = IF rec.wrote THEN rec.status ELSE code
    <2>1. CASE rec.wrote
        BY <1>1, <2>1 DEF WriteHeader, RecordHeader
    <2>2. CASE ~rec.wrote
        <3>1. rec' = [rec EXCEPT !.status = code, !.wrote = TRUE]
            BY <2>2 DEF WriteHeader, RecordHeader
        <3> QED BY <1>1, <2>2, <3>1
    <2> QED BY <2>1, <2>2
<1>3. /\ sent' \in [status : Codes \cup {None}, bytes : 0..MaxBytes]
      /\ sent'.bytes = sent.bytes
      /\ sent'.status = IF code >= 200 THEN code ELSE sent.status
    <2>1. CASE code >= 200
        BY <1>1, <2>1 DEF WriteHeader
    <2>2. CASE ~(code >= 200)
        BY <1>1, <2>2 DEF WriteHeader
    <2> QED BY <2>1, <2>2
<1> QED BY <1>2, <1>3

LEMMA ForwardOK == HandlerInv /\ Forward => HandlerInv'
<1> SUFFICES ASSUME HandlerInv, Forward PROVE HandlerInv'
    OBVIOUS
<1>1. /\ pc = "forward" /\ pc' = "awaiting" /\ up' = body
      /\ UNCHANGED <<rec, sent, allowedAud, skipAud, req, keysEnabled, auth, body, query, record, fails, requests>>
    BY DEF Forward, Goto, replyRest, configVars
<1>2. Kept(body) /\ body \in Bodies /\ body # None
    BY NoneAssumption DEF HandlerInv, TypeOK, BodyInv
<1>3. TypeOK' /\ BodyInv'
    BY <1>1, <1>2 DEF HandlerInv, TypeOK, BodyInv, Kept, Unsent, Trying
<1>4. CredentialsInv' /\ RouteInv'
    BY <1>1 DEF HandlerInv, CredentialsInv, RouteInv, Trying, Inside, ForHere, ValidUser, ValidKey
<1>5. ReplyInv' /\ RecordInv'
    BY <1>1, NoneAssumption DEF HandlerInv, ReplyInv, RecordInv, Unsent, Trying
<1> QED BY <1>3, <1>4, <1>5 DEF HandlerInv

LEMMA HeaderOK ==
    ASSUME HandlerInv, UpstreamError \/ Informational \/ \E code \in {200, 500, 401} : Respond(code)
    PROVE  HandlerInv'
<1> PICK code \in Codes :
        /\ WriteHeader(code) /\ up' = up /\ UNCHANGED replyRest
        /\ \/ pc \in {"forward", "awaiting"} /\ pc' = "audit" /\ code = 502
           \/ pc = "awaiting" /\ pc' = "awaiting" /\ code = 103
           \/ pc = "awaiting" /\ pc' = "copying" /\ code \in {200, 500, 401}
    BY DEF UpstreamError, Informational, Respond, Goto, Codes
<1>1. /\ CredentialsInv' /\ RouteInv' /\ Kept(body)' /\ RecordInv'
      /\ record' = None /\ UNCHANGED <<req, auth, body, query, requests, fails>>
    BY ReplyRest
<1>2. /\ rec' \in [status : Codes, bytes : 0..MaxBytes, wrote : BOOLEAN]
      /\ sent' \in [status : Codes \cup {None}, bytes : 0..MaxBytes]
      /\ rec'.bytes = rec.bytes /\ sent'.bytes = sent.bytes /\ rec'.wrote = TRUE
      /\ rec'.status = IF rec.wrote THEN rec.status ELSE code
      /\ sent'.status = IF code >= 200 THEN code ELSE sent.status
    BY WriteHeaderOK
<1>3. TypeOK'
    BY <1>1, <1>2 DEF HandlerInv, TypeOK, replyRest, configVars
<1>4. BodyInv'
    BY <1>1 DEF HandlerInv, BodyInv, Kept, Unsent, Trying
<1>5. ReplyInv'
    <2>1. sent.status = None /\ (rec.wrote => rec.status = 103) /\ rec.bytes = sent.bytes
        BY DEF HandlerInv, ReplyInv, Unsent
    <2>2. pc = "awaiting" => up # None
        BY DEF HandlerInv, BodyInv
    <2> QED BY <1>2, <2>1, <2>2, NoneAssumption DEF ReplyInv, Unsent, Trying
<1> QED BY <1>1, <1>3, <1>4, <1>5 DEF HandlerInv

LEMMA CopyOK == HandlerInv /\ (Write \/ CopyDone \/ CopyFails) => HandlerInv'
<1> SUFFICES ASSUME HandlerInv, Write \/ CopyDone \/ CopyFails PROVE HandlerInv'
    OBVIOUS
<1>1. /\ pc = "copying" /\ pc' \in {"copying", "audit", "aborted"}
      /\ up' = up /\ UNCHANGED replyRest
    BY DEF Write, CopyDone, CopyFails, Goto
<1>2. /\ CredentialsInv' /\ RouteInv' /\ Kept(body)' /\ RecordInv'
      /\ record' = None /\ UNCHANGED <<req, auth, body, query, requests, fails>>
    BY <1>1, ReplyRest
<1>3. /\ rec \in [status : Codes, bytes : 0..MaxBytes, wrote : BOOLEAN]
      /\ sent \in [status : Codes \cup {None}, bytes : 0..MaxBytes]
      /\ rec.bytes = sent.bytes
    BY DEF HandlerInv, TypeOK, ReplyInv
<1>4. /\ rec' \in [status : Codes, bytes : 0..MaxBytes, wrote : BOOLEAN]
      /\ sent' \in [status : Codes \cup {None}, bytes : 0..MaxBytes]
      /\ rec'.bytes = sent'.bytes /\ rec'.status = rec.status /\ sent'.status = sent.status
    <2>1. CASE Write
        <3>1. sent.bytes < MaxBytes /\ MaxBytes \in Nat
              /\ rec' = [rec EXCEPT !.bytes = @ + 1] /\ sent' = [sent EXCEPT !.bytes = @ + 1]
            BY <2>1, BoundsAssumption DEF Write
        <3> QED BY <1>3, <3>1
    <2>2. CASE CopyDone \/ CopyFails
        BY <1>3, <2>2 DEF CopyDone, CopyFails
    <2> QED BY <2>1, <2>2
<1>5. TypeOK'
    BY <1>1, <1>2, <1>4 DEF HandlerInv, TypeOK, replyRest, configVars
<1>6. BodyInv'
    BY <1>1, <1>2 DEF HandlerInv, BodyInv, Kept, Unsent, Trying
<1>7. ReplyInv'
    BY <1>1, <1>4 DEF HandlerInv, BodyInv, ReplyInv, Unsent, Trying
<1> QED BY <1>2, <1>5, <1>6, <1>7 DEF HandlerInv

LEMMA AuditOK == HandlerInv /\ Audit => HandlerInv'
<1> SUFFICES ASSUME HandlerInv, Audit PROVE HandlerInv'
    OBVIOUS
<1> DEFINE envelope == [auth |-> auth, query |-> query, status |-> rec.status, bytes |-> rec.bytes]
<1>1. /\ pc = "audit" /\ pc' = "done" /\ record' = envelope /\ requests' = requests + 1
      /\ UNCHANGED <<allowedAud, skipAud, req, keysEnabled, auth, body, query, up, rec, sent, fails>>
    BY DEF Audit, Goto, configVars, bodyVars
<1>2. /\ auth \in AuthMethods /\ requests = 0
    BY <1>1 DEF HandlerInv, TypeOK, CredentialsInv, RecordInv, Inside
<1>3. /\ envelope \in AuditRecords /\ envelope # None
      /\ envelope.auth = auth /\ envelope.status = rec.status /\ envelope.bytes = rec.bytes
    <2>1. envelope \in AuditRecords
        BY <1>2 DEF HandlerInv, TypeOK, AuditRecords
    <2> QED BY <2>1, NoneAssumption
<1> HIDE DEF envelope
<1>4. TypeOK'
    BY <1>1, <1>2, <1>3 DEF HandlerInv, TypeOK
<1>5. CredentialsInv' /\ RouteInv' /\ BodyInv'
    BY <1>1 DEF HandlerInv, CredentialsInv, RouteInv, BodyInv, Kept, Unsent, Trying, Inside,
       ForHere, ValidUser, ValidKey
<1>6. ReplyInv'
    BY <1>1 DEF HandlerInv, ReplyInv, Unsent, Trying
<1>7. RecordInv'
    BY <1>1, <1>2, <1>3, NoneAssumption DEF HandlerInv, RecordInv, ReplyInv, TypeOK
<1> QED BY <1>4, <1>5, <1>6, <1>7 DEF HandlerInv

-----------------------------------------------------------------------------
LEMMA Invariance == Spec => []HandlerInv
<1>1. HandlerInv /\ Next => HandlerInv'
    BY AuthenticateOK, CheckAllowedOK, CaptureOK, ForwardOK, HeaderOK, CopyOK, AuditOK DEF Next
<1>2. HandlerInv /\ UNCHANGED vars => HandlerInv'
    BY DEF HandlerInv, TypeOK, CredentialsInv, RouteInv, BodyInv, Kept, ReplyInv, RecordInv,
       ForHere, ValidUser, ValidKey, vars
<1>3. HandlerInv /\ [Next]_vars => HandlerInv'
    BY <1>1, <1>2
<1> QED BY InitOK, <1>3, PTL DEF Spec

(* Every reply, record and counter is one that a request can have.         *)
THEOREM TypeCorrect == Spec => []TypeOK
<1>1. HandlerInv => TypeOK
    BY DEF HandlerInv
<1> QED BY <1>1, Invariance, PTL

(* Quickwit sees no request that is not a read, or whose credentials are   *)
(* not valid for this deployment.                                          *)
THEOREM GuardCorrect == Spec => []UpstreamGuarded
<1>1. HandlerInv => UpstreamGuarded
    BY RouteFacts DEF HandlerInv, CredentialsInv, RouteInv, UpstreamGuarded
<1> QED BY <1>1, Invariance, PTL

(* A request with a user's token is recorded as the user's, and none with  *)
(* a valid credential is turned away.                                      *)
THEOREM AttributionCorrect == Spec => []AttributedToUser
<1>1. HandlerInv => AttributedToUser
    BY DEF HandlerInv, CredentialsInv, ReplyInv, RecordInv, AttributedToUser
<1> QED BY <1>1, Invariance, PTL

(* Quickwit gets the body that the client has sent.                        *)
THEOREM BodyCorrect == Spec => []BodyIntact
<1>1. HandlerInv => BodyIntact
    BY DEF HandlerInv, BodyInv, Kept, BodyIntact
<1> QED BY <1>1, Invariance, PTL

(* A call whose reply did not break off is recorded and counted once, as   *)
(* it was answered.                                                        *)
THEOREM RecordCorrect == Spec => []RecordShowsReply
<1>1. HandlerInv => RecordShowsReply
    BY DEF HandlerInv, RecordInv, RecordShowsReply
<1> QED BY <1>1, Invariance, PTL

=============================================================================
