-------------------------- MODULE LoginFlow_proofs --------------------------
(***************************************************************************)
(* Theorems about LoginFlow, for any number of logins, callbacks and codes.*)
(***************************************************************************)
EXTENDS LoginFlow, TLAPS

Call == [at : {"send", "return", "page", "lost"}, to : Logins, url : Redirects]
Places == {"new", "open", "wait", "poll", "exchange", "shutdown", "done"}
Waiting == {"new", "open", "wait", "poll"}
Holding == {"open", "wait", "exchange", "shutdown"}
Login == [at : Places, code : Codes \cup {None}]

(* The browser calls back only with what the IdP has sent it.              *)
UrlsIssued == \A c \in DOMAIN calls : calls[c].url \in redirects

(* Only a login's own code gets onto its channel, and all of its codes are *)
(* unused until it has made up its mind.                                   *)
ResultsOwn ==
    \A l \in Logins : resCh[l] \notin {None, Failure} =>
        resCh[l] \in redirects /\ resCh[l][1] = l

OwnUnused ==
    \A l \in Logins : login[l].at \in Waiting =>
        /\ login[l].code = None
        /\ \A code \in redirects \ {Failure} : code[1] = l => code \in codes

(* A handler that has passed a code on has its page still to return, or    *)
(* has returned it.                                                        *)
BroughtBy(l, code) ==
    \E c \in DOMAIN calls :
        calls[c].at \in {"return", "page"} /\ calls[c].to = l /\ calls[c].url = code

PageOnItsWay ==
    \A l \in Logins :
        /\ resCh[l] \notin {None, Failure} => BroughtBy(l, resCh[l])
        /\ login[l].at \in {"exchange", "shutdown"} /\ login[l].code # None =>
               BroughtBy(l, login[l].code)

LoginInv ==
    /\ TypeOK
    /\ UrlsIssued /\ ResultsOwn /\ OwnUnused /\ RedeemsOwn
    /\ PageOnItsWay /\ PageShown

-----------------------------------------------------------------------------
(* What the bookkeeping of a sequence comes to.                            *)
LEMMA CallFacts ==
    ASSUME NEW s \in Seq(Call)
    PROVE  /\ Len(s) \in Nat /\ DOMAIN s = 1..Len(s)
           /\ \A c \in DOMAIN s : s[c] \in Call
OBVIOUS

LEMMA SameLength ==
    ASSUME NEW s \in Seq(Call), NEW t, DOMAIN t = DOMAIN s,
           t = [c \in DOMAIN s |-> t[c]], \A c \in DOMAIN s : t[c] \in Call
    PROVE  t \in Seq(Call) /\ Len(t) = Len(s)
<1>1. Len(s) \in Nat /\ DOMAIN s = 1..Len(s)
    OBVIOUS
<1>2. t \in [1..Len(s) -> Call]
    BY <1>1
<1> QED BY <1>1, <1>2

LEMMA InitOK == Init => LoginInv
<1> SUFFICES ASSUME Init PROVE LoginInv
    OBVIOUS
<1>1. TypeOK
    BY LoginsAssumption DEF Init, TypeOK
<1> QED BY <1>1 DEF Init, LoginInv, UrlsIssued, ResultsOwn, OwnUnused, RedeemsOwn,
               PageOnItsWay, PageShown, At, Waiting

LEMMA LoginFacts ==
    ASSUME TypeOK
    PROVE  /\ login \in [Logins -> Login]
           /\ port \in Logins \cup {None}
           /\ port # None => login[port].at \in Holding
BY LoginsAssumption DEF TypeOK, Login, Places, Holding

LEMMA PortOK ==
    ASSUME NEW L \in [Logins -> Login], NEW q \in Logins \cup {None},
           q # None => L[q].at \in Holding
    PROVE  q \in {l \in Logins : L[l].at \in Holding} \cup {None}
OBVIOUS

LEMMA GoOK ==
    ASSUME TypeOK, NEW l \in Logins, NEW where \in Places, Go(l, where)
    PROVE  /\ login' \in [Logins -> Login]
           /\ login'[l].at = where /\ login'[l].code = login[l].code
           /\ \A m \in Logins \ {l} : login'[m] = login[m]
<1>1. login \in [Logins -> Login]
    BY LoginFacts
<1>2. login[l] \in Login /\ login' = [login EXCEPT ![l] = [login[l] EXCEPT !.at = where]]
    BY <1>1 DEF Go
<1>3. [login[l] EXCEPT !.at = where] \in Login
    BY <1>2 DEF Login
<1> QED BY <1>1, <1>2, <1>3 DEF Login

(* A step that only moves a login between two places, neither of which has *)
(* anything to do with its code.                                           *)
LEMMA MoveOK ==
    ASSUME LoginInv, NEW l \in Logins, NEW where \in Places, Go(l, where),
           login[l].at \in Waiting, where \in Waiting \cup {"done"},
           port' \in Logins \cup {None},
           port' # None => login'[port'].at \in Holding,
           signalled' \subseteq Logins,
           asked' \subseteq Logins,
           UNCHANGED <<resCh, calls, redirects, granted, codes, cutOff>>
    PROVE  LoginInv'
<1>1. /\ login' \in [Logins -> Login]
      /\ login'[l].at = where /\ login'[l].code = login[l].code
      /\ \A m \in Logins \ {l} : login'[m] = login[m]
    BY GoOK DEF LoginInv
<1>2. TypeOK'
    BY <1>1, PortOK DEF LoginInv, TypeOK, Login, Places, Holding
<1>3. \A m \in Logins : login'[m].code = login[m].code /\
          (login'[m].at = login[m].at \/ (m = l /\ login'[m].at \in Waiting \cup {"done"}))
    BY <1>1
<1>4. login[l].code = None
    BY DEF LoginInv, OwnUnused
<1> QED BY <1>2, <1>3, <1>4 DEF LoginInv, UrlsIssued, ResultsOwn, OwnUnused, RedeemsOwn, At,
               PageOnItsWay, BroughtBy, PageShown, Waiting

LEMMA BindOK == ASSUME LoginInv, NEW l \in Logins, Bind(l) PROVE LoginInv'
<1>1. login \in [Logins -> Login] /\ port \in Logins \cup {None} /\ None \notin Logins
    BY LoginFacts, LoginsAssumption DEF LoginInv
<1>2. CASE port = None
    <2>1. Go(l, "open") /\ port' = l
        BY <1>2 DEF Bind
    <2>2. login'[l].at = "open"
        BY <2>1, GoOK DEF LoginInv, Places
    <2> QED BY <1>1, <2>1, <2>2, MoveOK DEF Bind, At, Places, Waiting, Holding, browserVars,
                   LoginInv, TypeOK
<1>3. CASE port # None
    <2>1. Go(l, "done") /\ port' = port /\ login[l].at = "new"
        BY <1>3 DEF Bind, At
    <2>2. port # l /\ login[port].at \in Holding
        BY <1>3, <2>1, LoginFacts DEF LoginInv, Holding
    <2>3. login'[port] = login[port]
        BY <1>1, <1>3, <2>1, <2>2, GoOK DEF LoginInv, Places
    <2> QED BY <1>1, <2>1, <2>2, <2>3, MoveOK DEF Bind, Places, Waiting, browserVars,
                   LoginInv, TypeOK
<1> QED BY <1>2, <1>3

LEMMA OpenOK == ASSUME LoginInv, NEW l \in Logins, Open(l) PROVE LoginInv'
<1>1. Go(l, "wait") /\ port' = port /\ login[l].at = "open"
    BY DEF Open, At
<1>2. port' # None => login'[port'].at \in Holding
    BY <1>1, GoOK, LoginFacts DEF LoginInv, Places, Holding
<1> QED BY <1>1, <1>2, LoginFacts, MoveOK DEF Open, Places, Waiting, LoginInv, TypeOK

(* A login that leaves "new" or "poll" for another place without the port. *)
LEMMA DeviceOK ==
    ASSUME LoginInv, NEW l \in Logins, NEW where \in {"poll", "done"}, Go(l, where),
           login[l].at \in {"new", "poll"}, signalled' \subseteq Logins,
           UNCHANGED <<port, resCh, calls, browserVars, codes, cutOff>>
    PROVE  LoginInv'
<1>1. port # None => port # l /\ login[port].at \in Holding
    BY LoginFacts DEF LoginInv, Holding
<1>2. port' # None => login'[port'].at \in Holding
    BY <1>1, GoOK, LoginFacts DEF LoginInv, Places
<1> QED BY <1>2, LoginFacts, MoveOK DEF Places, Waiting, browserVars, LoginInv, TypeOK

(* Login gives up: no code is left in its hands.                           *)
LEMMA FailOK ==
    ASSUME LoginInv, NEW l \in Logins, Fail(l), login[l].at \in {"wait", "exchange"},
           \/ codes' = codes
           \/ login[l].at = "exchange" /\ codes' = codes \ {login[l].code},
           resCh' \in [Logins -> Codes \cup {None, Failure}],
           \A m \in Logins : resCh'[m] \in {resCh[m], None},
           signalled' \subseteq Logins,
           UNCHANGED <<port, calls, browserVars, cutOff>>
    PROVE  LoginInv'
<1>1. login \in [Logins -> Login] /\ codes \subseteq Codes
    BY LoginFacts DEF LoginInv, TypeOK
<1>2. /\ login' = [login EXCEPT ![l] = [login[l] EXCEPT !.at = "shutdown", !.code = None]]
      /\ [login[l] EXCEPT !.at = "shutdown", !.code = None] \in Login
    BY <1>1 DEF Fail, Login, Places
<1>3. /\ login' \in [Logins -> Login]
      /\ login'[l].at = "shutdown" /\ login'[l].code = None
      /\ \A m \in Logins \ {l} : login'[m] = login[m]
    BY <1>1, <1>2 DEF Login
<1>4. port # None => login'[port].at \in Holding
    BY <1>3, LoginFacts DEF LoginInv, Holding
<1>5. TypeOK'
    BY <1>1, <1>3, <1>4, PortOK, LoginFacts DEF LoginInv, TypeOK, Login, Places, Holding, browserVars
<1>6. \A code \in Codes : code \in codes /\ code \notin codes' => code[1] = l
    BY DEF LoginInv, RedeemsOwn, At
<1>7. redirects \subseteq Codes \cup {Failure} /\ \A m \in Logins : login[m].code \in Codes \cup {None}
    BY <1>1 DEF LoginInv, TypeOK, Redirects, Login
<1>8. OwnUnused'
    BY <1>1, <1>3, <1>6, <1>7 DEF LoginInv, OwnUnused, Waiting, browserVars
<1>9. RedeemsOwn'
    BY <1>1, <1>3, <1>6, <1>7 DEF LoginInv, RedeemsOwn, At
<1>10. UrlsIssued' /\ ResultsOwn' /\ PageOnItsWay' /\ PageShown'
    BY <1>3 DEF LoginInv, UrlsIssued, ResultsOwn, PageOnItsWay, BroughtBy, PageShown, At, browserVars
<1> QED BY <1>5, <1>8, <1>9, <1>10 DEF LoginInv

LEMMA TakeOK == ASSUME LoginInv, NEW l \in Logins, Take(l) PROVE LoginInv'
<1>1. /\ login \in [Logins -> Login] /\ resCh \in [Logins -> Codes \cup {None, Failure}]
      /\ login[l].at = "wait" /\ resCh[l] # None /\ resCh' = [resCh EXCEPT ![l] = None]
    BY LoginFacts DEF LoginInv, TypeOK, Take, At
<1>2. /\ resCh' \in [Logins -> Codes \cup {None, Failure}]
      /\ resCh'[l] = None /\ \A m \in Logins \ {l} : resCh'[m] = resCh[m]
    BY <1>1
<1>3. CASE resCh[l] = Failure
    <2>1. Fail(l) /\ \A m \in Logins : resCh'[m] \in {resCh[m], None}
        BY <1>2, <1>3 DEF Take
    <2> QED BY <1>1, <1>2, <2>1, FailOK DEF Take, browserVars, LoginInv, TypeOK
<1>4. CASE resCh[l] # Failure
    <2>1. /\ login' = [login EXCEPT ![l] = [login[l] EXCEPT !.at = "exchange", !.code = resCh[l]]]
          /\ resCh[l] \in Codes
        BY <1>1, <1>4 DEF Take
    <2>2. [login[l] EXCEPT !.at = "exchange", !.code = resCh[l]] \in Login
        BY <1>1, <2>1 DEF Login, Places
    <2>3. /\ login' \in [Logins -> Login]
          /\ login'[l].at = "exchange" /\ login'[l].code = resCh[l]
          /\ \A m \in Logins \ {l} : login'[m] = login[m]
        BY <1>1, <2>1, <2>2 DEF Login
    <2>4. port # None => login'[port].at \in Holding
        BY <2>3, LoginFacts DEF LoginInv, Holding
    <2>5. TypeOK'
        BY <1>2, <2>3, <2>4, PortOK, LoginFacts DEF LoginInv, TypeOK, Login, Places, Holding,
           Take, browserVars
    <2>6. /\ resCh[l] \in redirects \ {Failure} /\ resCh[l][1] = l /\ resCh[l] \in codes
          /\ BroughtBy(l, resCh[l])
        BY <1>1, <1>4 DEF LoginInv, ResultsOwn, OwnUnused, PageOnItsWay, Waiting
    <2>7. RedeemsOwn'
        BY <2>3, <2>6 DEF LoginInv, RedeemsOwn, At, Take
    <2>8. PageOnItsWay'
        BY <1>2, <2>3, <2>6 DEF LoginInv, PageOnItsWay, BroughtBy, Take
    <2>9. UrlsIssued' /\ ResultsOwn' /\ OwnUnused' /\ PageShown'
        BY <1>2, <2>3 DEF LoginInv, UrlsIssued, ResultsOwn, OwnUnused, PageShown, At, Take,
           browserVars, Waiting
    <2> QED BY <2>5, <2>7, <2>8, <2>9 DEF LoginInv
<1> QED BY <1>3, <1>4

LEMMA ExchangeOK == ASSUME LoginInv, NEW l \in Logins, Exchange(l) PROVE LoginInv'
<1>1. /\ login' \in [Logins -> Login]
      /\ login'[l].at = "shutdown" /\ login'[l].code = login[l].code
      /\ \A m \in Logins \ {l} : login'[m] = login[m]
    BY GoOK DEF LoginInv, Exchange, Places
<1>2. login[l].at = "exchange" /\ login[l].code[1] = l /\ codes' = codes \ {login[l].code}
    BY DEF Exchange, Redeemable, At
<1>3. port # None => login'[port].at \in Holding
    BY <1>1, LoginFacts DEF LoginInv, Holding
<1>4. TypeOK'
    BY <1>1, <1>2, <1>3, PortOK, LoginFacts DEF LoginInv, TypeOK, Login, Places, Holding,
       Exchange, browserVars
<1>5. OwnUnused' /\ RedeemsOwn'
    BY <1>1, <1>2 DEF LoginInv, OwnUnused, RedeemsOwn, Waiting, At, Exchange, browserVars
<1>6. PageOnItsWay'
    BY <1>1, <1>2 DEF LoginInv, PageOnItsWay, BroughtBy, Exchange
<1>7. UrlsIssued' /\ ResultsOwn' /\ PageShown'
    BY <1>1 DEF LoginInv, UrlsIssued, ResultsOwn, PageShown, At, Exchange, browserVars
<1> QED BY <1>4, <1>5, <1>6, <1>7 DEF LoginInv

LEMMA CloseListenerOK ==
    ASSUME LoginInv, NEW l \in Logins, CloseListener(l) \/ Interrupt(l) PROVE LoginInv'
<1>1. TypeOK'
    BY DEF LoginInv, TypeOK, CloseListener, Interrupt, browserVars
<1> QED BY <1>1 DEF LoginInv, UrlsIssued, ResultsOwn, OwnUnused, RedeemsOwn, At, PageOnItsWay,
               BroughtBy, PageShown, CloseListener, Interrupt, browserVars

LEMMA CancelledOK == ASSUME LoginInv, NEW l \in Logins, Cancelled(l) PROVE LoginInv'
<1>1. /\ signalled' \subseteq Logins /\ resCh' = resCh
      /\ resCh \in [Logins -> Codes \cup {None, Failure}]
    BY DEF Cancelled, LoginInv, TypeOK
<1>2. CASE At(l, "wait") /\ Fail(l) /\ UNCHANGED codes
    BY <1>1, <1>2, FailOK DEF Cancelled, At, browserVars
<1>3. CASE At(l, "exchange") /\ Fail(l) /\ codes' \in {codes, codes \ {login[l].code}}
    BY <1>1, <1>3, FailOK DEF Cancelled, At, browserVars
<1>4. CASE At(l, "poll") /\ Go(l, "done") /\ UNCHANGED codes
    BY <1>1, <1>4, DeviceOK DEF Cancelled, At
<1> QED BY <1>2, <1>3, <1>4 DEF Cancelled

(* The process is gone: what it had on its channel, and its handlers.      *)
LEMMA ExitOK ==
    ASSUME LoginInv, NEW l \in Logins, At(l, "shutdown"), port # l, Exit(l),
           UNCHANGED <<port, browserVars, codes>>,
           \/ cutOff' = cutOff /\ Drained(l)
           \/ cutOff' = cutOff \cup {l}
    PROVE  LoginInv'
<1>1. /\ login' \in [Logins -> Login]
      /\ login[l].at = "shutdown" /\ login'[l].at = "done" /\ login'[l].code = login[l].code
      /\ \A m \in Logins \ {l} : login'[m] = login[m]
    BY GoOK DEF LoginInv, Exit, Places, At
<1>2. /\ resCh' \in [Logins -> Codes \cup {None, Failure}]
      /\ resCh'[l] = None /\ \A m \in Logins \ {l} : resCh'[m] = resCh[m]
    BY DEF LoginInv, TypeOK, Exit
<1>3. calls \in Seq(Call) /\ Len(calls) <= MaxCalls
    BY DEF LoginInv, TypeOK, Call
<1>4. /\ DOMAIN calls' = DOMAIN calls
      /\ \A c \in DOMAIN calls :
            /\ calls'[c] = IF c \in Handling(l) THEN [calls[c] EXCEPT !.at = "lost"] ELSE calls[c]
            /\ calls[c] \in Call
    BY <1>3, CallFacts DEF Exit
<1>5. \A c \in DOMAIN calls :
          /\ calls'[c] \in Call /\ calls'[c].to = calls[c].to /\ calls'[c].url = calls[c].url
          /\ c \notin Handling(l) => calls'[c] = calls[c]
    BY <1>4 DEF Call
<1>6. calls' = [c \in DOMAIN calls |-> calls'[c]]
    BY <1>4 DEF Exit
<1>7. calls' \in Seq(Call) /\ Len(calls') <= MaxCalls
    BY <1>3, <1>4, <1>5, <1>6, SameLength
<1>8. port # None => login'[port].at \in Holding
    BY <1>1, LoginFacts DEF LoginInv, Holding
<1>9. TypeOK'
    BY <1>1, <1>2, <1>7, <1>8, PortOK, LoginFacts DEF LoginInv, TypeOK, Login, Places, Holding,
       Exit, browserVars, Call
<1>10. PageOnItsWay'
    <2>1. ASSUME NEW m \in Logins \ {l}, NEW code, BroughtBy(m, code)
          PROVE  BroughtBy(m, code)'
        BY <1>4, <1>5, <2>1 DEF BroughtBy, Handling
    <2> QED BY <1>1, <1>2, <2>1 DEF LoginInv, PageOnItsWay
<1>11. PageShown'
    <2> SUFFICES ASSUME NEW m \in Logins, login'[m].at = "done", login'[m].code # None,
                        m \notin cutOff'
                 PROVE  \E c \in DOMAIN calls' : /\ calls'[c].at = "page" /\ calls'[c].to = m
                                                /\ calls'[c].url = login'[m].code
        BY DEF PageShown, At
    <2>1. PICK c \in DOMAIN calls :
              calls[c].at = "page" /\ calls[c].to = m /\ calls[c].url = login[m].code
        <3>1. CASE m = l
            <4>1. Handling(l) = {}
                BY <3>1 DEF Drained
            <4>2. BroughtBy(l, login[l].code)
                BY <1>1, <3>1 DEF LoginInv, PageOnItsWay
            <4> QED BY <3>1, <4>1, <4>2 DEF BroughtBy, Handling
        <3>2. CASE m # l
            BY <1>1, <3>2 DEF LoginInv, PageShown, At
        <3> QED BY <3>1, <3>2
    <2>2. c \notin Handling(l) /\ login'[m].code = login[m].code
        BY <1>1, <2>1 DEF Handling
    <2> QED BY <1>4, <1>5, <2>1, <2>2
<1>12. UrlsIssued' /\ ResultsOwn' /\ OwnUnused' /\ RedeemsOwn'
    BY <1>1, <1>2, <1>4, <1>5 DEF LoginInv, UrlsIssued, ResultsOwn, OwnUnused, RedeemsOwn,
       Waiting, At, browserVars
<1> QED BY <1>9, <1>10, <1>11, <1>12 DEF LoginInv

LEMMA GrantOK == ASSUME LoginInv, NEW l \in Logins, Grant(l) \/ Deny(l) PROVE LoginInv'
<1>1. CASE Grant(l)
    <2> DEFINE code == <<l, granted[l] + 1>>
    <2>1. /\ granted[l] \in 0..MaxGrants /\ granted[l] + 1 \in 1..MaxGrants
          /\ granted' = [granted EXCEPT ![l] = @ + 1]
          /\ codes' = codes \cup {code} /\ redirects' = redirects \cup {code}
        BY <1>1, LoginsAssumption DEF Grant, LoginInv, TypeOK
    <2>2. code \in Codes /\ granted' \in [Logins -> 0..MaxGrants]
        BY <2>1 DEF Codes, LoginInv, TypeOK
    <2>3. TypeOK'
        BY <1>1, <2>1, <2>2 DEF LoginInv, TypeOK, Grant, Redirects
    <2> QED BY <1>1, <2>1, <2>3 DEF LoginInv, UrlsIssued, ResultsOwn, OwnUnused, RedeemsOwn, At,
                   PageOnItsWay, BroughtBy, PageShown, Grant
<1>2. CASE Deny(l)
    <2>1. TypeOK'
        BY <1>2 DEF LoginInv, TypeOK, Deny, Redirects
    <2> QED BY <1>2, <2>1 DEF LoginInv, UrlsIssued, ResultsOwn, OwnUnused, RedeemsOwn, At,
                   PageOnItsWay, BroughtBy, PageShown, Deny
<1> QED BY <1>1, <1>2

LEMMA VisitOK == ASSUME LoginInv, NEW url \in redirects, Visit(url) PROVE LoginInv'
<1> DEFINE call == [at |-> "send", to |-> port, url |-> url]
<1>1. /\ calls \in Seq(Call) /\ Len(calls) < MaxCalls /\ MaxCalls \in Nat
      /\ calls' = Append(calls, call)
    BY LoginsAssumption DEF LoginInv, TypeOK, Call, Visit
<1>2. call \in Call
    BY LoginFacts DEF Visit, LoginInv, TypeOK, Call
<1> HIDE DEF call
<1>3. /\ calls' \in Seq(Call) /\ Len(calls') <= MaxCalls
      /\ DOMAIN calls = 1..Len(calls) /\ DOMAIN calls' = 1..(Len(calls) + 1)
      /\ \A c \in DOMAIN calls : calls'[c] = calls[c]
      /\ calls'[Len(calls) + 1] = call /\ Len(calls) \in Nat
    BY <1>1, <1>2
<1>4. TypeOK'
    BY <1>3 DEF LoginInv, TypeOK, Visit, Call, browserVars
<1>5. UrlsIssued'
    <2>1. call.url = url
        BY DEF call
    <2>2. \A c \in DOMAIN calls' : c \in DOMAIN calls \/ c = Len(calls) + 1
        BY <1>3
    <2> QED BY <1>3, <2>1, <2>2 DEF LoginInv, UrlsIssued, Visit, browserVars
<1>6. DOMAIN calls \subseteq DOMAIN calls'
    BY <1>3
<1> QED BY <1>3, <1>4, <1>5, <1>6 DEF LoginInv, ResultsOwn, OwnUnused, RedeemsOwn, At,
               PageOnItsWay, BroughtBy, PageShown, Visit, browserVars

(* A request gets one place further in its handler.                        *)
LEMMA AdvanceFacts ==
    ASSUME LoginInv, NEW c \in DOMAIN calls, NEW at \in {"return", "page"},
           calls' = [calls EXCEPT ![c].at = at]
    PROVE  /\ calls' \in Seq(Call) /\ Len(calls') <= MaxCalls
           /\ DOMAIN calls' = DOMAIN calls
           /\ \A d \in DOMAIN calls \ {c} : calls'[d] = calls[d]
           /\ calls'[c].at = at /\ calls'[c].to = calls[c].to /\ calls'[c].url = calls[c].url
<1>1. /\ calls \in Seq(Call) /\ Len(calls) <= MaxCalls
      /\ \A d \in DOMAIN calls : calls[d] \in Call
    BY CallFacts DEF LoginInv, TypeOK, Call
<1>2. calls' = [calls EXCEPT ![c] = [calls[c] EXCEPT !.at = at]]
    OBVIOUS
<1>3. [calls[c] EXCEPT !.at = at] \in Call
    BY <1>1 DEF Call
<1> QED BY <1>1, <1>2, <1>3 DEF Call

LEMMA SendOK == ASSUME LoginInv, NEW c \in DOMAIN calls, Send(c) PROVE LoginInv'
<1>1. calls[c] \in Call /\ calls[c].url \in redirects
    BY CallFacts DEF LoginInv, TypeOK, UrlsIssued, Call
<1> PICK l \in Logins, url \in Redirects : l = calls[c].to /\ url = calls[c].url /\ url \in redirects
    BY <1>1 DEF Call
<1>a. Answer(l, url) \in Redirects
    BY DEF Answer, Redirects
<1> PICK answer \in Redirects : answer = Answer(l, url)
    BY <1>a
<1>2. /\ calls[c].at = "send" /\ calls' = [calls EXCEPT ![c].at = "return"]
      /\ resCh' = [resCh EXCEPT ![l] = answer]
      /\ UNCHANGED <<login, port, browserVars, codes, signalled, cutOff>>
    BY DEF Send
<1>3. answer = Failure \/ (answer = url /\ url # Failure /\ url[1] = l)
    BY DEF Answer
<1>4. /\ resCh' \in [Logins -> Codes \cup {None, Failure}]
      /\ resCh'[l] = answer /\ \A m \in Logins \ {l} : resCh'[m] = resCh[m]
    BY <1>2 DEF LoginInv, TypeOK, Redirects
<1>5. /\ calls' \in Seq(Call) /\ Len(calls') <= MaxCalls
      /\ DOMAIN calls' = DOMAIN calls
      /\ \A d \in DOMAIN calls \ {c} : calls'[d] = calls[d]
      /\ calls'[c].at = "return" /\ calls'[c].to = l /\ calls'[c].url = url
    BY <1>2, AdvanceFacts
<1>6. TypeOK'
    BY <1>2, <1>4, <1>5 DEF LoginInv, TypeOK, Call, browserVars
<1>7. UrlsIssued' /\ ResultsOwn'
    BY <1>2, <1>3, <1>4, <1>5 DEF LoginInv, UrlsIssued, ResultsOwn, browserVars
<1>8. PageOnItsWay'
    <2>1. ASSUME NEW m \in Logins, NEW code, BroughtBy(m, code) PROVE BroughtBy(m, code)'
        BY <1>2, <1>5, <2>1 DEF BroughtBy
    <2>2. answer # Failure => BroughtBy(l, answer)'
        BY <1>3, <1>5 DEF BroughtBy
    <2>3. ASSUME NEW m \in Logins
          PROVE  /\ (resCh'[m] \notin {None, Failure} => BroughtBy(m, resCh[m])')
                 /\ (login'[m].at \in {"exchange", "shutdown"} /\ login'[m].code # None =>
                       BroughtBy(m, login[m].code)')
        <3>1. CASE m = l
            BY <1>2, <1>4, <2>1, <2>2, <3>1 DEF LoginInv, PageOnItsWay, BroughtBy
        <3>2. CASE m # l
            BY <1>2, <1>4, <2>1, <3>2 DEF LoginInv, PageOnItsWay, BroughtBy
        <3> QED BY <3>1, <3>2
    <2> QED BY <2>3 DEF PageOnItsWay
<1>9. PageShown'
    BY <1>2, <1>5 DEF LoginInv, PageShown, At
<1>10. OwnUnused' /\ RedeemsOwn'
    BY <1>2 DEF LoginInv, OwnUnused, RedeemsOwn, At, browserVars
<1> QED BY <1>6, <1>7, <1>8, <1>9, <1>10 DEF LoginInv

LEMMA PageOK == ASSUME LoginInv, NEW c \in DOMAIN calls, Page(c) PROVE LoginInv'
<1>1. /\ calls' \in Seq(Call) /\ Len(calls') <= MaxCalls
      /\ DOMAIN calls' = DOMAIN calls
      /\ \A d \in DOMAIN calls \ {c} : calls'[d] = calls[d]
      /\ calls'[c].at = "page" /\ calls'[c].to = calls[c].to /\ calls'[c].url = calls[c].url
    BY AdvanceFacts DEF Page
<1>2. UNCHANGED <<login, port, resCh, browserVars, codes, signalled, cutOff>>
    BY DEF Page
<1>3. TypeOK'
    BY <1>1, <1>2 DEF LoginInv, TypeOK, Call, browserVars
<1>4. UrlsIssued' /\ ResultsOwn' /\ OwnUnused' /\ RedeemsOwn'
    BY <1>1, <1>2 DEF LoginInv, UrlsIssued, ResultsOwn, OwnUnused, RedeemsOwn, At, browserVars
<1>5. PageOnItsWay'
    <2>1. ASSUME NEW m \in Logins, NEW code, BroughtBy(m, code) PROVE BroughtBy(m, code)'
        BY <1>1, <2>1 DEF BroughtBy
    <2> QED BY <1>2, <2>1 DEF LoginInv, PageOnItsWay
<1>6. PageShown'
    BY <1>1, <1>2 DEF LoginInv, PageShown, At
<1> QED BY <1>3, <1>4, <1>5, <1>6 DEF LoginInv

-----------------------------------------------------------------------------
LEMMA NextOK == LoginInv /\ Next => LoginInv'
<1> SUFFICES ASSUME LoginInv, Next PROVE LoginInv'
    OBVIOUS
<1>1. ASSUME NEW l \in Logins, Bind(l) \/ Open(l) \/ Take(l) \/ Exchange(l) \/ Cancelled(l)
      PROVE  LoginInv'
    BY <1>1, BindOK, OpenOK, TakeOK, ExchangeOK, CancelledOK
<1>2. ASSUME NEW l \in Logins, CloseListener(l) \/ Interrupt(l) PROVE LoginInv'
    BY <1>2, CloseListenerOK
<1>3. ASSUME NEW l \in Logins, Device(l) \/ PollEnds(l) PROVE LoginInv'
    <2>1. signalled' \subseteq Logins
        BY <1>3 DEF Device, PollEnds, LoginInv, TypeOK
    <2> QED BY <1>3, <2>1, DeviceOK DEF Device, PollEnds, At
<1>4. ASSUME NEW l \in Logins, ExchangeFails(l) PROVE LoginInv'
    <2>1. /\ Fail(l) /\ login[l].at = "exchange" /\ codes' \in {codes, codes \ {login[l].code}}
          /\ signalled' \subseteq Logins /\ resCh' = resCh
          /\ resCh \in [Logins -> Codes \cup {None, Failure}]
        BY <1>4 DEF ExchangeFails, AfterFailure, At, LoginInv, TypeOK
    <2> QED BY <1>4, <2>1, FailOK DEF ExchangeFails
<1>5. ASSUME NEW l \in Logins, Shutdown(l) \/ ShutdownTimesOut(l) PROVE LoginInv'
    BY <1>5, ExitOK DEF Shutdown, ShutdownTimesOut, TimesOut
<1>6. ASSUME NEW l \in Logins, Grant(l) \/ Deny(l) PROVE LoginInv'
    BY <1>6, GrantOK
<1>7. ASSUME NEW url \in redirects, Visit(url) PROVE LoginInv'
    BY <1>7, VisitOK
<1>8. ASSUME NEW c \in DOMAIN calls, Send(c) \/ Page(c) PROVE LoginInv'
    BY <1>8, SendOK, PageOK
<1> QED BY <1>1, <1>2, <1>3, <1>4, <1>5, <1>6, <1>7, <1>8 DEF Next, Main

LEMMA StutterOK == LoginInv /\ UNCHANGED vars => LoginInv'
BY DEF LoginInv, TypeOK, UrlsIssued, ResultsOwn, OwnUnused, RedeemsOwn, PageOnItsWay, BroughtBy,
       PageShown, At, vars, browserVars

LEMMA Invariance == Spec => []LoginInv
<1>1. LoginInv /\ [Next]_vars => LoginInv'
    BY NextOK, StutterOK
<1> QED BY InitOK, <1>1, PTL DEF Spec

(* The port is held only by a login that is still at work, each request of *)
(* the browser is where the handler can be, and nothing exceeds its bound. *)
THEOREM TypeCorrect == Spec => []TypeOK
<1>1. LoginInv => TypeOK
    BY DEF LoginInv
<1> QED BY <1>1, Invariance, PTL

(* A login goes to the IdP only with an unused code of its own, whatever   *)
(* tabs call it, and however many.                                         *)
THEOREM RedeemsCorrect == Spec => []RedeemsOwn
<1>1. LoginInv => RedeemsOwn
    BY DEF LoginInv
<1> QED BY <1>1, Invariance, PTL

(* A login that has succeeded has shown its page, unless its Shutdown was  *)
(* cut off.                                                                *)
THEOREM PageCorrect == Spec => []PageShown
<1>1. LoginInv => PageShown
    BY DEF LoginInv
<1> QED BY <1>1, Invariance, PTL

=============================================================================
