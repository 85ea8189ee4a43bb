----------------------------- MODULE LoginFlow -----------------------------
(***************************************************************************)
(* qw login, from internal/cli/login.go down to Login and LoginDevice of   *)
(* internal/oidc: several runs of the command on one machine, the browser, *)
(* and the identity provider (IdP).  The loopback port is fixed, so that   *)
(* only one login can listen, and a tab that an earlier login has opened   *)
(* calls whichever listens now.  Tabs are reloaded, answered late, denied, *)
(* or left alone; a login has no timeout of its own.                       *)
(*                                                                         *)
(* PKCE is taken at its word: the IdP redeems a code once, and only for    *)
(* the login whose challenge it was issued for.  Discovery, and saving the *)
(* tokens (ContextFile), are left out.  Operators called Fault... are      *)
(* seeded bugs, no part of the specification.                              *)
(***************************************************************************)
EXTENDS Naturals, Sequences, FiniteSets

CONSTANTS
    Logins,          \* runs of qw login
    MaxCalls,        \* bound on the requests that reach a listener
    MaxGrants,       \* bound on the codes issued to one login
    None, Failure

ASSUME LoginsAssumption ==
    /\ MaxCalls \in Nat /\ MaxGrants \in Nat
    /\ None # Failure
    /\ {None, Failure} \cap (Logins \cup Logins \X (1..MaxGrants)) = {}

VARIABLES
    login,           \* what each login is doing
    port,            \* the login that listens on the port, or None
    resCh,           \* what is on each login's channel, or None
    calls,           \* the browser's requests, and how far each has got
    asked,           \* the logins whose URL the browser has opened
    redirects,       \* where the IdP has sent the browser
    granted, codes,  \* how many codes it has issued, which are unused
    signalled,       \* the logins with an interrupt still to be handled
    cutOff           \* history: logins whose Shutdown has timed out

vars == <<login, port, resCh, calls, asked, redirects, granted, codes, signalled, cutOff>>
browserVars == <<asked, redirects, granted>>

(* A code names the login whose challenge it is bound to, which is the one *)
(* whose state comes with it.  A redirect brings a code, or an error: its  *)
(* state is not looked at.                                                 *)
Codes == Logins \X (1..MaxGrants)
Redirects == Codes \cup {Failure}

TypeOK ==
    /\ login \in [Logins -> [at : {"new", "open", "wait", "poll", "exchange", "shutdown", "done"},
                             code : Codes \cup {None}]]
    /\ port \in {l \in Logins : login[l].at \in {"open", "wait", "exchange", "shutdown"}} \cup {None}
    /\ resCh \in [Logins -> Codes \cup {None, Failure}]
    /\ calls \in Seq([at : {"send", "return", "page", "lost"}, to : Logins, url : Redirects])
    /\ Len(calls) <= MaxCalls
    /\ asked \subseteq Logins
    /\ redirects \subseteq Redirects
    /\ granted \in [Logins -> 0..MaxGrants]
    /\ codes \subseteq Codes
    /\ signalled \subseteq Logins /\ cutOff \subseteq Logins

Init ==
    /\ login = [l \in Logins |-> [at |-> "new", code |-> None]]
    /\ port = None
    /\ resCh = [l \in Logins |-> None]
    /\ calls = <<>>
    /\ asked = {} /\ redirects = {}
    /\ granted = [l \in Logins |-> 0]
    /\ codes = {} /\ signalled = {} /\ cutOff = {}

At(l, where) == login[l].at = where
Go(l, where) == login' = [login EXCEPT ![l].at = where]

(* Login has failed: no code is left, and the deferred calls run.          *)
Fail(l) == login' = [login EXCEPT ![l].at = "shutdown", ![l].code = None]

-----------------------------------------------------------------------------
(* The browser flow binds the port, which fails if another login has it,   *)
(* and opens the browser, which may fail and does not matter to it.        *)
Bind(l) ==
    /\ At(l, "new")
    /\ IF port = None THEN port' = l /\ Go(l, "open")
                      ELSE UNCHANGED port /\ Go(l, "done")
    /\ UNCHANGED <<resCh, calls, browserVars, codes, signalled, cutOff>>

Open(l) ==
    /\ At(l, "open")
    /\ asked' \in {asked, asked \cup {l}}
    /\ Go(l, "wait")
    /\ UNCHANGED <<port, resCh, calls, redirects, granted, codes, signalled, cutOff>>

(* Either the user's answer or the context ends the wait: with both ready, *)
(* select takes any.                                                       *)
Take(l) ==
    /\ At(l, "wait") /\ resCh[l] # None
    /\ resCh' = [resCh EXCEPT ![l] = None]
    /\ IF resCh[l] = Failure THEN Fail(l)
       ELSE login' = [login EXCEPT ![l].at = "exchange", ![l].code = resCh[l]]
    /\ UNCHANGED <<port, calls, browserVars, codes, signalled, cutOff>>

(* The IdP's side of the exchange: it checks the verifier and uses the     *)
(* code up.                                                                *)
Redeemable(l) == login[l].code \in codes /\ login[l].code[1] = l

Exchange(l) ==
    /\ At(l, "exchange") /\ Redeemable(l)
    /\ codes' = codes \ {login[l].code}
    /\ Go(l, "shutdown")
    /\ UNCHANGED <<port, resCh, calls, browserVars, signalled, cutOff>>

(* It is refused, expired, or breaks off, maybe after the code was used.   *)
FaultRetry(l) == Go(l, "wait")
AfterFailure(l) == Fail(l)

ExchangeFails(l) ==
    /\ At(l, "exchange")
    /\ codes' \in {codes, codes \ {login[l].code}}
    /\ AfterFailure(l)
    /\ UNCHANGED <<port, resCh, calls, browserVars, signalled, cutOff>>

(* The context is cancelled while the command waits, polls or exchanges.   *)
Cancelled(l) ==
    /\ l \in signalled
    /\ \/ At(l, "wait") /\ Fail(l) /\ UNCHANGED codes
       \/ At(l, "exchange") /\ Fail(l) /\ codes' \in {codes, codes \ {login[l].code}}
       \/ At(l, "poll") /\ Go(l, "done") /\ UNCHANGED codes
    /\ signalled' = signalled \ {l}
    /\ UNCHANGED <<port, resCh, calls, browserVars, cutOff>>

(* srv.Shutdown closes the listener at once, and then waits for handlers,  *)
(* but for no more than a second.  The command returns and exits, and with *)
(* it whatever handler is left.                                            *)
Handling(l) == {c \in DOMAIN calls : calls[c].to = l /\ calls[c].at \in {"send", "return"}}

CloseListener(l) ==
    /\ At(l, "shutdown") /\ port = l
    /\ port' = None
    /\ UNCHANGED <<login, resCh, calls, browserVars, codes, signalled, cutOff>>

Exit(l) ==
    /\ Go(l, "done")
    /\ signalled' = signalled \ {l}
    /\ resCh' = [resCh EXCEPT ![l] = None]
    /\ calls' = [c \in DOMAIN calls |->
                    IF c \in Handling(l) THEN [calls[c] EXCEPT !.at = "lost"] ELSE calls[c]]

FaultClose(l) == TRUE
Drained(l) == Handling(l) = {}

Shutdown(l) ==
    /\ At(l, "shutdown") /\ port # l
    /\ Drained(l)
    /\ Exit(l)
    /\ UNCHANGED <<port, browserVars, codes, cutOff>>

FaultNoTimeout(l) == FALSE
FaultLeavesPort(l) == At(l, "shutdown")
TimesOut(l) == At(l, "shutdown") /\ port # l

ShutdownTimesOut(l) ==
    /\ TimesOut(l)
    /\ cutOff' = cutOff \cup {l}
    /\ Exit(l)
    /\ UNCHANGED <<port, browserVars, codes>>

-----------------------------------------------------------------------------
(* The device flow asks for a code and polls until the user has answered,  *)
(* or the code has expired.                                                *)
Device(l) ==
    /\ At(l, "new")
    /\ Go(l, "poll") \/ Go(l, "done")
    /\ UNCHANGED <<port, resCh, calls, browserVars, codes, signalled, cutOff>>

PollEnds(l) ==
    /\ At(l, "poll") /\ Go(l, "done")
    /\ signalled' = signalled \ {l}
    /\ UNCHANGED <<port, resCh, calls, browserVars, codes, cutOff>>

-----------------------------------------------------------------------------
(* The user signs in, perhaps again in another tab, or refuses.            *)
Grant(l) ==
    /\ l \in asked /\ granted[l] < MaxGrants
    /\ LET code == <<l, granted[l] + 1>> IN
        /\ granted' = [granted EXCEPT ![l] = @ + 1]
        /\ codes' = codes \cup {code}
        /\ redirects' = redirects \cup {code}
    /\ UNCHANGED <<login, port, resCh, calls, asked, signalled, cutOff>>

Deny(l) ==
    /\ l \in asked
    /\ redirects' = redirects \cup {Failure}
    /\ UNCHANGED <<login, port, resCh, calls, asked, granted, codes, signalled, cutOff>>

(* The browser follows a redirect, for the first time or on a reload, and  *)
(* reaches the login that listens; without one the connection is refused.  *)
Visit(url) ==
    /\ port # None /\ Len(calls) < MaxCalls
    /\ calls' = Append(calls, [at |-> "send", to |-> port, url |-> url])
    /\ UNCHANGED <<login, port, resCh, browserVars, codes, signalled, cutOff>>

(* The callback's handler: an error, or the state of another login, is a   *)
(* failure, else the code is the result.  It blocks while there is one on  *)
(* the channel, which Login reads only once, and the page it has written   *)
(* goes out when it returns.                                               *)
FaultNoState(l, url) == url
Answer(l, url) == IF url # Failure /\ url[1] = l THEN url ELSE Failure

Send(c) ==
    LET l == calls[c].to IN
    /\ calls[c].at = "send" /\ resCh[l] = None
    /\ resCh' = [resCh EXCEPT ![l] = Answer(l, calls[c].url)]
    /\ calls' = [calls EXCEPT ![c].at = "return"]
    /\ UNCHANGED <<login, port, browserVars, codes, signalled, cutOff>>

Page(c) ==
    /\ calls[c].at = "return"
    /\ calls' = [calls EXCEPT ![c].at = "page"]
    /\ UNCHANGED <<login, port, resCh, browserVars, codes, signalled, cutOff>>

(* Ctrl-C cancels the context, which the deferred calls do not look at.    *)
Interrupt(l) ==
    /\ login[l].at \in {"open", "wait", "poll", "exchange"} /\ l \notin signalled
    /\ signalled' = signalled \cup {l}
    /\ UNCHANGED <<login, port, resCh, calls, browserVars, codes, cutOff>>

-----------------------------------------------------------------------------
Main(l) == Open(l) \/ Take(l) \/ Cancelled(l) \/ CloseListener(l) \/ Shutdown(l) \/ ShutdownTimesOut(l)

Next ==
    \/ \E l \in Logins :
        \/ Bind(l) \/ Device(l) \/ Main(l) \/ PollEnds(l)
        \/ Exchange(l) \/ ExchangeFails(l)
        \/ Grant(l) \/ Deny(l) \/ Interrupt(l)
    \/ \E url \in redirects : Visit(url)
    \/ \E c \in DOMAIN calls : Send(c) \/ Page(c)

(* The process goes on by itself, and time passes: the second that         *)
(* Shutdown waits, and the life of a device code.  Nothing is assumed of   *)
(* the user, the browser, or the exchange.                                 *)
Spec == Init /\ [][Next]_vars /\ \A l \in Logins : WF_vars(Main(l)) /\ WF_vars(PollEnds(l))

-----------------------------------------------------------------------------
(* Whatever tabs of other logins, reloads and late answers arrive, a login *)
(* goes to the IdP only with a code that was issued to it, and that nobody *)
(* has redeemed.                                                           *)
RedeemsOwn ==
    \A l \in Logins : At(l, "exchange") => login[l].code \in codes /\ login[l].code[1] = l

(* A user whose login has succeeded has been told so: the handler that     *)
(* brought the code has returned its page before the process exits, unless *)
(* the second was too short.                                               *)
PageShown ==
    \A l \in Logins : At(l, "done") /\ login[l].code # None /\ l \notin cutOff =>
        \E c \in DOMAIN calls :
            calls[c].at = "page" /\ calls[c].to = l /\ calls[c].url = login[l].code

(* Ctrl-C ends a login wherever it is, also with a handler that blocks on  *)
(* the channel, and a device login ends by itself.                         *)
LoginsEnd == \A l \in Logins : l \in signalled \/ At(l, "poll") ~> At(l, "done")

=============================================================================
