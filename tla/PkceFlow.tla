------------------------------ MODULE PkceFlow ------------------------------
(***************************************************************************)
(* The authorization code flow (sso/authorizationCodePkce): the server     *)
(* listens on a local port, sends the user to the browser, waits for the   *)
(* redirect that brings the authorization code and exchanges the code for  *)
(* a token.  Every redirect and the cancellation try to settle the same    *)
(* promise, and the first one does.                                        *)
(***************************************************************************)
EXTENDS Naturals, Sequences

VARIABLES at,        \* "starting", "waiting", "exchanging" or "ended"
          outcome,   \* "pending", "token" or "failed"
          auth,      \* authPromise: "pending", "resolved" or "rejected"
          server,    \* the http server: "off", "listening" or "closed"
          cancelled, \* the client cancelled the request
          heard,     \* the cancellation has reached authReject
          granted,   \* the user granted the authorization in the browser
          location,  \* the query of the last redirect to index.html
          answer,    \* how the last authorizationRequest went: "none", "code" or "error"
          page       \* what the browser shows

browserVars == <<location, answer, page>>
vars == <<at, outcome, auth, server, cancelled, heard, granted, browserVars>>

Pages == {"login", "loading", "approval", "denial", "refused"}

Init ==
    /\ at = "starting" /\ outcome = "pending" /\ auth = "pending" /\ server = "off"
    /\ cancelled = FALSE /\ heard = FALSE /\ granted = FALSE
    /\ location = <<>> /\ answer = "none" /\ page = "login"

\* authResolve and authReject: only the first call has an effect.
Settled(how) == IF auth = "pending" THEN how ELSE auth

\* The query that redirect() builds, as its delimiters and parameter names.
redirect(how) ==
    <<"?", "clientName">> \o (IF how = "error" THEN <<"?", "error">> ELSE <<>>)

\* The parameters URLSearchParams finds in a query: the first one, and one after every "&".  Any
\* other text belongs to the value before it.
Params(q) == {q[i] : i \in {j \in 2..Len(q) : j = 2 \/ q[j - 1] = "&"}}

\* The script of index.html.
PageOf(q) == IF "error" \in Params(q) THEN "denial" ELSE "approval"

\* The browser is answered with a redirect.
Answered(how) == answer' = how /\ location' = redirect(how) /\ page' = "loading"

\* Leaving the function disposes of the authorization server.
End(how) == at' = "ended" /\ outcome' = how /\ server' = "closed"

\* AuthorizationServer.start, and showUrl.
Start ==
    /\ at = "starting"
    /\ at' = "waiting" /\ server' = "listening"
    /\ UNCHANGED <<outcome, auth, cancelled, heard, granted, browserVars>>

\* The user grants the authorization on the page showUrl opened.
Grant ==
    /\ server = "listening" /\ ~granted
    /\ granted' = TRUE
    /\ UNCHANGED <<at, outcome, auth, server, cancelled, heard, browserVars>>

\* Mutant: a redirect without a code resolves the promise too.
RedirectUnchecked ==
    /\ server = "listening"
    /\ auth' = Settled("resolved")
    /\ Answered("code")
    /\ UNCHANGED <<at, outcome, server, cancelled, heard, granted>>

\* authorizationRequest with the code and the state of this flow, which the service sends after
\* the grant; a reload of the page sends it again.
Redirect ==
    /\ server = "listening" /\ granted
    /\ auth' = Settled("resolved")
    /\ Answered("code")
    /\ UNCHANGED <<at, outcome, server, cancelled, heard, granted>>

\* authorizationRequest with an error, or without the code or the state of this flow.
RedirectFailed ==
    /\ server = "listening"
    /\ auth' = Settled("rejected")
    /\ Answered("error")
    /\ UNCHANGED <<at, outcome, server, cancelled, heard, granted>>

\* resourceRequest: the browser follows the redirect, if the server is still there.
LoadPage ==
    /\ page = "loading"
    /\ page' = IF server = "listening" THEN PageOf(location) ELSE "refused"
    /\ UNCHANGED <<at, outcome, auth, server, cancelled, heard, granted, location, answer>>

\* The client cancels.
Cancel ==
    /\ at # "ended" /\ ~cancelled
    /\ cancelled' = TRUE
    /\ UNCHANGED <<at, outcome, auth, server, heard, granted, browserVars>>

\* Mutant: the listener is lost.
CancellationLost ==
    /\ cancelled /\ ~heard /\ at \in {"waiting", "exchanging"}
    /\ heard' = TRUE
    /\ UNCHANGED <<at, outcome, auth, server, cancelled, granted, browserVars>>

\* The listener of the constructor runs, also if the client cancelled before there was one.
CancellationHeard ==
    /\ cancelled /\ ~heard /\ at \in {"waiting", "exchanging"}
    /\ heard' = TRUE
    /\ auth' = Settled("rejected")
    /\ UNCHANGED <<at, outcome, server, cancelled, granted, browserVars>>

\* The flow resumes with the code.
CodeReceived ==
    /\ at = "waiting" /\ auth = "resolved"
    /\ at' = "exchanging"
    /\ UNCHANGED <<outcome, auth, server, cancelled, heard, granted, browserVars>>

\* The flow resumes with the error.
NoCode ==
    /\ at = "waiting" /\ auth = "rejected"
    /\ End("failed")
    /\ UNCHANGED <<auth, cancelled, heard, granted, browserVars>>

\* createToken answers.
Exchanged ==
    /\ at = "exchanging"
    /\ End("token") \/ End("failed")
    /\ UNCHANGED <<auth, cancelled, heard, granted, browserVars>>

Server == Start \/ CancellationHeard \/ CodeReceived \/ NoCode \/ Exchanged

Next == Server \/ Grant \/ Redirect \/ RedirectFailed \/ LoadPage \/ Cancel

Spec == Init /\ [][Next]_vars

\* The event loop runs what is due.  Nothing is assumed of the browser.
FairSpec ==
    /\ Spec /\ WF_vars(Start) /\ WF_vars(CancellationHeard)
    /\ WF_vars(CodeReceived) /\ WF_vars(NoCode) /\ WF_vars(Exchanged)

(***************************************************************************)
(* Properties.                                                             *)
(***************************************************************************)
\* Every variable has its type, and the port is open exactly from the start to the end.
TypeOK ==
    /\ at \in {"starting", "waiting", "exchanging", "ended"}
    /\ outcome \in {"pending", "token", "failed"} /\ (at = "ended" <=> outcome # "pending")
    /\ auth \in {"pending", "resolved", "rejected"}
    /\ server = CASE at = "starting" -> "off" [] at = "ended" -> "closed" [] OTHER -> "listening"
    /\ {cancelled, heard, granted} \subseteq BOOLEAN
    /\ page \in Pages /\ answer \in {"none", "code", "error"}
    /\ location = IF answer = "none" THEN <<>> ELSE redirect(answer)

\* A cancelled flow ends and gives its port back, although the browser never comes back.
CancelledFlowEnds == cancelled ~> outcome # "pending" /\ server = "closed"

Flow == INSTANCE AuthorizationFlow

\* The authorization code flow is an authorization flow: it ends once, and with a token only if
\* the user granted the authorization before.
ImplementsFlow == Flow!Spec
=============================================================================
