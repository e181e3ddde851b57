-------------------------- MODULE InlineCompletion --------------------------
(***************************************************************************)
(* Inline completions (inline-completion/handler/inlineCompletionHandler.ts*)
(* and sessionResultsHandler.ts).  A call of onInlineCompletion runs from  *)
(* one await to the next; the client's results and the ends of telemetry   *)
(* sendings come in between.  call[c] is one request of the client:        *)
(*                                                                         *)
(*   at       the await it is suspended at, "idle" when there is none      *)
(*   page     the session whose partialResultToken the request carries     *)
(*   session  the session read when the call began, then the one whose     *)
(*            suggestions it asks for or whose report it waits for         *)
(*                                                                         *)
(* offered and tokens are what the client has been given: sessions whose   *)
(* suggestions were returned to it, and sessions that have a next page.    *)
(* failed records the sessions whose request to the service failed.        *)
(***************************************************************************)
EXTENDS InlineSessions, FiniteSets

CONSTANTS Calls         \* the client's requests that may be in progress

ASSUME CompletionAssumption == IsFiniteSet(Calls)

VARIABLES mgr,         \* completionSessionManager
          inProgress,  \* isOnInlineCompletionHandlerInProgress
          call, offered, tokens, failed,
          isJetBrains  \* ideCategory = 'JETBRAINS', fixed: an active session is not discarded

vars == <<mgr, inProgress, call, offered, tokens, failed, isJetBrains>>

Awaits == {"idle", "document", "context", "discarding", "generating", "paging",
           "dropping", "closing"}

Idle == [at |-> "idle", page |-> NoSession, session |-> NoSession]

Init ==
    /\ mgr = NewManager
    /\ inProgress = FALSE
    /\ call = [c \in Calls |-> Idle]
    /\ offered = {} /\ tokens = {} /\ failed = {} /\ isJetBrains \in BOOLEAN

\* Call c goes on to the await at, on behalf of session s.
Await(c, at, s) == call' = [call EXCEPT ![c].at = at, ![c].session = s]

\* Call c is over, by a return or by an exception: the finally block.
Finish(c) == call' = [call EXCEPT ![c] = Idle] /\ inProgress' = FALSE

(***************************************************************************)
(* A request.  One that finds another in progress is answered with no      *)
(* suggestions and leaves no trace.                                        *)
(***************************************************************************)
Busy == {c \in Calls : call[c].at # "idle"}

OnInlineCompletion(c) ==
    /\ call[c].at = "idle" /\ ~inProgress
    /\ Len(mgr.sessions) + Cardinality(Busy) < MaxSessions
    /\ inProgress' = TRUE
    /\ \E page \in {NoSession} \cup tokens :
        /\ mgr' = MarkInflight(mgr, page)
        /\ call' = [call EXCEPT ![c] = [at |-> "document", page |-> page,
                                        session |-> mgr.current]]
    /\ UNCHANGED <<offered, tokens, failed>>

\* The document was read.  A page is asked of the service in the session that was current when
\* the call began.  A new request goes on to build its context.
DocumentRead(c) ==
    /\ call[c].at = "document"
    /\ IF call[c].page # NoSession /\ call[c].session # NoSession
       THEN Await(c, "paging", call[c].session)
       ELSE Await(c, "context", NoSession)
    /\ UNCHANGED <<mgr, inProgress, offered, tokens, failed>>

\* No service, no document, an unsupported language, no trigger, or a context that cannot be
\* built: the call ends before it touches a session.
NothingToDo(c) ==
    /\ call[c].at \in {"document", "context"}
    /\ Finish(c)
    /\ UNCHANGED <<mgr, offered, tokens, failed>>

\* The new session becomes the current one and its suggestions are asked of the service.
Request(c, m) ==
    /\ mgr' = createSession(m)
    /\ Await(c, "generating", Len(m.sessions) + 1)

\* Mutant: the active session is not discarded for a new one.
ContextBuiltKeepingActive(c) ==
    /\ call[c].at = "context"
    /\ Request(c, mgr)
    /\ UNCHANGED <<inProgress, offered, tokens, failed>>

\* The context is there.  The session that is active now is discarded, and its decision
\* reported, before a new one is created.
ContextBuilt(c) ==
    /\ call[c].at = "context"
    /\ IF mgr.current # NoSession /\ StateOf(mgr, mgr.current) = "ACTIVE" /\ ~isJetBrains
       THEN /\ mgr' = emitUserTriggerDecision(discardSession(mgr, mgr.current), mgr.current)
            /\ Await(c, "discarding", mgr.current)
       ELSE Request(c, mgr)
    /\ UNCHANGED <<inProgress, offered, tokens, failed>>

\* The report the call waits for is sent.
DiscardReported(c) ==
    /\ call[c].at = "discarding"
    /\ Request(c, Reported(mgr, call[c].session))
    /\ UNCHANGED <<inProgress, offered, tokens, failed>>

(***************************************************************************)
(* The service's response (processSuggestionResponse).                     *)
(***************************************************************************)
\* Mutant: the last page closes its session.
ProcessSuggestionsClosingLastPage(c, s, shown, more) ==
    LET m == [activateSession(mgr, s) EXCEPT !.sessions[s].shown = @ \/ shown]
    IN  /\ mgr' = IF more THEN m ELSE emitUserTriggerDecision(closeSession(m, s), s)
        /\ Finish(c)
        /\ offered' = IF shown THEN offered \cup {s} ELSE offered
        /\ tokens' = (tokens \ {call[c].page}) \cup (IF more THEN {s} ELSE {})

\* The response carries suggestions to display, when shown, and the token of a next page, when
\* more.  A session with nothing to display and no more to come is closed and reported.
ProcessSuggestions(c, s, shown, more) ==
    LET m == [activateSession(mgr, s) EXCEPT !.sessions[s].shown = @ \/ shown]
    IN  IF ~m.sessions[s].shown /\ ~more
        THEN /\ mgr' = emitUserTriggerDecision(closeSession(m, s), s)
             /\ Await(c, "closing", s)
             /\ tokens' = tokens \ {call[c].page}
             /\ UNCHANGED <<inProgress, offered>>
        ELSE /\ mgr' = m
             /\ Finish(c)
             /\ offered' = IF shown THEN offered \cup {s} ELSE offered
             /\ tokens' = (tokens \ {call[c].page}) \cup (IF more THEN {s} ELSE {})

\* A marked session is discarded and reported, a session that ended meanwhile is left alone,
\* and in both cases nothing is returned.
Response(c) ==
    /\ call[c].at \in {"generating", "paging"}
    /\ LET s == call[c].session
       IN  CASE mgr.sessions[s].discardInflight ->
                  /\ mgr' = emitUserTriggerDecision(
                              discardSession([mgr EXCEPT !.sessions[s].discardInflight = FALSE], s), s)
                  /\ Await(c, "dropping", s)
                  /\ UNCHANGED <<inProgress, offered, tokens>>
             [] ~mgr.sessions[s].discardInflight /\ StateOf(mgr, s) \in Ended ->
                  /\ Finish(c)
                  /\ tokens' = tokens \ {call[c].page}
                  /\ UNCHANGED <<mgr, offered>>
             [] OTHER -> \E shown, more \in BOOLEAN : ProcessSuggestions(c, s, shown, more)
    /\ UNCHANGED failed

\* Mutant: the error path does not close the session.
ResponseErrorUnclosed(c) ==
    /\ call[c].at \in {"generating", "paging"}
    /\ failed' = failed \cup {call[c].session}
    /\ tokens' = tokens \ {call[c].page}
    /\ Finish(c)
    /\ UNCHANGED <<mgr, offered>>

\* Mutant: the error path discards the session.
ResponseErrorDiscarding(c) ==
    /\ call[c].at \in {"generating", "paging"}
    /\ mgr' = discardSession(mgr, call[c].session)
    /\ failed' = failed \cup {call[c].session}
    /\ tokens' = tokens \ {call[c].page}
    /\ Finish(c)
    /\ UNCHANGED offered

\* Mutant: the error path does not release the flag.
ResponseErrorHoldingFlag(c) ==
    /\ call[c].at \in {"generating", "paging"}
    /\ mgr' = closeSession(mgr, call[c].session)
    /\ failed' = failed \cup {call[c].session}
    /\ tokens' = tokens \ {call[c].page}
    /\ call' = [call EXCEPT ![c] = Idle]
    /\ UNCHANGED <<inProgress, offered>>

\* The request fails: the session is closed and its decision is not reported.
ResponseError(c) ==
    /\ call[c].at \in {"generating", "paging"}
    /\ mgr' = closeSession(mgr, call[c].session)
    /\ failed' = failed \cup {call[c].session}
    /\ tokens' = tokens \ {call[c].page}
    /\ Finish(c)
    /\ UNCHANGED offered

\* The report the response waits for is sent, and the call returns nothing.
EndReported(c) ==
    /\ call[c].at \in {"dropping", "closing"}
    /\ mgr' = Reported(mgr, call[c].session)
    /\ Finish(c)
    /\ UNCHANGED <<offered, tokens, failed>>

(***************************************************************************)
(* The client's results, at any time after the suggestions were offered,   *)
(* and the end of the report that they caused.                             *)
(***************************************************************************)
SessionResults(s) ==
    /\ s \in offered /\ Recordable(mgr, s)
    /\ \E v \in Verdicts : mgr' = handleSessionResults(mgr, s, v, TRUE)
    /\ UNCHANGED <<inProgress, call, offered, tokens, failed>>

\* No suspended call waits for this report: it is the results handler's own.
ResultsReported(s) ==
    /\ s \in Names(mgr) /\ mgr.sessions[s].report = "sending"
    /\ ~ \E c \in Calls : call[c].session = s /\ call[c].at \in {"discarding", "dropping", "closing"}
    /\ mgr' = Reported(mgr, s)
    /\ UNCHANGED <<inProgress, call, offered, tokens, failed>>

Step(c) ==
    /\ \/ DocumentRead(c) \/ NothingToDo(c) \/ ContextBuilt(c) \/ DiscardReported(c)
       \/ Response(c) \/ ResponseError(c) \/ EndReported(c)
    /\ UNCHANGED isJetBrains

Client ==
    /\ \/ \E c \in Calls : OnInlineCompletion(c)
       \/ \E s \in 1..MaxSessions : SessionResults(s) \/ ResultsReported(s)
    /\ UNCHANGED isJetBrains

Next == Client \/ \E c \in Calls : Step(c)

Spec == Init /\ [][Next]_vars

\* Every await settles: the SDK's calls and the document store answer or fail.
FairSpec == Spec /\ \A c \in Calls : WF_vars(Step(c))

(***************************************************************************)
(* Properties.                                                             *)
(***************************************************************************)
\* Every variable has its type: the manager is well formed, a suspended call is at one of the
\* awaits of onInlineCompletion, and the client only knows sessions that exist.
TypeOK ==
    /\ IsManager(mgr)
    /\ inProgress \in BOOLEAN /\ isJetBrains \in BOOLEAN
    /\ call \in [Calls -> [at: Awaits, page: {NoSession} \cup Names(mgr),
                           session: {NoSession} \cup Names(mgr)]]
    /\ offered \subseteq Names(mgr) /\ tokens \subseteq Names(mgr) /\ failed \subseteq Names(mgr)

\* A session stays REQUESTING only as long as a call of onInlineCompletion is waiting for its
\* first response: whatever fails on the way, no session is left behind in that state.
RequestingInFlight ==
    \A s \in Names(mgr) :
        StateOf(mgr, s) = "REQUESTING" =>
            \E c \in Calls : call[c].at = "generating" /\ call[c].session = s

\* The decision about a session that ended is sent to telemetry exactly once, unless a request
\* for its suggestions failed, although the check for "already sent" precedes the sending and
\* the flag is set after it, and the client's results race the handler.
ReportedExactlyOnce ==
    /\ EmittedAtMostOnce(mgr)
    /\ \A s \in Names(mgr) \ failed :
        StateOf(mgr, s) \in Ended => mgr.sessions[s].emitted = 1

\* Outside JetBrains the only session that can be active is the current one: an older one has
\* been decided, discarded or closed by the time onInlineCompletion creates the next.
OnlyCurrentActive ==
    ~isJetBrains => \A s \in Names(mgr) : StateOf(mgr, s) = "ACTIVE" => s = mgr.current

\* onInlineCompletion returns suggestions only of a session that is active at that moment and
\* that the results handler can find, so that the user's decision about them can be recorded.
OfferedIsActive ==
    [][\A s \in offered' \ offered : StateOf(mgr', s) = "ACTIVE" /\ Found(mgr', s)]_vars

\* The decision about an ended session is final: neither a late page, nor a late failure, nor
\* results sent twice reopen it or change what was decided.
DecisionIsFinal ==
    [][\A s \in Names(mgr) : StateOf(mgr, s) \in Ended =>
        getAggregatedUserTriggerDecision(mgr'.sessions[s])
            = getAggregatedUserTriggerDecision(mgr.sessions[s])]_vars

\* The handler's flag is always released: a request that is in progress ends, so completions
\* never stay switched off.
HandlerReleased == inProgress ~> ~inProgress
=============================================================================
