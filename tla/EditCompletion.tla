--------------------------- MODULE EditCompletion ---------------------------
(***************************************************************************)
(* Edit predictions (inline-completion/handler/editCompletionHandler.ts),  *)
(* the client's results for them (sessionResultsHandler.ts) and the record *)
(* of rejected edits (tracker/rejectedEditTracker.ts).  The handler is the *)
(* sibling of InlineCompletion, and differs from it where it matters: its  *)
(* flag is set only after the document has been read, a page gets a        *)
(* session of its own, and a session that ended is not left alone.         *)
(*                                                                         *)
(* call[c] is one request: before is the session that was current when the *)
(* call began, session the one it created or whose report it waits for,    *)
(* and alone tells whether no other request has overlapped with it.        *)
(* A response holds one edit or none.  An edit stands for its content as   *)
(* the tracker compares it, and all requests are about one document.       *)
(***************************************************************************)
EXTENDS InlineSessions, FiniteSets

CONSTANTS Calls,        \* the client's requests that may be in progress
          Edits,        \* the contents the service may suggest
          Document,     \* the document's uri
          NoDocument,   \* the empty uri
          MaxEntries    \* maxEntries of the rejected edit tracker

ASSUME EditAssumption ==
    IsFiniteSet(Calls) /\ IsFiniteSet(Edits) /\ Document # NoDocument /\ MaxEntries \in Nat

VARIABLES mgr,         \* sessionManager: the edit session manager
          inProgress,  \* isInProgress
          call, offered, tokens,
          rejected     \* rejectedEdits, the latest first

vars == <<mgr, inProgress, call, offered, tokens, rejected>>

Awaits == {"idle", "document", "edits", "context", "discarding", "generating", "paging",
           "dropping"}

Idle == [at |-> "idle", page |-> NoSession, before |-> NoSession, session |-> NoSession,
         alone |-> TRUE]

Init ==
    /\ mgr = NewManager
    /\ inProgress = FALSE
    /\ call = [c \in Calls |-> Idle]
    /\ offered = {} /\ tokens = {}
    /\ rejected = << >>

Await(c, at, s) == call' = [call EXCEPT ![c].at = at, ![c].session = s]

\* Call c is over, by a return or by an exception, once its flag was set: the finally blocks.
Finish(c) == call' = [call EXCEPT ![c] = Idle] /\ inProgress' = FALSE

(***************************************************************************)
(* rejectedEditTracker.                                                    *)
(***************************************************************************)
recordRejectedEdit(e, uri) ==
    LET longer == <<[edit |-> e, uri |-> uri]>> \o rejected
    IN  SubSeq(longer, 1, IF Len(longer) > MaxEntries THEN MaxEntries ELSE Len(longer))

isSimilarToRejected(e, uri) == \E i \in DOMAIN rejected : rejected[i] = [edit |-> e, uri |-> uri]

(***************************************************************************)
(* A request.                                                              *)
(***************************************************************************)
Busy == {c \in Calls : call[c].at # "idle"}

OnEditCompletion(c) ==
    /\ call[c].at = "idle" /\ ~inProgress
    /\ Len(mgr.sessions) + Cardinality(Busy) < MaxSessions
    /\ \E page \in {NoSession} \cup tokens :
        /\ mgr' = MarkInflight(mgr, page)
        /\ call' = [d \in Calls |->
                        IF d = c THEN [at |-> "document", page |-> page, before |-> mgr.current,
                                       session |-> NoSession, alone |-> Busy = {}]
                        ELSE [call[d] EXCEPT !.alone = (d \notin Busy)]]
    /\ UNCHANGED <<inProgress, offered, tokens, rejected>>

\* No document, no service or an unsupported language: the call returns before it sets the flag.
NothingToDo(c) ==
    /\ call[c].at = "document"
    /\ call' = [call EXCEPT ![c] = Idle]
    /\ UNCHANGED <<mgr, inProgress, offered, tokens, rejected>>

\* The document was read and the flag is set.  A page discards the active session, without a
\* report, and is asked of the service in a session of its own.
DocumentRead(c) ==
    LET before == call[c].before
        ended == IF before # NoSession /\ StateOf(mgr, before) = "ACTIVE"
                 THEN discardSession(mgr, before) ELSE mgr
    IN  /\ call[c].at = "document"
        /\ inProgress' = TRUE
        /\ IF call[c].page # NoSession /\ before # NoSession
           THEN mgr' = createSession(ended) /\ Await(c, "paging", Len(mgr.sessions) + 1)
           ELSE mgr' = mgr /\ Await(c, "edits", NoSession)
        /\ UNCHANGED <<offered, tokens, rejected>>

\* The recent edits are there and both triggers say yes.
EditsRead(c) ==
    /\ call[c].at = "edits"
    /\ Await(c, "context", NoSession)
    /\ UNCHANGED <<mgr, inProgress, offered, tokens, rejected>>

\* Mutant: the early return does not release the flag.
NotTriggeredHoldingFlag(c) ==
    /\ call[c].at \in {"edits", "context"}
    /\ call' = [call EXCEPT ![c] = Idle]
    /\ UNCHANGED <<mgr, inProgress, offered, tokens, rejected>>

\* A trigger says no, or the recent edits or the context cannot be had.
NotTriggered(c) ==
    /\ call[c].at \in {"edits", "context"}
    /\ Finish(c)
    /\ UNCHANGED <<mgr, offered, tokens, rejected>>

Request(c, m) ==
    /\ mgr' = createSession(m)
    /\ Await(c, "generating", Len(m.sessions) + 1)

\* The context is there.  The session that was current when the call began is discarded and
\* reported if it is active now.
ContextBuilt(c) ==
    LET before == call[c].before
    IN  /\ call[c].at = "context"
        /\ IF before # NoSession /\ StateOf(mgr, before) = "ACTIVE"
           THEN /\ mgr' = emitUserTriggerDecision(discardSession(mgr, before), before)
                /\ Await(c, "discarding", before)
           ELSE Request(c, mgr)
        /\ UNCHANGED <<inProgress, offered, tokens, rejected>>

DiscardReported(c) ==
    /\ call[c].at = "discarding"
    /\ Request(c, Reported(mgr, call[c].session))
    /\ UNCHANGED <<inProgress, offered, tokens, rejected>>

(***************************************************************************)
(* The service's response (processSuggestionResponse).                     *)
(***************************************************************************)
\* The rest of a response, in manager m.  No suggestion: the session is closed and reported as
\* empty.  An edit: it is returned unless the tracker knows it; the caller hands over no
\* document, so the tracker is asked about the empty uri.
ProcessSuggestions(c, m) ==
    LET s == call[c].session
        active == activateSession(m, s)
    IN  /\ \/ /\ mgr' = emitUserTriggerDecision(closeSession(active, s), s)
              /\ tokens' = tokens \ {call[c].page}
              /\ UNCHANGED offered
           \/ \E e \in Edits, more \in BOOLEAN :
                /\ mgr' = active
                /\ tokens' = (tokens \ {call[c].page}) \cup (IF more THEN {s} ELSE {})
                /\ offered' = IF isSimilarToRejected(e, NoDocument) THEN offered
                              ELSE offered \cup {[session |-> s, edit |-> e]}
        /\ Finish(c)

\* A marked session is discarded, and its report awaited, before the rest is done.
Response(c) ==
    LET s == call[c].session
        unmarked == [mgr EXCEPT !.sessions[s].discardInflight = FALSE]
    IN  /\ call[c].at \in {"generating", "paging"}
        /\ IF mgr.sessions[s].discardInflight
           THEN /\ mgr' = emitUserTriggerDecision(discardSession(unmarked, s), s)
                /\ Await(c, "dropping", s)
                /\ UNCHANGED <<inProgress, offered, tokens>>
           ELSE ProcessSuggestions(c, mgr)
        /\ UNCHANGED rejected

DropReported(c) ==
    /\ call[c].at = "dropping"
    /\ ProcessSuggestions(c, Reported(mgr, call[c].session))
    /\ UNCHANGED rejected

\* Mutant: the error path discards the session.
ResponseErrorDiscarding(c) ==
    /\ call[c].at \in {"generating", "paging"}
    /\ mgr' = discardSession(mgr, IF call[c].at = "paging" THEN call[c].before ELSE call[c].session)
    /\ tokens' = tokens \ {call[c].page}
    /\ Finish(c)
    /\ UNCHANGED <<offered, rejected>>

\* The request fails.  A new request closes its session; a page closes the session that was
\* current when the call began.
ResponseError(c) ==
    /\ call[c].at \in {"generating", "paging"}
    /\ mgr' = closeSession(mgr, IF call[c].at = "paging" THEN call[c].before ELSE call[c].session)
    /\ tokens' = tokens \ {call[c].page}
    /\ Finish(c)
    /\ UNCHANGED <<offered, rejected>>

(***************************************************************************)
(* The client's results.  An edit that was seen and not accepted is        *)
(* recorded as rejected, under the document's uri, when the client says    *)
(* that it showed it as an edit.  Results that name no item are not        *)
(* reported.                                                               *)
(***************************************************************************)
SessionResults(o) ==
    /\ o \in offered /\ Recordable(mgr, o.session)
    /\ \E v \in Verdicts, named, isInlineEdit \in BOOLEAN :
        /\ ~named => v = "Discard"
        /\ mgr' = handleSessionResults(mgr, o.session, v, named)
        /\ rejected' = IF isInlineEdit /\ v = "Reject"
                       THEN recordRejectedEdit(o.edit, Document) ELSE rejected
    /\ UNCHANGED <<inProgress, call, offered, tokens>>

\* The end of a report that no suspended call waits for.
ReportEnds(s) ==
    /\ s \in Names(mgr) /\ mgr.sessions[s].report = "sending"
    /\ ~ \E c \in Calls : call[c].session = s /\ call[c].at \in {"discarding", "dropping"}
    /\ mgr' = Reported(mgr, s)
    /\ UNCHANGED <<inProgress, call, offered, tokens, rejected>>

Step(c) ==
    \/ NothingToDo(c) \/ DocumentRead(c) \/ EditsRead(c) \/ NotTriggered(c)
    \/ ContextBuilt(c) \/ DiscardReported(c)
    \/ Response(c) \/ DropReported(c) \/ ResponseError(c)

Next ==
    \/ \E c \in Calls : OnEditCompletion(c) \/ Step(c)
    \/ \E s \in 1..MaxSessions, e \in Edits : SessionResults([session |-> s, edit |-> e])
    \/ \E s \in 1..MaxSessions : ReportEnds(s)

Spec == Init /\ [][Next]_vars

\* Every await settles: the SDK's calls, the document store and the edit tracker answer or fail.
FairSpec == Spec /\ \A c \in Calls : WF_vars(Step(c))

(***************************************************************************)
(* Properties.                                                             *)
(***************************************************************************)
\* Every variable has its type: the manager is well formed, a suspended call is at one of the
\* awaits of onEditCompletion, and the tracker holds at most maxEntries edits.
TypeOK ==
    /\ IsManager(mgr)
    /\ inProgress \in BOOLEAN
    /\ call \in [Calls -> [at: Awaits, page: {NoSession} \cup Names(mgr),
                           before: {NoSession} \cup Names(mgr),
                           session: {NoSession} \cup Names(mgr), alone: BOOLEAN]]
    /\ offered \subseteq [session: Names(mgr), edit: Edits]
    /\ tokens \subseteq Names(mgr)
    /\ rejected \in Seq([edit: Edits, uri: {Document}]) /\ Len(rejected) <= MaxEntries

\* No decision about an edit session is sent twice, although calls of onEditCompletion overlap
\* with each other, with the client's results and with the sending itself.
ReportedAtMostOnce == EmittedAtMostOnce(mgr)

\* The decision about an ended edit session is final: a late response, a failed page or the
\* discarding of a marked session does not change what was decided.
DecisionIsFinal ==
    [][\A s \in Names(mgr) : StateOf(mgr, s) \in Ended =>
        getAggregatedUserTriggerDecision(mgr'.sessions[s])
            = getAggregatedUserTriggerDecision(mgr.sessions[s])]_vars

\* A request that no other one overlaps with returns edits only of a session that is active at
\* that moment, so that the user's decision can be recorded.  ("API response was recieved, we can
\* activate session now" does nothing for a session that an overlapping request has replaced.)
OfferedIsActive ==
    [][\A c \in Calls, o \in offered' \ offered :
        call[c].alone /\ call[c].session = o.session => StateOf(mgr', o.session) = "ACTIVE"]_vars

\* isInProgress is always released, so edit predictions never stay switched off.
HandlerReleased == inProgress ~> ~inProgress

=============================================================================
