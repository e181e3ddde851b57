--------------------------- MODULE InlineSessions ---------------------------
(***************************************************************************)
(* The sessions of the inline suggestion server and the manager that keeps *)
(* them (inline-completion/session/sessionManager.ts), with the report of  *)
(* a session's trigger decision (inline-completion/telemetry/telemetry.ts).*)
(* Completions and edits have one manager each; the handlers that use them *)
(* are InlineCompletion and EditCompletion.                                *)
(*                                                                         *)
(* A manager m is a record: m.sessions is every session it created, in     *)
(* order of creation, and a session's name is its place in that sequence;  *)
(* m.current is currentSession, m.log is sessionsLog and m.decisions is    *)
(* _userDecisionLog.  Each method is an operator from the manager before   *)
(* the call to the manager after it.                                       *)
(***************************************************************************)
EXTENDS Naturals, Sequences

CONSTANTS MaxHistory,        \* maxHistorySize
          DecisionLogSize,   \* the length at which _userDecisionLog drops its head
          MaxSessions        \* how many sessions the environment may open

ASSUME SizeAssumption ==
    MaxHistory \in Nat /\ DecisionLogSize \in Nat \ {0} /\ MaxSessions \in Nat

NoSession == 0

States == {"REQUESTING", "ACTIVE", "CLOSED", "DISCARD"}

Ended == {"CLOSED", "DISCARD"}

\* What the client's results say of a session, its suggestions aggregated.
Verdicts == {"Accept", "Reject", "Discard"}

\* What getAggregatedUserTriggerDecision may return ("Empty" counts as "Discard": both are
\* reported and neither is logged).
Decisions == {"undefined"} \cup Verdicts

\* Whether the decision was sent: reportedUserDecision is set when the sending has finished.
Reports == {"unsent", "sending", "sent"}

Sessions == [state: States, discardInflight: BOOLEAN, results: {"none"} \cup Verdicts,
             shown: BOOLEAN, report: Reports, emitted: Nat]

NewSession == [state |-> "REQUESTING", discardInflight |-> FALSE, results |-> "none",
               shown |-> FALSE, report |-> "unsent", emitted |-> 0]

NewManager == [sessions |-> << >>, current |-> NoSession, log |-> << >>, decisions |-> << >>]

Names(m) == DOMAIN m.sessions

StateOf(m, s) == m.sessions[s].state

(***************************************************************************)
(* The life cycle of a session.                                            *)
(***************************************************************************)
activate(ses) == IF ses.state \in Ended THEN ses ELSE [ses EXCEPT !.state = "ACTIVE"]

close(ses) == IF ses.state \in Ended THEN ses ELSE [ses EXCEPT !.state = "CLOSED"]

discard(ses) == [ses EXCEPT !.state = "DISCARD"]

\* Results are recorded unless the session has ended.  (The session is closed in the same step,
\* so the other test, results recorded before, is never the one that decides.)
setClientResultData(ses, v) ==
    IF ses.state \in Ended THEN ses ELSE [ses EXCEPT !.results = v]

\* A discarded session is a discard; a session not yet closed has no decision; a session
\* closed without results counts every suggestion as discarded.
getAggregatedUserTriggerDecision(ses) ==
    CASE ses.state = "DISCARD" -> "Discard"
      [] ses.state \in {"REQUESTING", "ACTIVE"} -> "undefined"
      [] OTHER -> IF ses.results = "none" THEN "Discard" ELSE ses.results

(***************************************************************************)
(* The manager's methods.                                                  *)
(***************************************************************************)
\* q without its head once it is longer than size.
Trimmed(q, size) == IF Len(q) > size THEN Tail(q) ELSE q

\* The oldest session leaves the log before the new one enters it.
createSession(m) ==
    LET new == Len(m.sessions) + 1
    IN  [m EXCEPT !.sessions = Append(@, NewSession),
                  !.current = new,
                  !.log = Append(Trimmed(@, MaxHistory), new)]

\* The log takes the decision of a session that is closed now or was closed before.
closeSession(m, s) ==
    LET ses == close(m.sessions[s])
        decision == getAggregatedUserTriggerDecision(ses)
    IN  [m EXCEPT !.sessions[s] = ses,
                  !.decisions = IF decision \in {"Accept", "Reject"}
                                THEN Append(Trimmed(@, DecisionLogSize - 1),
                                            [session |-> s, decision |-> decision])
                                ELSE @]

discardSession(m, s) == [m EXCEPT !.sessions[s] = discard(@)]

\* Mutant: the comparison with the current session is reversed.
activateSessionUnlessCurrent(m, s) ==
    IF s = m.current THEN m ELSE [m EXCEPT !.sessions[s] = activate(@)]

activateSession(m, s) ==
    IF s = m.current THEN [m EXCEPT !.sessions[s] = activate(@)] ELSE m

\* getSessionById finds the current session and the ones still in the log.
Found(m, s) == s = m.current \/ \E i \in DOMAIN m.log : m.log[i] = s

\* A new invocation marks the current session when it is still requesting, so that its response is dropped.
MarkInflight(m, page) ==
    IF /\ page = NoSession
       /\ m.current # NoSession
       /\ StateOf(m, m.current) = "REQUESTING"
    THEN [m EXCEPT !.sessions[m.current].discardInflight = TRUE]
    ELSE m

(***************************************************************************)
(* The report of the decision: checked against reportedUserDecision, sent, *)
(* and noted as reported only when the sending is over.                    *)
(***************************************************************************)
emitUserTriggerDecision(m, s) ==
    IF m.sessions[s].report = "sent" THEN m
    ELSE [m EXCEPT !.sessions[s].report = "sending", !.sessions[s].emitted = @ + 1]

\* The sending of session s ends; a failure is logged and swallowed by the telemetry service.
Reported(m, s) == [m EXCEPT !.sessions[s].report = "sent"]

(***************************************************************************)
(* handleSessionResults: the results v the client sends for session s.  A  *)
(* session that is gone or not active is left alone.  report tells whether *)
(* the decision is reported at the end.                                    *)
(***************************************************************************)
\* Mutant: results are recorded for a session in any state.
RecordableInAnyState(m, s) == Found(m, s)

Recordable(m, s) == Found(m, s) /\ StateOf(m, s) = "ACTIVE"

handleSessionResults(m, s, v, report) ==
    LET closed == closeSession([m EXCEPT !.sessions[s] = setClientResultData(@, v)], s)
    IN  IF report THEN emitUserTriggerDecision(closed, s) ELSE closed

(***************************************************************************)
(* Types and properties of a manager.                                      *)
(***************************************************************************)
IsManager(m) ==
    /\ m.sessions \in Seq(Sessions)
    /\ m.current \in {NoSession} \cup Names(m)
    /\ m.log \in Seq(Names(m)) /\ Len(m.log) <= MaxHistory + 1
    /\ m.decisions \in Seq([session: Names(m), decision: {"Accept", "Reject"}])
    /\ Len(m.decisions) <= DecisionLogSize

\* No session's decision is sent twice.
EmittedAtMostOnce(m) == \A s \in Names(m) : m.sessions[s].emitted <= 1

=============================================================================
