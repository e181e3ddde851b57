--------------------------- MODULE SessionProofs ---------------------------
(***************************************************************************)
(* What the methods of the session manager do (InlineSessions), for any    *)
(* number of sessions and every size of the logs.                          *)
(***************************************************************************)
EXTENDS InlineSessions, TLAPS

(***************************************************************************)
(* Sequences                                                               *)
(***************************************************************************)
LEMMA LenProperties == \A S : \A s \in Seq(S) : Len(s) \in Nat /\ s \in [1..Len(s) -> S]
OBVIOUS

LEMMA AppendProperties ==
    \A S : \A s \in Seq(S), e \in S :
        /\ Append(s, e) \in Seq(S) /\ Len(Append(s, e)) = Len(s) + 1
        /\ \A i \in 1..Len(s) : Append(s, e)[i] = s[i]
        /\ Append(s, e)[Len(s) + 1] = e
OBVIOUS

LEMMA HeadTailProperties ==
    \A S : \A s \in Seq(S) : s # <<>> =>
       /\ Head(s) \in S /\ Tail(s) \in Seq(S) /\ Len(Tail(s)) = Len(s) - 1
       /\ \A i \in 1..Len(Tail(s)) : Tail(s)[i] = s[i + 1]
OBVIOUS

(***************************************************************************)
(* The manager.  Puts says that n is m with session s replaced by ses, but *)
(* for the log of decisions.                                               *)
(***************************************************************************)
LoggedDecisions(m) == [session: Names(m), decision: {"Accept", "Reject"}]

ManagerOK(m) == DOMAIN m = {"sessions", "current", "log", "decisions"} /\ IsManager(m)

Puts(m, n, s, ses) ==
    /\ ManagerOK(n) /\ Names(n) = Names(m) /\ n.current = m.current /\ n.log = m.log
    /\ n.sessions[s] = ses
    /\ \A t \in Names(m) \ {s} : n.sessions[t] = m.sessions[t]

LEMMA SizeFacts == MaxHistory \in Nat /\ DecisionLogSize - 1 \in Nat /\ DecisionLogSize \in Nat
  BY SizeAssumption

LEMMA NamesFacts ==
    ASSUME NEW m, ManagerOK(m)
    PROVE  /\ Len(m.sessions) \in Nat /\ Names(m) = 1..Len(m.sessions)
           /\ NoSession \notin Names(m) /\ Len(m.sessions) + 1 \notin Names(m)
           /\ \A s \in Names(m) : m.sessions[s] \in Sessions
  BY DEF ManagerOK, IsManager, Names, NoSession

LEMMA PutsSame == ASSUME NEW m, ManagerOK(m), NEW s PROVE Puts(m, m, s, m.sessions[s])
  BY DEF Puts

LEMMA PutsTwice ==
    ASSUME NEW m, NEW n, NEW o, NEW s, NEW a, NEW b, Puts(m, n, s, a), Puts(n, o, s, b)
    PROVE  Puts(m, o, s, b)
  BY DEF Puts

\* A method that changes one session and nothing else.
LEMMA PutsSession ==
    ASSUME NEW m, ManagerOK(m), NEW s \in Names(m), NEW ses \in Sessions
    PROVE  Puts(m, [m EXCEPT !.sessions = [m.sessions EXCEPT ![s] = ses]], s, ses)
<1> DEFINE q == [m.sessions EXCEPT ![s] = ses]
           n == [m EXCEPT !.sessions = q]
<1>1. /\ DOMAIN n = {"sessions", "current", "log", "decisions"}
      /\ n.sessions = q /\ n.current = m.current /\ n.log = m.log /\ n.decisions = m.decisions
  BY DEF ManagerOK
<1>2. q \in Seq(Sessions) /\ DOMAIN q = DOMAIN m.sessions
  BY DEF ManagerOK, IsManager, Names
<1>3. q[s] = ses /\ \A t \in Names(m) \ {s} : q[t] = m.sessions[t]
  BY DEF Names
<1> HIDE DEF q, n
<1>4. Names(n) = Names(m)
  BY <1>1, <1>2 DEF Names
<1>5. ManagerOK(n)
  BY <1>1, <1>2, <1>4 DEF ManagerOK, IsManager
<1> QED
  BY <1>1, <1>3, <1>4, <1>5 DEF Puts, n, q

LEMMA SessionTypes ==
    ASSUME NEW ses \in Sessions
    PROVE  /\ activate(ses) \in Sessions /\ close(ses) \in Sessions /\ discard(ses) \in Sessions
           /\ \A v \in Verdicts : setClientResultData(ses, v) \in Sessions
           /\ [ses EXCEPT !.report = "sent"] \in Sessions
           /\ [ses EXCEPT !.report = "sending", !.emitted = @ + 1] \in Sessions
           /\ \A b \in BOOLEAN : [ses EXCEPT !.discardInflight = b] \in Sessions
           /\ \A b \in BOOLEAN : [ses EXCEPT !.shown = b] \in Sessions
<1>1. activate(ses) \in Sessions
  BY DEF Sessions, States, activate
<1>2. close(ses) \in Sessions
  BY DEF Sessions, States, close
<1>3. discard(ses) \in Sessions
  BY DEF Sessions, States, discard
<1>4. \A v \in Verdicts : setClientResultData(ses, v) \in Sessions
  BY DEF Sessions, setClientResultData
<1>5. [ses EXCEPT !.report = "sent"] \in Sessions
  BY DEF Sessions, Reports
<1>6. [ses EXCEPT !.report = "sending", !.emitted = @ + 1] \in Sessions
  <2>1. ses.emitted + 1 \in Nat
    BY DEF Sessions
  <2>2. \A n \in Nat : [ses EXCEPT !.report = "sending", !.emitted = n] \in Sessions
    BY DEF Sessions, Reports
  <2> QED
    BY <2>1, <2>2, Zenon
<1>7. \A b \in BOOLEAN : [ses EXCEPT !.discardInflight = b] \in Sessions
  BY DEF Sessions
<1>8. \A b \in BOOLEAN : [ses EXCEPT !.shown = b] \in Sessions
  BY DEF Sessions
<1> QED
  BY <1>1, <1>2, <1>3, <1>4, <1>5, <1>6, <1>7, <1>8

LEMMA PutsDiscard ==
    ASSUME NEW m, ManagerOK(m), NEW s \in Names(m)
    PROVE  Puts(m, discardSession(m, s), s, discard(m.sessions[s]))
<1>1. discardSession(m, s) = [m EXCEPT !.sessions = [m.sessions EXCEPT ![s] = discard(m.sessions[s])]]
  BY DEF discardSession
<1>2. discard(m.sessions[s]) \in Sessions
  BY NamesFacts, SessionTypes
<1> QED
  BY <1>1, <1>2, PutsSession

LEMMA PutsReported ==
    ASSUME NEW m, ManagerOK(m), NEW s \in Names(m)
    PROVE  Puts(m, Reported(m, s), s, [m.sessions[s] EXCEPT !.report = "sent"])
<1>1. Reported(m, s) = [m EXCEPT !.sessions = [m.sessions EXCEPT ![s] =
                                                 [m.sessions[s] EXCEPT !.report = "sent"]]]
  BY DEF Reported
<1>2. [m.sessions[s] EXCEPT !.report = "sent"] \in Sessions
  BY NamesFacts, SessionTypes
<1> QED
  BY <1>1, <1>2, PutsSession

Emitted(ses) == IF ses.report = "sent" THEN ses
                ELSE [ses EXCEPT !.report = "sending", !.emitted = @ + 1]

LEMMA PutsEmitted ==
    ASSUME NEW m, ManagerOK(m), NEW s \in Names(m)
    PROVE  Puts(m, emitUserTriggerDecision(m, s), s, Emitted(m.sessions[s]))
<1> DEFINE ses == [m.sessions[s] EXCEPT !.report = "sending", !.emitted = @ + 1]
<1>1. m.sessions[s].report # "sent" =>
          emitUserTriggerDecision(m, s) = [m EXCEPT !.sessions = [m.sessions EXCEPT ![s] = ses]]
  BY DEF emitUserTriggerDecision
<1>2. ses \in Sessions
  BY NamesFacts, SessionTypes
<1> HIDE DEF ses
<1>3. CASE m.sessions[s].report = "sent"
  BY <1>3, PutsSame DEF emitUserTriggerDecision, Emitted
<1>4. CASE m.sessions[s].report # "sent"
  BY <1>1, <1>2, <1>4, PutsSession DEF Emitted, ses
<1> QED
  BY <1>3, <1>4

LEMMA PutsActivated ==
    ASSUME NEW m, ManagerOK(m), NEW s \in Names(m)
    PROVE  Puts(m, activateSession(m, s), s,
                IF s = m.current THEN activate(m.sessions[s]) ELSE m.sessions[s])
<1>1. s = m.current =>
          activateSession(m, s) = [m EXCEPT !.sessions = [m.sessions EXCEPT ![s] = activate(m.sessions[s])]]
  BY DEF activateSession
<1>2. activate(m.sessions[s]) \in Sessions
  BY NamesFacts, SessionTypes
<1>3. CASE s = m.current
  BY <1>1, <1>2, <1>3, PutsSession
<1>4. CASE s # m.current
  BY <1>4, PutsSame DEF activateSession
<1> QED
  BY <1>3, <1>4

LEMMA DecisionTypes ==
    ASSUME NEW ses \in Sessions PROVE getAggregatedUserTriggerDecision(ses) \in Decisions
  BY DEF getAggregatedUserTriggerDecision, Decisions, Verdicts, Sessions, States

LEMMA TrimmedType ==
    ASSUME NEW S, NEW q \in Seq(S), NEW size \in Nat
    PROVE  /\ Trimmed(q, size) \in Seq(S)
           /\ Len(q) <= size + 1 => Len(Trimmed(q, size)) <= size
<1>1. CASE Len(q) > size
  <2>1. q # << >>
    BY <1>1
  <2>2. Tail(q) \in Seq(S) /\ Len(Tail(q)) = Len(q) - 1
    BY <2>1, HeadTailProperties
  <2> QED
    BY <1>1, <2>2 DEF Trimmed
<1>2. CASE ~(Len(q) > size)
  BY <1>2 DEF Trimmed
<1> QED
  BY <1>1, <1>2

\* A manager whose log of decisions changes too.
LEMMA PutsDecided ==
    ASSUME NEW m, NEW n, NEW s, NEW ses, Puts(m, n, s, ses), NEW log \in Seq(LoggedDecisions(m)),
           Len(log) <= DecisionLogSize
    PROVE  Puts(m, [n EXCEPT !.decisions = log], s, ses)
<1> DEFINE o == [n EXCEPT !.decisions = log]
<1>1. /\ DOMAIN o = {"sessions", "current", "log", "decisions"}
      /\ o.sessions = n.sessions /\ o.current = n.current /\ o.log = n.log /\ o.decisions = log
  BY DEF Puts, ManagerOK
<1> HIDE DEF o
<1>2. Names(o) = Names(n) /\ Names(n) = Names(m)
  BY <1>1 DEF Names, Puts
<1>3. ManagerOK(o)
  BY <1>1, <1>2 DEF Puts, ManagerOK, IsManager, LoggedDecisions
<1> QED
  BY <1>1, <1>2, <1>3 DEF Puts, o

LEMMA PutsClosed ==
    ASSUME NEW m, ManagerOK(m), NEW s \in Names(m)
    PROVE  Puts(m, closeSession(m, s), s, close(m.sessions[s]))
<1> DEFINE ses == close(m.sessions[s])
           decision == getAggregatedUserTriggerDecision(ses)
           entry == [session |-> s, decision |-> decision]
           trimmed == Trimmed(m.decisions, DecisionLogSize - 1)
           log == IF decision \in {"Accept", "Reject"} THEN Append(trimmed, entry) ELSE m.decisions
           n == [m EXCEPT !.sessions = [m.sessions EXCEPT ![s] = ses]]
<1>1. ses \in Sessions
  BY NamesFacts, SessionTypes
<1>2. Puts(m, n, s, ses)
  BY <1>1, PutsSession
<1>3. m.decisions \in Seq(LoggedDecisions(m)) /\ Len(m.decisions) <= DecisionLogSize
  BY DEF ManagerOK, IsManager, LoggedDecisions
<1>4. trimmed \in Seq(LoggedDecisions(m)) /\ Len(trimmed) <= DecisionLogSize - 1
  <2>1. Len(m.decisions) <= (DecisionLogSize - 1) + 1
    BY <1>3, SizeFacts
  <2> QED
    BY <1>3, <2>1, TrimmedType, SizeFacts
<1>5. closeSession(m, s) = [n EXCEPT !.decisions = log]
  <2> HIDE DEF ses, trimmed, decision
  <2>1. closeSession(m, s) = [m EXCEPT !.sessions = [m.sessions EXCEPT ![s] = ses], !.decisions = log]
    BY Zenon DEF closeSession, ses, trimmed, decision
  <2> QED
    BY <2>1
<1> HIDE DEF n, ses, decision, trimmed
<1>6. log \in Seq(LoggedDecisions(m)) /\ Len(log) <= DecisionLogSize
  <2>1. CASE decision \in {"Accept", "Reject"}
    <3>1. entry \in LoggedDecisions(m)
      BY <2>1 DEF LoggedDecisions
    <3> HIDE DEF entry
    <3>2. Append(trimmed, entry) \in Seq(LoggedDecisions(m))
          /\ Len(Append(trimmed, entry)) = Len(trimmed) + 1
      BY <1>4, <3>1, AppendProperties
    <3> QED
      BY <1>4, <2>1, <3>2, SizeFacts, LenProperties
  <2>2. CASE decision \notin {"Accept", "Reject"}
    BY <1>3, <2>2
  <2> QED
    BY <2>1, <2>2
<1> HIDE DEF log
<1> QED
  BY <1>2, <1>5, <1>6, PutsDecided DEF ses

\* What the results v make of a session, and with the report of the decision.
LEMMA PutsResults ==
    ASSUME NEW m, ManagerOK(m), NEW s \in Names(m), NEW v \in Verdicts, NEW report \in BOOLEAN
    PROVE  Puts(m, handleSessionResults(m, s, v, report), s,
                IF report THEN Emitted(close(setClientResultData(m.sessions[s], v)))
                ELSE close(setClientResultData(m.sessions[s], v)))
<1> DEFINE ses == setClientResultData(m.sessions[s], v)
           recorded == [m EXCEPT !.sessions = [m.sessions EXCEPT ![s] = ses]]
           closed == closeSession(recorded, s)
<1>1. ses \in Sessions
  BY NamesFacts, SessionTypes
<1>2. Puts(m, recorded, s, ses)
  BY <1>1, PutsSession
<1>3. handleSessionResults(m, s, v, report)
        = IF report THEN emitUserTriggerDecision(closed, s) ELSE closed
  BY DEF handleSessionResults
<1> HIDE DEF ses, recorded
<1>4. ManagerOK(recorded) /\ s \in Names(recorded) /\ recorded.sessions[s] = ses
  BY <1>2 DEF Puts
<1>5. Puts(recorded, closed, s, close(ses))
  BY <1>4, PutsClosed
<1> HIDE DEF closed
<1>6. Puts(m, closed, s, close(ses))
  BY <1>2, <1>5, PutsTwice
<1>7. ManagerOK(closed) /\ s \in Names(closed) /\ closed.sessions[s] = close(ses)
  BY <1>6 DEF Puts
<1>8. Puts(closed, emitUserTriggerDecision(closed, s), s, Emitted(close(ses)))
  BY <1>7, PutsEmitted
<1>9. Puts(m, emitUserTriggerDecision(closed, s), s, Emitted(close(ses)))
  BY <1>6, <1>8, PutsTwice
<1> QED
  BY <1>3, <1>6, <1>9 DEF ses

\* Every method that ends a session and sends its decision.
LEMMA PutsDiscardEmitted ==
    ASSUME NEW m, ManagerOK(m), NEW s \in Names(m)
    PROVE  Puts(m, emitUserTriggerDecision(discardSession(m, s), s), s,
                Emitted(discard(m.sessions[s])))
<1> DEFINE n == discardSession(m, s)
<1>1. Puts(m, n, s, discard(m.sessions[s]))
  BY PutsDiscard
<1> HIDE DEF n
<1>2. ManagerOK(n) /\ s \in Names(n) /\ n.sessions[s] = discard(m.sessions[s])
  BY <1>1 DEF Puts
<1>3. Puts(n, emitUserTriggerDecision(n, s), s, Emitted(n.sessions[s]))
  BY <1>2, PutsEmitted
<1>4. Puts(n, emitUserTriggerDecision(n, s), s, Emitted(discard(m.sessions[s])))
  BY <1>2, <1>3
<1> QED
  BY <1>1, <1>4, PutsTwice DEF n

LEMMA PutsCloseEmitted ==
    ASSUME NEW m, ManagerOK(m), NEW s \in Names(m)
    PROVE  Puts(m, emitUserTriggerDecision(closeSession(m, s), s), s,
                Emitted(close(m.sessions[s])))
<1> DEFINE n == closeSession(m, s)
<1>1. Puts(m, n, s, close(m.sessions[s]))
  BY PutsClosed
<1> HIDE DEF n
<1>2. ManagerOK(n) /\ s \in Names(n) /\ n.sessions[s] = close(m.sessions[s])
  BY <1>1 DEF Puts
<1>3. Puts(n, emitUserTriggerDecision(n, s), s, Emitted(n.sessions[s]))
  BY <1>2, PutsEmitted
<1>4. Puts(n, emitUserTriggerDecision(n, s), s, Emitted(close(m.sessions[s])))
  BY <1>2, <1>3
<1> QED
  BY <1>1, <1>4, PutsTwice DEF n

\* n is m with a new session, the current one.
Opens(m, n) ==
    LET new == Len(m.sessions) + 1
    IN  /\ ManagerOK(n) /\ Names(n) = Names(m) \cup {new} /\ n.current = new
        /\ n.sessions[new] = NewSession
        /\ \A t \in Names(m) : n.sessions[t] = m.sessions[t]

LEMMA OpensSession == ASSUME NEW m, ManagerOK(m) PROVE Opens(m, createSession(m))
<1> DEFINE new == Len(m.sessions) + 1
           q == Append(m.sessions, NewSession)
           trimmed == Trimmed(m.log, MaxHistory)
           log == Append(trimmed, new)
           n == createSession(m)
<1>1. /\ DOMAIN n = {"sessions", "current", "log", "decisions"}
      /\ n.sessions = q /\ n.current = new /\ n.log = log /\ n.decisions = m.decisions
  BY DEF ManagerOK, createSession
<1>2. NewSession \in Sessions
  BY DEF NewSession, Sessions, States, Reports
<1>3. m.sessions \in Seq(Sessions) /\ Len(m.sessions) \in Nat
  BY DEF ManagerOK, IsManager
<1>4. /\ q \in Seq(Sessions) /\ Len(q) = new /\ q[new] = NewSession
      /\ \A t \in 1..Len(m.sessions) : q[t] = m.sessions[t]
  BY <1>2, <1>3, AppendProperties
<1>5. DOMAIN q = 1..new /\ DOMAIN m.sessions = 1..Len(m.sessions)
  BY <1>3, <1>4, LenProperties
<1>6. 1..new = (1..Len(m.sessions)) \cup {new}
  BY <1>3
<1>7. Names(n) = Names(m) \cup {new} /\ new \in Names(n)
  BY <1>1, <1>5, <1>6 DEF Names
<1> HIDE DEF q, new, n
<1>8. m.log \in Seq(Names(m)) /\ Len(m.log) <= MaxHistory + 1
  BY DEF ManagerOK, IsManager
<1>9. trimmed \in Seq(Names(m)) /\ Len(trimmed) <= MaxHistory
  BY <1>8, TrimmedType, SizeFacts
<1> HIDE DEF trimmed
<1>10. trimmed \in Seq(Names(n)) /\ m.decisions \in Seq(LoggedDecisions(n))
  <2>1. LoggedDecisions(m) \subseteq LoggedDecisions(n)
    BY <1>7 DEF LoggedDecisions
  <2>2. m.decisions \in Seq(LoggedDecisions(m))
    BY DEF ManagerOK, IsManager, LoggedDecisions
  <2>3. \A S, T : S \subseteq T => \A x \in Seq(S) : x \in Seq(T)
    OBVIOUS
  <2> QED
    BY <1>7, <1>9, <2>1, <2>2, <2>3
<1>11. log \in Seq(Names(n)) /\ Len(log) = Len(trimmed) + 1
  BY <1>7, <1>10, AppendProperties
<1> HIDE DEF log
<1>12. Len(log) <= MaxHistory + 1
  BY <1>9, <1>11, SizeFacts, LenProperties
<1>13. ManagerOK(n)
  BY <1>1, <1>4, <1>7, <1>10, <1>11, <1>12 DEF ManagerOK, IsManager, LoggedDecisions
<1>14. \A t \in Names(m) : q[t] = m.sessions[t]
  BY <1>4, <1>5 DEF Names
<1>15. Opens(m, n)
  BY <1>1, <1>4, <1>7, <1>13, <1>14 DEF Opens, new
<1> QED
  BY <1>15 DEF n

LEMMA StateSteps ==
    ASSUME NEW ses \in Sessions
    PROVE  /\ discard(ses).state = "DISCARD" /\ Emitted(ses).state = ses.state
           /\ close(ses).state \in Ended
           /\ ses.state \notin Ended => activate(ses).state = "ACTIVE"
           /\ ses.state \in Ended => activate(ses) = ses /\ close(ses) = ses
           /\ [ses EXCEPT !.report = "sent"].state = ses.state
           /\ \A b \in BOOLEAN : [ses EXCEPT !.shown = b].state = ses.state
           /\ Emitted(ses) \in Sessions
<1>1. Emitted(ses) \in Sessions
  BY SessionTypes DEF Emitted
<1> QED
  BY <1>1 DEF Sessions, States, Ended, discard, close, activate, Emitted

(***************************************************************************)
(* The decision about an ended session is final in a step from m to n.     *)
(***************************************************************************)
FinalStep(m, n) ==
    \A s \in Names(m) : StateOf(m, s) \in Ended =>
        getAggregatedUserTriggerDecision(n.sessions[s])
            = getAggregatedUserTriggerDecision(m.sessions[s])

LEMMA FinalPuts ==
    ASSUME NEW m, NEW n, NEW s, NEW ses, Puts(m, n, s, ses),
           m.sessions[s].state \in Ended =>
             getAggregatedUserTriggerDecision(ses) = getAggregatedUserTriggerDecision(m.sessions[s])
    PROVE  FinalStep(m, n)
  BY DEF FinalStep, Puts, StateOf

LEMMA FinalOpens ==
    ASSUME NEW m, NEW k, NEW n, FinalStep(m, k), Names(k) = Names(m), Opens(k, n)
    PROVE  FinalStep(m, n)
  BY DEF FinalStep, Opens

LEMMA FinalSame == ASSUME NEW m PROVE FinalStep(m, m)
  BY DEF FinalStep

LEMMA DecisionSteps ==
    ASSUME NEW ses \in Sessions
    PROVE  /\ getAggregatedUserTriggerDecision([ses EXCEPT !.report = "sent"])
                = getAggregatedUserTriggerDecision(ses)
           /\ getAggregatedUserTriggerDecision(Emitted(ses)) = getAggregatedUserTriggerDecision(ses)
<1>1. ASSUME NEW x, x.state = ses.state, x.results = ses.results
      PROVE  getAggregatedUserTriggerDecision(x) = getAggregatedUserTriggerDecision(ses)
  BY <1>1, Zenon DEF getAggregatedUserTriggerDecision
<1>2. /\ [ses EXCEPT !.report = "sent"].state = ses.state
      /\ [ses EXCEPT !.report = "sent"].results = ses.results
      /\ Emitted(ses).state = ses.state /\ Emitted(ses).results = ses.results
  BY DEF Sessions, Emitted
<1> QED
  BY <1>1, <1>2
=============================================================================
