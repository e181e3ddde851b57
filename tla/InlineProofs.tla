---------------------------- MODULE InlineProofs ----------------------------
(***************************************************************************)
(* Proofs about inline completions (InlineCompletion), whose calls never   *)
(* overlap, for every number of requests and sessions and every size of    *)
(* the logs.                                                               *)
(***************************************************************************)
EXTENDS InlineCompletion, SessionProofs

(***************************************************************************)
(* The inductive invariant.  A session that has not ended has sent         *)
(* nothing, and one that has ended has sent its decision once, unless a    *)
(* request for it failed.  At most one call is in progress, it stays with  *)
(* the current session from its first await to its last, and the report it *)
(* waits for is about an ended session.                                    *)
(***************************************************************************)
Settled(ses, excused) ==
    /\ ses.discardInflight = FALSE
    /\ ses.state \notin Ended => ses.emitted = 0 /\ ses.report = "unsent"
    /\ ses.emitted <= 1
    /\ ses.state \in Ended /\ ~excused => ses.emitted = 1

Reporting == {"discarding", "dropping", "closing"}

Requests(m) == [at: Awaits, page: {NoSession} \cup Names(m), session: {NoSession} \cup Names(m)]

Position(r, m) ==
    /\ r.at \notin {"idle", "context"} => r.session = m.current
    /\ r.at \in {"generating", "paging"} \cup Reporting => r.session # NoSession
    /\ r.at \in Reporting => StateOf(m, r.session) \in Ended

OneAtATime ==
    \A c \in Calls : call[c].at # "idle" =>
        inProgress = TRUE /\ \A d \in Calls : call[d].at # "idle" => c = d

CompletionInv ==
    /\ ManagerOK(mgr) /\ TypeOK
    /\ \A s \in Names(mgr) : Settled(mgr.sessions[s], s \in failed)
    /\ OneAtATime
    /\ \A c \in Calls : Position(call[c], mgr)
    /\ RequestingInFlight
    /\ OnlyCurrentActive

\* Ending a session and sending its decision settles it; a failed request ends it unsent.
LEMMA SettledSteps ==
    ASSUME NEW ses \in Sessions, NEW e \in BOOLEAN, Settled(ses, e)
    PROVE  /\ ses.state \notin Ended =>
                /\ Settled(Emitted(discard(ses)), e) /\ Settled(Emitted(close(ses)), e)
                /\ Settled(activate(ses), e)
                /\ \A v \in Verdicts : Settled(Emitted(close(setClientResultData(ses, v))), e)
           /\ Settled(close(ses), TRUE) /\ Settled(ses, TRUE)
           /\ ses.state \in Ended => Settled([ses EXCEPT !.report = "sent"], e)
           /\ \A b \in BOOLEAN : Settled([ses EXCEPT !.shown = b], e)
<1> USE DEF Settled, Ended
<1>1. ASSUME ses.state \notin Ended PROVE Settled(Emitted(discard(ses)), e)
  BY <1>1 DEF Sessions, Emitted, discard
<1>2. ASSUME ses.state \notin Ended PROVE Settled(Emitted(close(ses)), e)
  BY <1>2 DEF Sessions, Emitted, close
<1>3. ASSUME ses.state \notin Ended PROVE Settled(activate(ses), e)
  BY <1>3 DEF Sessions, activate
<1>4. ASSUME ses.state \notin Ended, NEW v \in Verdicts
      PROVE  Settled(Emitted(close(setClientResultData(ses, v))), e)
  BY <1>4 DEF Sessions, Emitted, close, setClientResultData
<1>5. Settled(close(ses), TRUE) /\ Settled(ses, TRUE)
  BY DEF Sessions, close
<1>6. ASSUME ses.state \in Ended PROVE Settled([ses EXCEPT !.report = "sent"], e)
  BY <1>6 DEF Sessions
<1>7. \A b \in BOOLEAN : Settled([ses EXCEPT !.shown = b], e)
  BY DEF Sessions
<1> QED
  BY <1>1, <1>2, <1>3, <1>4, <1>5, <1>6, <1>7

LEMMA InvInit == Init => CompletionInv
<1> SUFFICES ASSUME Init PROVE CompletionInv
  OBVIOUS
<1>1. Names(mgr) = {}
  BY DEF Init, NewManager, Names
<1>2. ManagerOK(mgr)
  BY SizeFacts DEF Init, NewManager, ManagerOK, IsManager, Names
<1>3. \A c \in Calls : call[c] = Idle
  BY DEF Init
<1>4. TypeOK
  BY <1>2 DEF Init, TypeOK, ManagerOK, Idle, Awaits
<1> QED
  BY <1>1, <1>2, <1>3, <1>4
  DEF CompletionInv, OneAtATime, Position, Reporting, RequestingInFlight, OnlyCurrentActive, Idle

LEMMA InvFacts ==
    ASSUME CompletionInv
    PROVE  /\ call \in [Calls -> Requests(mgr)]
           /\ \A c \in Calls : /\ DOMAIN call[c] = {"at", "page", "session"}
                               /\ call[c].at \notin {"idle", "context", "document"} =>
                                    call[c].session \in Names(mgr) /\ call[c].session = mgr.current
           /\ \A s \in Names(mgr) : /\ mgr.sessions[s] \in Sessions
                                    /\ Settled(mgr.sessions[s], s \in failed)
           /\ mgr.current \in {NoSession} \cup Names(mgr)
           /\ offered \subseteq Names(mgr) /\ tokens \subseteq Names(mgr) /\ failed \subseteq Names(mgr)
<1>1. call \in [Calls -> Requests(mgr)]
  BY DEF CompletionInv, TypeOK, Requests
<1>2. ASSUME NEW c \in Calls
      PROVE  /\ DOMAIN call[c] = {"at", "page", "session"}
             /\ call[c].at \notin {"idle", "context", "document"} =>
                  call[c].session \in Names(mgr) /\ call[c].session = mgr.current
  <2>1. call[c] \in Requests(mgr) /\ Position(call[c], mgr)
    BY <1>1 DEF CompletionInv
  <2> QED
    BY <2>1 DEF Requests, Position, Reporting, Awaits
<1>3. \A s \in Names(mgr) : mgr.sessions[s] \in Sessions
  BY NamesFacts DEF CompletionInv
<1> QED
  BY <1>1, <1>2, <1>3 DEF CompletionInv, TypeOK, IsManager

\* While a call is in progress the others are idle.
LEMMA OthersIdle ==
    ASSUME CompletionInv, NEW c \in Calls, call[c].at # "idle"
    PROVE  \A d \in Calls \ {c} : call[d].at = "idle"
  BY DEF CompletionInv, OneAtATime

\* The calls after a step of call c.
LEMMA CallStep ==
    ASSUME CompletionInv, NEW c \in Calls, NEW r, r \in Requests(mgr'),
           call' = [call EXCEPT ![c] = r],
           \A d \in Calls \ {c} : call[d].at = "idle",
           r.at # "idle" => inProgress' = TRUE,
           Names(mgr) \subseteq Names(mgr'), Position(r, mgr')
    PROVE  /\ call' \in [Calls -> Requests(mgr')]
           /\ OneAtATime' /\ \A d \in Calls : Position(call'[d], mgr')
<1>1. call \in [Calls -> Requests(mgr)] /\ Requests(mgr) \subseteq Requests(mgr')
  BY InvFacts DEF Requests
<1>2. call'[c] = r /\ \A d \in Calls \ {c} : call'[d] = call[d]
  BY <1>1
<1>3. call' \in [Calls -> Requests(mgr')]
  BY <1>1
<1>4. OneAtATime'
  BY <1>2 DEF OneAtATime
<1>5. \A d \in Calls : Position(call'[d], mgr')
  BY <1>2 DEF Position, Reporting
<1> QED
  BY <1>3, <1>4, <1>5

\* A step that changes session s alone, and the calls.
LEMMA InvPuts ==
    ASSUME CompletionInv, NEW s \in Names(mgr), NEW ses, Puts(mgr, mgr', s, ses),
           Settled(ses, s \in failed'), failed \subseteq failed', failed' \subseteq Names(mgr),
           offered' \subseteq Names(mgr), tokens' \subseteq Names(mgr),
           isJetBrains' = isJetBrains, inProgress' \in BOOLEAN,
           call' \in [Calls -> Requests(mgr')], OneAtATime', \A d \in Calls : Position(call'[d], mgr'),
           ses.state # "REQUESTING",
           ses.state = "ACTIVE" => s = mgr.current \/ mgr.sessions[s].state = "ACTIVE",
           \A c \in Calls : call[c].at = "generating" => call'[c] = call[c] \/ call[c].session = s
    PROVE  CompletionInv'
<1>1. /\ ManagerOK(mgr') /\ Names(mgr') = Names(mgr) /\ mgr'.current = mgr.current
      /\ mgr'.sessions[s] = ses
      /\ \A t \in Names(mgr) \ {s} : mgr'.sessions[t] = mgr.sessions[t]
  BY DEF Puts
<1>2. TypeOK'
  BY <1>1, Zenon DEF CompletionInv, TypeOK, ManagerOK, Requests
<1>3. \A t \in Names(mgr') : Settled(mgr'.sessions[t], t \in failed')
  <2> SUFFICES ASSUME NEW t \in Names(mgr) PROVE Settled(mgr'.sessions[t], t \in failed')
    BY <1>1
  <2>1. CASE t = s
    BY <1>1, <2>1
  <2>2. CASE t # s
    <3>1. Settled(mgr.sessions[t], t \in failed) /\ mgr'.sessions[t] = mgr.sessions[t]
      BY <1>1, <2>2 DEF CompletionInv
    <3> QED
      BY <3>1 DEF Settled
  <2> QED
    BY <2>1, <2>2
<1>4. RequestingInFlight'
  <2> SUFFICES ASSUME NEW t \in Names(mgr), mgr'.sessions[t].state = "REQUESTING"
               PROVE  \E c \in Calls : call'[c].at = "generating" /\ call'[c].session = t
    BY <1>1 DEF RequestingInFlight, StateOf
  <2>1. t # s /\ mgr.sessions[t].state = "REQUESTING"
    BY <1>1
  <2>2. PICK c \in Calls : call[c].at = "generating" /\ call[c].session = t
    BY <2>1 DEF CompletionInv, RequestingInFlight, StateOf
  <2> QED
    BY <2>1, <2>2
<1>5. OnlyCurrentActive'
  BY <1>1 DEF CompletionInv, OnlyCurrentActive, StateOf
<1> QED
  BY <1>1, <1>2, <1>3, <1>4, <1>5 DEF CompletionInv

\* A step that leaves the manager alone.
LEMMA InvSame ==
    ASSUME CompletionInv, mgr' = mgr, failed' = failed,
           offered' \subseteq Names(mgr), tokens' \subseteq Names(mgr),
           isJetBrains' = isJetBrains, inProgress' \in BOOLEAN,
           call' \in [Calls -> Requests(mgr')], OneAtATime', \A d \in Calls : Position(call'[d], mgr'),
           \A c \in Calls : call[c].at = "generating" =>
                call'[c] = call[c] \/ StateOf(mgr, call[c].session) # "REQUESTING"
    PROVE  CompletionInv'
<1>1. ManagerOK(mgr') /\ TypeOK'
  BY Zenon DEF CompletionInv, TypeOK, Requests
<1>2. \A t \in Names(mgr') : Settled(mgr'.sessions[t], t \in failed')
  BY DEF CompletionInv
<1>3. RequestingInFlight'
  <2> SUFFICES ASSUME NEW t \in Names(mgr), StateOf(mgr, t) = "REQUESTING"
               PROVE  \E c \in Calls : call'[c].at = "generating" /\ call'[c].session = t
    BY DEF RequestingInFlight
  <2>1. PICK c \in Calls : call[c].at = "generating" /\ call[c].session = t
    BY DEF CompletionInv, RequestingInFlight
  <2> QED
    BY <2>1
<1>4. OnlyCurrentActive'
  BY DEF CompletionInv, OnlyCurrentActive
<1> QED
  BY <1>1, <1>2, <1>3, <1>4 DEF CompletionInv

LEMMA AwaitCall ==
    ASSUME CompletionInv, NEW c \in Calls, NEW at, NEW s, Await(c, at, s)
    PROVE  call' = [call EXCEPT ![c] = [at |-> at, page |-> call[c].page, session |-> s]]
<1> DEFINE x == [[call[c] EXCEPT !.at = at] EXCEPT !.session = s]
<1>1. call \in [Calls -> Requests(mgr)] /\ call[c] \in Requests(mgr)
  BY InvFacts
<1>2. x \in [at: {at}, page: {call[c].page}, session: {s}]
  BY <1>1 DEF Requests
<1>3. call' = [call EXCEPT ![c] = x]
  BY <1>1 DEF Await
<1> HIDE DEF x
<1>4. x = [at |-> at, page |-> call[c].page, session |-> s]
  BY <1>2
<1> QED
  BY <1>3, <1>4

LEMMA IdleFacts ==
    ASSUME NEW m PROVE Idle \in Requests(m) /\ Idle.at = "idle" /\ Position(Idle, m)
  BY DEF Idle, Requests, Awaits, Position, Reporting

\* The end of call c in a step that keeps the sessions' names.
LEMMA CallFinish ==
    ASSUME CompletionInv, NEW c \in Calls, call[c].at # "idle", Finish(c), Names(mgr') = Names(mgr)
    PROVE  /\ call' \in [Calls -> Requests(mgr')] /\ inProgress' \in BOOLEAN
           /\ OneAtATime' /\ \A d \in Calls : Position(call'[d], mgr')
           /\ \A d \in Calls : call[d].at = "generating" => call'[d] = call[d] \/ d = c
<1>1. call' = [call EXCEPT ![c] = Idle] /\ inProgress' = FALSE
  BY DEF Finish
<1>2. call \in [Calls -> Requests(mgr)] /\ \A d \in Calls \ {c} : call[d].at = "idle"
  BY InvFacts, OthersIdle
<1> QED
  BY <1>1, <1>2, CallStep, IdleFacts

\* Call c goes on to its next await in a step that keeps the sessions' names.
LEMMA CallAwait ==
    ASSUME CompletionInv, NEW c \in Calls, call[c].at # "idle",
           NEW at \in Awaits, NEW s \in {NoSession} \cup Names(mgr'), Await(c, at, s),
           inProgress' = inProgress, Names(mgr) \subseteq Names(mgr'),
           Position([at |-> at, page |-> call[c].page, session |-> s], mgr')
    PROVE  /\ call' \in [Calls -> Requests(mgr')] /\ inProgress' \in BOOLEAN
           /\ OneAtATime' /\ \A d \in Calls : Position(call'[d], mgr')
           /\ call'[c] = [at |-> at, page |-> call[c].page, session |-> s]
           /\ \A d \in Calls : call[d].at = "generating" => call'[d] = call[d] \/ d = c
<1> DEFINE r == [at |-> at, page |-> call[c].page, session |-> s]
<1>1. call' = [call EXCEPT ![c] = r]
  BY AwaitCall
<1>2. call \in [Calls -> Requests(mgr)] /\ \A d \in Calls \ {c} : call[d].at = "idle"
  BY InvFacts, OthersIdle
<1>3. r \in Requests(mgr')
  BY <1>2 DEF Requests
<1>4. inProgress' = TRUE
  BY DEF CompletionInv, OneAtATime
<1> HIDE DEF r
<1>5. Position(r, mgr')
  BY DEF r
<1>6. /\ call' \in [Calls -> Requests(mgr')]
      /\ OneAtATime' /\ \A d \in Calls : Position(call'[d], mgr')
  BY <1>1, <1>2, <1>3, <1>4, <1>5, CallStep
<1>7. /\ call'[c] = r
      /\ \A d \in Calls : call[d].at = "generating" => call'[d] = call[d] \/ d = c
  BY <1>1, <1>2
<1> QED
  BY <1>4, <1>6, <1>7 DEF r

(***************************************************************************)
(* One lemma per action.                                                   *)
(***************************************************************************)
\* No session is REQUESTING when a request begins: MarkInflight marks nothing.
LEMMA NothingMarked ==
    ASSUME CompletionInv, inProgress = FALSE, NEW page PROVE MarkInflight(mgr, page) = mgr
<1>1. \A c \in Calls : call[c].at = "idle"
  BY DEF CompletionInv, OneAtATime
<1>2. \A s \in Names(mgr) : StateOf(mgr, s) # "REQUESTING"
  BY <1>1 DEF CompletionInv, RequestingInFlight
<1> QED
  BY <1>2, InvFacts DEF MarkInflight

LEMMA StepOnInlineCompletion ==
    ASSUME CompletionInv, NEW c \in Calls, OnInlineCompletion(c), isJetBrains' = isJetBrains
    PROVE  CompletionInv'
<1>1. inProgress = FALSE
  BY Zenon DEF OnInlineCompletion, CompletionInv, TypeOK
<1>2. PICK page \in {NoSession} \cup tokens :
        /\ mgr' = MarkInflight(mgr, page)
        /\ call' = [call EXCEPT ![c] = [at |-> "document", page |-> page, session |-> mgr.current]]
  BY Zenon DEF OnInlineCompletion
<1>3. mgr' = mgr /\ inProgress' = TRUE /\ UNCHANGED <<offered, tokens, failed>>
  BY <1>1, <1>2, NothingMarked DEF OnInlineCompletion
<1> DEFINE r == [at |-> "document", page |-> page, session |-> mgr.current]
<1>4. r \in Requests(mgr') /\ Position(r, mgr')
  BY <1>3, InvFacts DEF Requests, Position, Reporting, Awaits
<1>5. \A d \in Calls : call[d].at = "idle"
  BY <1>1 DEF CompletionInv, OneAtATime
<1>6. /\ call' \in [Calls -> Requests(mgr')]
      /\ OneAtATime' /\ \A d \in Calls : Position(call'[d], mgr')
  <2> HIDE DEF r
  <2> QED
    BY <1>2, <1>3, <1>4, <1>5, CallStep DEF r
<1> QED
  BY <1>3, <1>5, <1>6, InvSame, InvFacts

LEMMA StepDocumentRead ==
    ASSUME CompletionInv, NEW c \in Calls, DocumentRead(c), isJetBrains' = isJetBrains
    PROVE  CompletionInv'
<1>1. /\ call[c].at = "document" /\ UNCHANGED <<mgr, inProgress, offered, tokens, failed>>
      /\ call[c].session = mgr.current /\ call[c] \in Requests(mgr)
  BY InvFacts DEF DocumentRead, CompletionInv, Position
<1>2. PICK at \in {"paging", "context"}, s \in {NoSession, call[c].session} :
        /\ Await(c, at, s)
        /\ at = "paging" => s = call[c].session /\ s # NoSession
  BY DEF DocumentRead
<1>3. at \in Awaits /\ s \in {NoSession} \cup Names(mgr')
  BY <1>1 DEF Awaits, Requests
<1>4. Position([at |-> at, page |-> call[c].page, session |-> s], mgr')
  BY <1>1, <1>2 DEF Position, Reporting
<1>5. /\ call' \in [Calls -> Requests(mgr')] /\ inProgress' \in BOOLEAN
      /\ OneAtATime' /\ \A d \in Calls : Position(call'[d], mgr')
      /\ \A d \in Calls : call[d].at = "generating" => call'[d] = call[d] \/ d = c
  BY <1>1, <1>2, <1>3, <1>4, CallAwait
<1> QED
  BY <1>1, <1>5, InvSame, InvFacts

LEMMA StepNothingToDo ==
    ASSUME CompletionInv, NEW c \in Calls, NothingToDo(c), isJetBrains' = isJetBrains
    PROVE  CompletionInv'
<1>1. /\ call[c].at \in {"document", "context"} /\ UNCHANGED <<mgr, offered, tokens, failed>>
      /\ Finish(c)
  BY DEF NothingToDo
<1>2. /\ call' \in [Calls -> Requests(mgr')] /\ inProgress' \in BOOLEAN
      /\ OneAtATime' /\ \A d \in Calls : Position(call'[d], mgr')
      /\ \A d \in Calls : call[d].at = "generating" => call'[d] = call[d] \/ d = c
  BY <1>1, CallFinish
<1> QED
  BY <1>1, <1>2, InvSame, InvFacts

\* A new session is created, in a manager m that differs from mgr in reports at most.
LEMMA StepRequest ==
    ASSUME CompletionInv, NEW c \in Calls, call[c].at \in {"context", "discarding"},
           NEW m, ManagerOK(m), Names(m) = Names(mgr),
           \A s \in Names(mgr) : /\ Settled(m.sessions[s], s \in failed)
                                 /\ StateOf(m, s) = StateOf(mgr, s)
                                 /\ ~isJetBrains => StateOf(mgr, s) # "ACTIVE",
           Request(c, m), UNCHANGED <<inProgress, offered, tokens, failed, isJetBrains>>
    PROVE  CompletionInv'
<1> DEFINE new == Len(m.sessions) + 1
           r == [at |-> "generating", page |-> call[c].page, session |-> new]
<1>1. Opens(m, mgr') /\ Await(c, "generating", new)
  BY OpensSession DEF Request
<1>2. /\ ManagerOK(mgr') /\ Names(mgr') = Names(mgr) \cup {new} /\ mgr'.current = new
      /\ mgr'.sessions[new] = NewSession
      /\ \A t \in Names(mgr) : mgr'.sessions[t] = m.sessions[t]
  BY <1>1 DEF Opens
<1>3. new # NoSession /\ new \notin Names(mgr)
  BY NamesFacts DEF NoSession
<1> HIDE DEF new
<1>4. Position(r, mgr') /\ "generating" \in Awaits
  BY <1>2, <1>3 DEF Position, Reporting, Awaits
<1>5. /\ call' \in [Calls -> Requests(mgr')] /\ inProgress' \in BOOLEAN
      /\ OneAtATime' /\ \A d \in Calls : Position(call'[d], mgr')
      /\ call'[c] = r
  <2>1. inProgress' = inProgress /\ new \in {NoSession} \cup Names(mgr')
        /\ Names(mgr) \subseteq Names(mgr') /\ call[c].at # "idle"
    BY <1>2
  <2> QED
    BY <1>1, <1>4, <2>1, CallAwait
<1>6. TypeOK'
  <2>1. offered' \subseteq Names(mgr') /\ tokens' \subseteq Names(mgr') /\ failed' \subseteq Names(mgr')
    BY <1>2, InvFacts
  <2>2. isJetBrains' \in BOOLEAN
    BY Zenon DEF CompletionInv, TypeOK
  <2> QED
    BY <1>2, <1>5, <2>1, <2>2, Zenon DEF TypeOK, ManagerOK, Requests
<1>7. \A t \in Names(mgr') : Settled(mgr'.sessions[t], t \in failed')
  <2>1. Settled(NewSession, new \in failed')
    BY DEF Settled, NewSession, Ended
  <2> QED
    BY <1>2, <2>1
<1>8. \A t \in Names(mgr) : StateOf(mgr, t) # "REQUESTING"
  <2>1. \A d \in Calls : call[d].at # "generating"
    BY OthersIdle
  <2> QED
    BY <2>1 DEF CompletionInv, RequestingInFlight
<1>9. RequestingInFlight'
  <2> SUFFICES ASSUME NEW t \in Names(mgr'), StateOf(mgr', t) = "REQUESTING" PROVE t = new
    BY <1>5 DEF RequestingInFlight
  <2> QED
    BY <1>2, <1>8 DEF StateOf
<1>10. OnlyCurrentActive'
  <2> SUFFICES ASSUME ~isJetBrains, NEW t \in Names(mgr'), StateOf(mgr', t) = "ACTIVE" PROVE t = new
    BY <1>2 DEF OnlyCurrentActive
  <2> QED
    BY <1>2 DEF StateOf
<1> QED
  BY <1>2, <1>5, <1>6, <1>7, <1>9, <1>10 DEF CompletionInv

\* A session that ends with its decision sent, the one call c works on, and call c waits.
LEMMA StepEnding ==
    ASSUME CompletionInv, NEW c \in Calls, call[c].at # "idle", NEW s \in Names(mgr), s = mgr.current,
           NEW ses \in Sessions, Puts(mgr, mgr', s, ses), Settled(ses, s \in failed), ses.state \in Ended,
           NEW at \in Reporting, Await(c, at, s), call[c].at = "generating" => call[c].session = s,
           tokens' \subseteq Names(mgr), UNCHANGED <<inProgress, offered, failed, isJetBrains>>
    PROVE  CompletionInv'
<1>1. Names(mgr') = Names(mgr) /\ mgr'.current = mgr.current /\ mgr'.sessions[s] = ses
  BY DEF Puts
<1>2. at \in Awaits /\ s # NoSession
  BY NamesFacts DEF CompletionInv, Awaits, Reporting
<1>3. Position([at |-> at, page |-> call[c].page, session |-> s], mgr')
  BY <1>1, <1>2 DEF Position, Reporting, StateOf
<1>4. /\ call' \in [Calls -> Requests(mgr')] /\ inProgress' \in BOOLEAN
      /\ OneAtATime' /\ \A d \in Calls : Position(call'[d], mgr')
      /\ \A d \in Calls : call[d].at = "generating" => call'[d] = call[d] \/ d = c
  <2>1. inProgress' = inProgress /\ Names(mgr) \subseteq Names(mgr')
        /\ s \in {NoSession} \cup Names(mgr')
    BY <1>1
  <2> QED
    BY <1>2, <1>3, <2>1, CallAwait
<1>5. ses.state # "REQUESTING" /\ ses.state # "ACTIVE"
  BY DEF Ended
<1>6. Settled(ses, s \in failed') /\ failed \subseteq failed' /\ failed' \subseteq Names(mgr)
      /\ offered' \subseteq Names(mgr) /\ isJetBrains' = isJetBrains
  BY InvFacts
<1>7. \A d \in Calls : call[d].at = "generating" => call'[d] = call[d] \/ call[d].session = s
  BY <1>4
<1> QED
  BY <1>4, <1>5, <1>6, <1>7, InvPuts

LEMMA StepContextBuilt ==
    ASSUME CompletionInv, NEW c \in Calls, ContextBuilt(c), isJetBrains' = isJetBrains
    PROVE  CompletionInv'
<1> DEFINE s == mgr.current
<1>1. call[c].at = "context" /\ UNCHANGED <<inProgress, offered, tokens, failed, isJetBrains>>
  BY DEF ContextBuilt
<1>2. CASE s # NoSession /\ StateOf(mgr, s) = "ACTIVE" /\ ~isJetBrains
  <2>1. /\ mgr' = emitUserTriggerDecision(discardSession(mgr, s), s)
        /\ Await(c, "discarding", s)
    BY <1>2, Zenon DEF ContextBuilt
  <2>2. s \in Names(mgr) /\ mgr.sessions[s] \in Sessions /\ Settled(mgr.sessions[s], s \in failed)
    BY <1>2, InvFacts
  <2> HIDE DEF s
  <2> DEFINE ses == Emitted(discard(mgr.sessions[s]))
  <2>3. Puts(mgr, mgr', s, ses)
    BY <2>1, <2>2, PutsDiscardEmitted DEF CompletionInv
  <2>4. mgr.sessions[s].state \notin Ended
    BY <1>2 DEF StateOf, Ended
  <2>5. Settled(ses, s \in failed)
    <3>1. (s \in failed) \in BOOLEAN
      OBVIOUS
    <3> QED
      BY <2>2, <2>4, <3>1, SettledSteps, Zenon
  <2>6. discard(mgr.sessions[s]) \in Sessions
    BY <2>2, SessionTypes
  <2>7. ses \in Sessions /\ ses.state \in Ended
    BY <2>2, <2>6, StateSteps DEF Ended
  <2> HIDE DEF ses
  <2>8. "discarding" \in Reporting /\ tokens' \subseteq Names(mgr) /\ s = mgr.current
    BY <1>1, InvFacts DEF Reporting, s
  <2> QED
    BY <1>1, <2>1, <2>2, <2>3, <2>5, <2>7, <2>8, StepEnding
<1>3. CASE ~(s # NoSession /\ StateOf(mgr, s) = "ACTIVE" /\ ~isJetBrains)
  <2>1. Request(c, mgr)
    BY <1>3, Zenon DEF ContextBuilt
  <2>2. ASSUME NEW t \in Names(mgr), ~isJetBrains PROVE StateOf(mgr, t) # "ACTIVE"
    <3>1. SUFFICES ASSUME StateOf(mgr, t) = "ACTIVE" PROVE FALSE
      OBVIOUS
    <3>2. t = s
      BY <2>2, <3>1 DEF CompletionInv, OnlyCurrentActive
    <3>3. t # NoSession
      BY NamesFacts DEF CompletionInv
    <3> QED
      BY <1>3, <2>2, <3>1, <3>2, <3>3
  <2>3. \A t \in Names(mgr) : /\ Settled(mgr.sessions[t], t \in failed)
                              /\ ~isJetBrains => StateOf(mgr, t) # "ACTIVE"
    BY <2>2, InvFacts
  <2>4. ManagerOK(mgr) /\ call[c].at \in {"context", "discarding"}
    BY <1>1 DEF CompletionInv
  <2> QED
    BY <1>1, <2>1, <2>3, <2>4, StepRequest
<1> QED
  BY <1>2, <1>3

LEMMA StepDiscardReported ==
    ASSUME CompletionInv, NEW c \in Calls, DiscardReported(c), isJetBrains' = isJetBrains
    PROVE  CompletionInv'
<1> DEFINE s == call[c].session
           m == Reported(mgr, s)
           ses == [mgr.sessions[s] EXCEPT !.report = "sent"]
<1>1. /\ call[c].at = "discarding" /\ Request(c, m)
      /\ UNCHANGED <<inProgress, offered, tokens, failed, isJetBrains>>
  BY DEF DiscardReported
<1>2. /\ s \in Names(mgr) /\ s = mgr.current /\ ManagerOK(mgr)
      /\ mgr.sessions[s] \in Sessions /\ Settled(mgr.sessions[s], s \in failed)
  BY <1>1, InvFacts DEF CompletionInv
<1>3. mgr.sessions[s].state \in Ended
  BY <1>1 DEF CompletionInv, Position, Reporting, StateOf
<1>4. Puts(mgr, m, s, ses)
  BY <1>2, PutsReported
<1>5. Settled(ses, s \in failed)
  <2>1. (s \in failed) \in BOOLEAN
    OBVIOUS
  <2> QED
    BY <1>2, <1>3, <2>1, SettledSteps, Zenon
<1>6. ses.state = mgr.sessions[s].state
  BY <1>2, StateSteps
<1> HIDE DEF m, s, ses
<1>7. ASSUME NEW t \in Names(mgr)
      PROVE  /\ Settled(m.sessions[t], t \in failed) /\ StateOf(m, t) = StateOf(mgr, t)
             /\ ~isJetBrains => StateOf(mgr, t) # "ACTIVE"
  <2>1. CASE t = s
    <3>1. m.sessions[t] = ses
      BY <1>4, <2>1 DEF Puts
    <3> QED
      BY <1>3, <1>5, <1>6, <2>1, <3>1 DEF StateOf, Ended
  <2>2. CASE t # s
    <3>1. m.sessions[t] = mgr.sessions[t]
      BY <1>4, <2>2 DEF Puts
    <3>2. ~isJetBrains => StateOf(mgr, t) # "ACTIVE"
      BY <1>2, <2>2 DEF CompletionInv, OnlyCurrentActive
    <3> QED
      BY <3>1, <3>2, InvFacts DEF StateOf
  <2> QED
    BY <2>1, <2>2
<1>8. ManagerOK(m) /\ Names(m) = Names(mgr) /\ call[c].at \in {"context", "discarding"}
  BY <1>1, <1>4 DEF Puts
<1> QED
  BY <1>1, <1>7, <1>8, StepRequest

\* The activated session that a response leaves.
Answered(ses, shown) == [activate(ses) EXCEPT !.shown = activate(ses).shown \/ shown]

LEMMA PutsAnswered ==
    ASSUME NEW m, ManagerOK(m), NEW s \in Names(m), s = m.current, NEW shown \in BOOLEAN
    PROVE  /\ Puts(m, [activateSession(m, s) EXCEPT !.sessions[s].shown = @ \/ shown], s,
                   Answered(m.sessions[s], shown))
           /\ Answered(m.sessions[s], shown) \in Sessions
           /\ Answered(m.sessions[s], shown).state = activate(m.sessions[s]).state
<1> DEFINE n == activateSession(m, s)
           act == activate(m.sessions[s])
           ses == Answered(m.sessions[s], shown)
<1>1. Puts(m, n, s, act)
  BY PutsActivated
<1>2. act \in Sessions
  BY NamesFacts, SessionTypes
<1> HIDE DEF n, act
<1>3. ManagerOK(n) /\ s \in Names(n) /\ n.sessions[s] = act
  BY <1>1 DEF Puts
<1>4. ses = [act EXCEPT !.shown = act.shown \/ shown] /\ (act.shown \/ shown) \in BOOLEAN
  BY Zenon DEF Answered, act
<1>5. ses \in Sessions /\ ses.state = act.state
  <2>1. \A b \in BOOLEAN : [act EXCEPT !.shown = b] \in Sessions
    BY <1>2, SessionTypes, Zenon
  <2>2. \A b \in BOOLEAN : [act EXCEPT !.shown = b].state = act.state
    BY <1>2, StateSteps, Zenon
  <2> HIDE DEF ses
  <2> QED
    BY <1>4, <2>1, <2>2, Zenon
<1>6. [n EXCEPT !.sessions[s].shown = @ \/ shown]
        = [n EXCEPT !.sessions = [n.sessions EXCEPT ![s] = ses]]
  BY <1>3, <1>4, Zenon
<1> HIDE DEF ses
<1>7. Puts(n, [n EXCEPT !.sessions = [n.sessions EXCEPT ![s] = ses]], s, ses)
  BY <1>3, <1>5, PutsSession
<1>8. Puts(m, [n EXCEPT !.sessions[s].shown = @ \/ shown], s, ses)
  BY <1>1, <1>6, <1>7, PutsTwice
<1> QED
  BY <1>5, <1>8 DEF n, act, ses

\* What a response does to its session, and what is offered after it.
LEMMA StepProcessSuggestions ==
    ASSUME CompletionInv, NEW c \in Calls, call[c].at \in {"generating", "paging"},
           NEW s, s = call[c].session, StateOf(mgr, s) \notin Ended,
           NEW shown \in BOOLEAN, NEW more \in BOOLEAN, ProcessSuggestions(c, s, shown, more),
           UNCHANGED <<failed, isJetBrains>>
    PROVE  /\ CompletionInv'
           /\ \A t \in offered' \ offered : t = mgr'.current /\ mgr'.sessions[t].state = "ACTIVE"
           /\ \E x : Puts(mgr, mgr', s, x)
<1> DEFINE m == [activateSession(mgr, s) EXCEPT !.sessions[s].shown = @ \/ shown]
           ses == Answered(mgr.sessions[s], shown)
<1>1. /\ s \in Names(mgr) /\ s = mgr.current /\ ManagerOK(mgr)
      /\ mgr.sessions[s] \in Sessions /\ Settled(mgr.sessions[s], s \in failed)
      /\ call[c].at # "idle"
  BY InvFacts DEF CompletionInv
<1>2. Puts(mgr, m, s, ses) /\ ses \in Sessions /\ ses.state = activate(mgr.sessions[s]).state
  BY <1>1, PutsAnswered
<1>3. ses.state = "ACTIVE" /\ ses.state \notin Ended
  BY <1>1, <1>2, StateSteps DEF StateOf, Ended
<1>4. Settled(ses, s \in failed)
  <2>1. (s \in failed) \in BOOLEAN /\ mgr.sessions[s].state \notin Ended
    BY DEF StateOf
  <2>2. Settled(activate(mgr.sessions[s]), s \in failed) /\ activate(mgr.sessions[s]) \in Sessions
    BY <1>1, <2>1, SettledSteps, SessionTypes, Zenon
  <2>3. (activate(mgr.sessions[s]).shown \/ shown) \in BOOLEAN
    OBVIOUS
  <2> QED
    BY <2>1, <2>2, <2>3, SettledSteps, Zenon DEF Answered
<1>5. IF ~m.sessions[s].shown /\ ~more
      THEN /\ mgr' = emitUserTriggerDecision(closeSession(m, s), s)
           /\ Await(c, "closing", s)
           /\ tokens' = tokens \ {call[c].page}
           /\ UNCHANGED <<inProgress, offered>>
      ELSE /\ mgr' = m
           /\ Finish(c)
           /\ offered' = IF shown THEN offered \cup {s} ELSE offered
           /\ tokens' = (tokens \ {call[c].page}) \cup (IF more THEN {s} ELSE {})
  BY Zenon DEF ProcessSuggestions
<1> HIDE DEF m, ses
<1>6. CASE ~m.sessions[s].shown /\ ~more
  <2>1. /\ mgr' = emitUserTriggerDecision(closeSession(m, s), s)
        /\ Await(c, "closing", s)
        /\ tokens' = tokens \ {call[c].page}
        /\ UNCHANGED <<inProgress, offered>>
    BY <1>5, <1>6, Zenon
  <2>2. ManagerOK(m) /\ s \in Names(m) /\ m.sessions[s] = ses
    BY <1>1, <1>2 DEF Puts
  <2>3. Puts(m, mgr', s, Emitted(close(m.sessions[s])))
    BY <2>1, <2>2, PutsCloseEmitted
  <2>4. Puts(mgr, mgr', s, Emitted(close(ses)))
    BY <1>2, <2>2, <2>3, PutsTwice
  <2>5. (s \in failed) \in BOOLEAN
    OBVIOUS
  <2>6. Settled(Emitted(close(ses)), s \in failed)
    BY <1>2, <1>3, <1>4, <2>5, SettledSteps, Zenon
  <2>7. close(ses) \in Sessions
    BY <1>2, SessionTypes
  <2>8. Emitted(close(ses)) \in Sessions /\ Emitted(close(ses)).state \in Ended
    BY <1>2, <2>7, StateSteps
  <2>9. "closing" \in Reporting /\ tokens' \subseteq Names(mgr)
    BY <2>1, InvFacts DEF Reporting
  <2>10. CompletionInv'
    BY <1>1, <2>1, <2>4, <2>6, <2>8, <2>9, StepEnding
  <2> QED
    BY <2>1, <2>4, <2>10
<1>7. CASE ~(~m.sessions[s].shown /\ ~more)
  <2>1. /\ mgr' = m /\ Finish(c) /\ offered' \in {offered, offered \cup {s}}
        /\ tokens' \in {tokens \ {call[c].page}, (tokens \ {call[c].page}) \cup {s}}
    <3>1. /\ mgr' = m /\ Finish(c)
          /\ offered' = IF shown THEN offered \cup {s} ELSE offered
          /\ tokens' = (tokens \ {call[c].page}) \cup (IF more THEN {s} ELSE {})
      BY <1>5, <1>7, Zenon
    <3> QED
      BY <3>1
  <2>2. Puts(mgr, mgr', s, ses)
    BY <1>2, <2>1
  <2>3. Names(mgr') = Names(mgr) /\ mgr'.current = mgr.current /\ mgr'.sessions[s] = ses
    BY <2>2 DEF Puts
  <2>4. /\ call' \in [Calls -> Requests(mgr')] /\ inProgress' \in BOOLEAN
        /\ OneAtATime' /\ \A d \in Calls : Position(call'[d], mgr')
        /\ \A d \in Calls : call[d].at = "generating" => call'[d] = call[d] \/ d = c
    BY <1>1, <2>1, <2>3, CallFinish
  <2>5. /\ Settled(ses, s \in failed') /\ failed \subseteq failed' /\ failed' \subseteq Names(mgr)
        /\ offered' \subseteq Names(mgr) /\ tokens' \subseteq Names(mgr)
    BY <1>1, <1>4, <2>1, InvFacts
  <2>6. \A d \in Calls : call[d].at = "generating" => call'[d] = call[d] \/ call[d].session = s
    BY <2>4
  <2>7. CompletionInv'
    BY <1>1, <1>3, <2>2, <2>4, <2>5, <2>6, InvPuts
  <2> QED
    BY <1>1, <1>3, <2>1, <2>2, <2>3, <2>7
<1> QED
  BY <1>6, <1>7

\* No session is marked, so the response of a session that ended meanwhile is dropped and any
\* other one is processed.
LEMMA ResponseCases ==
    ASSUME CompletionInv, NEW c \in Calls, Response(c), isJetBrains' = isJetBrains
    PROVE  \/ /\ StateOf(mgr, call[c].session) \in Ended /\ Finish(c)
              /\ tokens' = tokens \ {call[c].page} /\ UNCHANGED <<mgr, offered, failed, isJetBrains>>
           \/ /\ StateOf(mgr, call[c].session) \notin Ended
              /\ \E shown, more \in BOOLEAN :
                    ProcessSuggestions(c, call[c].session, shown, more)
              /\ UNCHANGED <<failed, isJetBrains>>
<1> DEFINE s == call[c].session
<1>1. call[c].at \in {"generating", "paging"} /\ failed' = failed
  BY DEF Response
<1>2. mgr.sessions[s].discardInflight = FALSE
  BY <1>1, InvFacts DEF Settled
<1>3. CASE StateOf(mgr, s) \in Ended
  <2>1. Finish(c) /\ tokens' = tokens \ {call[c].page} /\ UNCHANGED <<mgr, offered>>
    BY <1>2, <1>3, Zenon DEF Response
  <2> QED
    BY <1>1, <1>3, <2>1
<1>4. CASE StateOf(mgr, s) \notin Ended
  <2>1. \E shown, more \in BOOLEAN : ProcessSuggestions(c, s, shown, more)
    BY <1>2, <1>4, Zenon DEF Response
  <2> QED
    BY <1>1, <1>4, <2>1
<1> QED
  BY <1>3, <1>4

LEMMA StepResponse ==
    ASSUME CompletionInv, NEW c \in Calls, Response(c), isJetBrains' = isJetBrains
    PROVE  /\ CompletionInv'
           /\ \A t \in offered' \ offered : t = mgr'.current /\ mgr'.sessions[t].state = "ACTIVE"
<1>1. call[c].at \in {"generating", "paging"}
  BY DEF Response
<1>2. CASE /\ StateOf(mgr, call[c].session) \in Ended /\ Finish(c)
           /\ tokens' = tokens \ {call[c].page} /\ UNCHANGED <<mgr, offered, failed, isJetBrains>>
  <2>1. /\ call' \in [Calls -> Requests(mgr')] /\ inProgress' \in BOOLEAN
        /\ OneAtATime' /\ \A d \in Calls : Position(call'[d], mgr')
        /\ \A d \in Calls : call[d].at = "generating" => call'[d] = call[d] \/ d = c
    BY <1>1, <1>2, CallFinish
  <2>2. StateOf(mgr, call[c].session) # "REQUESTING"
    BY <1>2 DEF Ended
  <2>3. tokens' \subseteq Names(mgr) /\ offered' \subseteq Names(mgr)
    BY <1>2, InvFacts
  <2>4. \A d \in Calls : call[d].at = "generating" =>
            call'[d] = call[d] \/ StateOf(mgr, call[d].session) # "REQUESTING"
    BY <2>1, <2>2
  <2>5. CompletionInv'
    BY <1>2, <2>1, <2>3, <2>4, InvSame
  <2> QED
    BY <1>2, <2>5
<1>3. CASE /\ StateOf(mgr, call[c].session) \notin Ended
           /\ \E shown, more \in BOOLEAN : ProcessSuggestions(c, call[c].session, shown, more)
           /\ UNCHANGED <<failed, isJetBrains>>
  <2>1. PICK shown \in BOOLEAN, more \in BOOLEAN :
            ProcessSuggestions(c, call[c].session, shown, more)
    BY <1>3, Zenon
  <2> QED
    BY <1>1, <1>3, <2>1, StepProcessSuggestions, Zenon
<1> QED
  BY <1>2, <1>3, ResponseCases

LEMMA StepResponseError ==
    ASSUME CompletionInv, NEW c \in Calls, ResponseError(c), isJetBrains' = isJetBrains
    PROVE  CompletionInv'
<1> DEFINE s == call[c].session
           ses == close(mgr.sessions[s])
<1>1. /\ call[c].at \in {"generating", "paging"} /\ mgr' = closeSession(mgr, s)
      /\ failed' = failed \cup {s} /\ tokens' = tokens \ {call[c].page}
      /\ Finish(c) /\ offered' = offered
  BY DEF ResponseError
<1>2. /\ s \in Names(mgr) /\ s = mgr.current /\ ManagerOK(mgr)
      /\ mgr.sessions[s] \in Sessions /\ Settled(mgr.sessions[s], s \in failed)
  BY <1>1, InvFacts DEF CompletionInv
<1>3. Puts(mgr, mgr', s, ses)
  BY <1>1, <1>2, PutsClosed
<1>4. ses.state \in Ended
  BY <1>2, StateSteps
<1>5. Settled(ses, s \in failed')
  <2>1. (s \in failed) \in BOOLEAN
    OBVIOUS
  <2>2. Settled(ses, TRUE)
    BY <1>2, <2>1, SettledSteps, Zenon
  <2>3. s \in failed'
    BY <1>1
  <2> QED
    BY <2>2, <2>3 DEF Settled
<1>6. Names(mgr') = Names(mgr)
  BY <1>3 DEF Puts
<1>7. /\ call' \in [Calls -> Requests(mgr')] /\ inProgress' \in BOOLEAN
      /\ OneAtATime' /\ \A d \in Calls : Position(call'[d], mgr')
      /\ \A d \in Calls : call[d].at = "generating" => call'[d] = call[d] \/ call[d].session = s
  BY <1>1, <1>6, CallFinish
<1>8. /\ failed \subseteq failed' /\ failed' \subseteq Names(mgr)
      /\ offered' \subseteq Names(mgr) /\ tokens' \subseteq Names(mgr)
      /\ ses.state # "REQUESTING" /\ ses.state # "ACTIVE"
  BY <1>1, <1>2, <1>4, InvFacts DEF Ended
<1> HIDE DEF s, ses
<1> QED
  BY <1>2, <1>3, <1>5, <1>7, <1>8, InvPuts

\* The end of a report of session s, which has ended.
LEMMA ReportedFacts ==
    ASSUME CompletionInv, NEW s \in Names(mgr), mgr.sessions[s].state \in Ended
    PROVE  /\ Puts(mgr, Reported(mgr, s), s, [mgr.sessions[s] EXCEPT !.report = "sent"])
           /\ Settled([mgr.sessions[s] EXCEPT !.report = "sent"], s \in failed)
           /\ [mgr.sessions[s] EXCEPT !.report = "sent"].state = mgr.sessions[s].state
<1>1. ManagerOK(mgr) /\ mgr.sessions[s] \in Sessions /\ Settled(mgr.sessions[s], s \in failed)
  BY InvFacts DEF CompletionInv
<1>2. (s \in failed) \in BOOLEAN
  OBVIOUS
<1>3. Settled([mgr.sessions[s] EXCEPT !.report = "sent"], s \in failed)
  BY <1>1, <1>2, SettledSteps, Zenon
<1> QED
  BY <1>1, <1>3, PutsReported, StateSteps

LEMMA StepEndReported ==
    ASSUME CompletionInv, NEW c \in Calls, EndReported(c), isJetBrains' = isJetBrains
    PROVE  CompletionInv'
<1> DEFINE s == call[c].session
           ses == [mgr.sessions[s] EXCEPT !.report = "sent"]
<1>1. /\ call[c].at \in {"dropping", "closing"} /\ mgr' = Reported(mgr, s)
      /\ Finish(c) /\ UNCHANGED <<offered, tokens, failed>>
  BY DEF EndReported
<1>2. s \in Names(mgr) /\ mgr.sessions[s].state \in Ended
  BY <1>1, InvFacts DEF CompletionInv, Position, Reporting, StateOf
<1>3. Puts(mgr, mgr', s, ses) /\ Settled(ses, s \in failed') /\ ses.state \in Ended
  BY <1>1, <1>2, ReportedFacts
<1>4. Names(mgr') = Names(mgr)
  BY <1>3 DEF Puts
<1>5. /\ call' \in [Calls -> Requests(mgr')] /\ inProgress' \in BOOLEAN
      /\ OneAtATime' /\ \A d \in Calls : Position(call'[d], mgr')
      /\ \A d \in Calls : call[d].at = "generating" => call'[d] = call[d] \/ call[d].session = s
  BY <1>1, <1>4, CallFinish
<1>6. /\ failed \subseteq failed' /\ failed' \subseteq Names(mgr)
      /\ offered' \subseteq Names(mgr) /\ tokens' \subseteq Names(mgr)
      /\ ses.state # "REQUESTING" /\ ses.state # "ACTIVE"
  BY <1>1, <1>3, InvFacts DEF Ended
<1> HIDE DEF s, ses
<1> QED
  BY <1>2, <1>3, <1>5, <1>6, InvPuts

\* A step of the results handler leaves the calls where they are.
LEMMA StepOfResults ==
    ASSUME CompletionInv, NEW s \in Names(mgr), NEW ses, Puts(mgr, mgr', s, ses),
           Settled(ses, s \in failed), ses.state \in Ended,
           UNCHANGED <<inProgress, call, offered, tokens, failed, isJetBrains>>
    PROVE  CompletionInv'
<1>1. /\ Names(mgr') = Names(mgr) /\ mgr'.current = mgr.current /\ mgr'.sessions[s] = ses
      /\ \A t \in Names(mgr) \ {s} : mgr'.sessions[t] = mgr.sessions[t]
  BY DEF Puts
<1>2. call' \in [Calls -> Requests(mgr')] /\ OneAtATime' /\ inProgress' \in BOOLEAN
  <2>1. Requests(mgr') = Requests(mgr)
    BY <1>1 DEF Requests
  <2>2. inProgress' \in BOOLEAN
    BY Zenon DEF CompletionInv, TypeOK
  <2> QED
    BY <2>1, <2>2, InvFacts DEF CompletionInv, OneAtATime
<1>3. ASSUME NEW d \in Calls PROVE Position(call'[d], mgr')
  <2>1. Position(call[d], mgr)
    BY DEF CompletionInv
  <2>2. call[d].at \in Reporting => call[d].session \in Names(mgr)
    BY InvFacts DEF Reporting
  <2> QED
    BY <1>1, <2>1, <2>2 DEF Position, StateOf
<1>4. /\ Settled(ses, s \in failed') /\ failed \subseteq failed' /\ failed' \subseteq Names(mgr)
      /\ offered' \subseteq Names(mgr) /\ tokens' \subseteq Names(mgr)
      /\ ses.state # "REQUESTING" /\ ses.state # "ACTIVE"
  BY InvFacts DEF Ended
<1>5. \A c \in Calls : call[c].at = "generating" => call'[c] = call[c] \/ call[c].session = s
  OBVIOUS
<1> QED
  BY <1>2, <1>3, <1>4, <1>5, InvPuts

LEMMA ResultsFacts ==
    ASSUME CompletionInv, NEW s, SessionResults(s)
    PROVE  /\ s \in Names(mgr) /\ mgr.sessions[s].state = "ACTIVE"
           /\ \E v \in Verdicts :
                Puts(mgr, mgr', s, Emitted(close(setClientResultData(mgr.sessions[s], v))))
<1>1. s \in Names(mgr) /\ mgr.sessions[s].state = "ACTIVE" /\ ManagerOK(mgr)
  BY InvFacts DEF SessionResults, Recordable, StateOf, CompletionInv
<1>2. PICK v \in Verdicts : mgr' = handleSessionResults(mgr, s, v, TRUE)
  BY DEF SessionResults
<1>3. Puts(mgr, mgr', s, Emitted(close(setClientResultData(mgr.sessions[s], v))))
  <2>1. TRUE \in BOOLEAN
    OBVIOUS
  <2>2. Puts(mgr, handleSessionResults(mgr, s, v, TRUE), s,
             IF TRUE THEN Emitted(close(setClientResultData(mgr.sessions[s], v)))
             ELSE close(setClientResultData(mgr.sessions[s], v)))
    BY <1>1, <2>1, PutsResults, Zenon
  <2> QED
    BY <1>2, <2>2, Zenon
<1> QED
  BY <1>1, <1>3

LEMMA StepSessionResults ==
    ASSUME CompletionInv, NEW s, SessionResults(s), isJetBrains' = isJetBrains
    PROVE  CompletionInv'
<1>1. s \in Names(mgr) /\ mgr.sessions[s].state = "ACTIVE"
  BY ResultsFacts
<1>2. PICK v \in Verdicts :
        Puts(mgr, mgr', s, Emitted(close(setClientResultData(mgr.sessions[s], v))))
  BY ResultsFacts
<1> DEFINE data == setClientResultData(mgr.sessions[s], v)
           ses == Emitted(close(data))
<1>3. mgr.sessions[s] \in Sessions /\ Settled(mgr.sessions[s], s \in failed)
  BY <1>1, InvFacts
<1>4. (s \in failed) \in BOOLEAN /\ mgr.sessions[s].state \notin Ended
  BY <1>1 DEF Ended
<1>5. Settled(ses, s \in failed)
  BY <1>3, <1>4, SettledSteps, Zenon
<1>6. data \in Sessions /\ close(data) \in Sessions
  BY <1>3, SessionTypes
<1>7. ses.state \in Ended
  BY <1>6, StateSteps
<1> HIDE DEF ses
<1>8. Puts(mgr, mgr', s, ses) /\ UNCHANGED <<inProgress, call, offered, tokens, failed, isJetBrains>>
  BY <1>2 DEF ses, SessionResults
<1> QED
  BY <1>1, <1>5, <1>7, <1>8, StepOfResults

LEMMA StepResultsReported ==
    ASSUME CompletionInv, NEW s, ResultsReported(s), isJetBrains' = isJetBrains
    PROVE  CompletionInv'
<1> DEFINE ses == [mgr.sessions[s] EXCEPT !.report = "sent"]
<1>1. /\ s \in Names(mgr) /\ mgr.sessions[s].report = "sending" /\ mgr' = Reported(mgr, s)
      /\ UNCHANGED <<inProgress, call, offered, tokens, failed, isJetBrains>>
  BY DEF ResultsReported
<1>2. mgr.sessions[s].state \in Ended
  BY <1>1, InvFacts DEF Settled
<1>3. Puts(mgr, mgr', s, ses) /\ Settled(ses, s \in failed) /\ ses.state \in Ended
  BY <1>1, <1>2, ReportedFacts
<1> HIDE DEF ses
<1> QED
  BY <1>1, <1>3, StepOfResults

LEMMA InvStutter == ASSUME CompletionInv, UNCHANGED vars PROVE CompletionInv'
<1>1. /\ mgr' = mgr /\ inProgress' = inProgress /\ call' = call /\ offered' = offered
      /\ tokens' = tokens /\ failed' = failed /\ isJetBrains' = isJetBrains
  BY DEF vars
<1>2. ManagerOK(mgr') /\ TypeOK'
  BY <1>1, Zenon DEF CompletionInv, TypeOK
<1>3. \A s \in Names(mgr') : Settled(mgr'.sessions[s], s \in failed')
  BY <1>1 DEF CompletionInv
<1>4. OneAtATime' /\ \A c \in Calls : Position(call'[c], mgr')
  BY <1>1, Zenon DEF CompletionInv, OneAtATime
<1>5. RequestingInFlight' /\ OnlyCurrentActive'
  BY <1>1, Zenon DEF CompletionInv, RequestingInFlight, OnlyCurrentActive
<1> QED
  BY <1>2, <1>3, <1>4, <1>5 DEF CompletionInv

LEMMA InvNext == ASSUME CompletionInv, Next PROVE CompletionInv'
<1>1. CASE \E c \in Calls : Step(c)
  <2>1. PICK c \in Calls : Step(c)
    BY <1>1
  <2> QED
    BY <2>1, StepDocumentRead, StepNothingToDo, StepContextBuilt, StepDiscardReported,
       StepResponse, StepResponseError, StepEndReported, Zenon DEF Step
<1>2. CASE Client
  BY <1>2, StepOnInlineCompletion, StepSessionResults, StepResultsReported, Zenon DEF Client
<1> QED
  BY <1>1, <1>2 DEF Next

(***************************************************************************)
(* Theorems about completions.                                             *)
(***************************************************************************)
\* The invariant holds in every reachable state of onInlineCompletion and its results handler.
THEOREM CompletionInvariance == Spec => []CompletionInv
<1>1. CompletionInv /\ [Next]_vars => CompletionInv'
  BY InvNext, InvStutter
<1> QED
  BY <1>1, InvInit, PTL DEF Spec

\* Every variable of the completion handler has its type, whatever the interleaving: the session
\* manager's logs stay within their limits and a suspended call is at one of its awaits.
THEOREM CompletionTypes == Spec => []TypeOK
  BY CompletionInvariance, PTL DEF CompletionInv

\* No session is left behind as REQUESTING: a call of onInlineCompletion waits for its response.
THEOREM RequestsInFlight == Spec => []RequestingInFlight
  BY CompletionInvariance, PTL DEF CompletionInv

\* The decision about an ended session is sent exactly once, unless a request for it failed.
THEOREM DecisionsReportedOnce == Spec => []ReportedExactlyOnce
<1>1. CompletionInv => ReportedExactlyOnce
  <2> SUFFICES ASSUME CompletionInv PROVE ReportedExactlyOnce
    OBVIOUS
  <2> QED
    BY InvFacts DEF ReportedExactlyOnce, EmittedAtMostOnce, Settled, StateOf
<1> QED
  BY <1>1, CompletionInvariance, PTL

\* Outside JetBrains only the manager's current session can be active.
THEOREM ActiveIsCurrent == Spec => []OnlyCurrentActive
  BY CompletionInvariance, PTL DEF CompletionInv

LEMMA FinalNext == ASSUME CompletionInv, Next PROVE FinalStep(mgr, mgr')
<1>1. ManagerOK(mgr) /\ FinalStep(mgr, mgr)
  BY FinalSame DEF CompletionInv
<1>2. ASSUME NEW c \in Calls, OnInlineCompletion(c) PROVE FinalStep(mgr, mgr')
  <2>1. inProgress = FALSE
    BY <1>2, Zenon DEF OnInlineCompletion, CompletionInv, TypeOK
  <2>2. \E page : mgr' = MarkInflight(mgr, page)
    BY <1>2, Zenon DEF OnInlineCompletion
  <2> QED
    BY <1>1, <2>1, <2>2, NothingMarked
<1>3. ASSUME NEW c \in Calls, DocumentRead(c) \/ NothingToDo(c) PROVE FinalStep(mgr, mgr')
  BY <1>1, <1>3 DEF DocumentRead, NothingToDo
<1>4. ASSUME NEW c \in Calls, ContextBuilt(c) PROVE FinalStep(mgr, mgr')
  <2> DEFINE s == mgr.current
  <2>1. CASE s # NoSession /\ StateOf(mgr, s) = "ACTIVE" /\ ~isJetBrains
    <3>1. mgr' = emitUserTriggerDecision(discardSession(mgr, s), s)
      BY <1>4, <2>1, Zenon DEF ContextBuilt
    <3>2. s \in Names(mgr) /\ mgr.sessions[s].state \notin Ended
      BY <2>1, InvFacts DEF StateOf, Ended
    <3>3. Puts(mgr, mgr', s, Emitted(discard(mgr.sessions[s])))
      BY <1>1, <3>1, <3>2, PutsDiscardEmitted
    <3> QED
      BY <3>2, <3>3, FinalPuts
  <2>2. CASE ~(s # NoSession /\ StateOf(mgr, s) = "ACTIVE" /\ ~isJetBrains)
    <3>1. mgr' = createSession(mgr)
      BY <1>4, <2>2, Zenon DEF ContextBuilt, Request
    <3> QED
      BY <1>1, <3>1, OpensSession, FinalOpens
  <2> QED
    BY <2>1, <2>2
<1>5. ASSUME NEW s \in Names(mgr) PROVE FinalStep(mgr, Reported(mgr, s))
  <2>1. mgr.sessions[s] \in Sessions
    BY InvFacts
  <2>2. Puts(mgr, Reported(mgr, s), s, [mgr.sessions[s] EXCEPT !.report = "sent"])
    BY <1>1, PutsReported
  <2> QED
    BY <2>1, <2>2, DecisionSteps, FinalPuts
<1>6. ASSUME NEW c \in Calls, DiscardReported(c) PROVE FinalStep(mgr, mgr')
  <2> DEFINE s == call[c].session
             k == Reported(mgr, s)
  <2>1. s \in Names(mgr)
    BY <1>6, InvFacts DEF DiscardReported
  <2>2. mgr' = createSession(k)
    BY <1>6 DEF DiscardReported, Request
  <2>3. ManagerOK(k) /\ Names(k) = Names(mgr)
    BY <1>1, <2>1, PutsReported DEF Puts
  <2>4. Opens(k, mgr') /\ FinalStep(mgr, k)
    BY <1>5, <2>1, <2>2, <2>3, OpensSession
  <2> QED
    BY <2>3, <2>4, FinalOpens
<1>7. ASSUME NEW c \in Calls, Response(c), isJetBrains' = isJetBrains PROVE FinalStep(mgr, mgr')
  <2>1. CASE mgr' = mgr
    BY <1>1, <2>1
  <2>2. CASE /\ StateOf(mgr, call[c].session) \notin Ended
             /\ \E shown, more \in BOOLEAN : ProcessSuggestions(c, call[c].session, shown, more)
             /\ UNCHANGED <<failed, isJetBrains>>
    <3>1. PICK shown \in BOOLEAN, more \in BOOLEAN :
              ProcessSuggestions(c, call[c].session, shown, more)
      BY <2>2, Zenon
    <3>2. call[c].at \in {"generating", "paging"}
      BY <1>7 DEF Response
    <3>3. \E x : Puts(mgr, mgr', call[c].session, x)
      BY <2>2, <3>1, <3>2, StepProcessSuggestions, Zenon
    <3> QED
      BY <2>2, <3>3, FinalPuts DEF StateOf
  <2> QED
    BY <1>7, <2>1, <2>2, ResponseCases
<1>8. ASSUME NEW c \in Calls, ResponseError(c) PROVE FinalStep(mgr, mgr')
  <2> DEFINE s == call[c].session
  <2>1. s \in Names(mgr) /\ mgr' = closeSession(mgr, s) /\ mgr.sessions[s] \in Sessions
    BY <1>8, InvFacts DEF ResponseError
  <2>2. Puts(mgr, mgr', s, close(mgr.sessions[s]))
    BY <1>1, <2>1, PutsClosed
  <2>3. mgr.sessions[s].state \in Ended => close(mgr.sessions[s]) = mgr.sessions[s]
    BY <2>1, StateSteps
  <2> QED
    BY <2>2, <2>3, FinalPuts
<1>9. ASSUME NEW c \in Calls, EndReported(c) PROVE FinalStep(mgr, mgr')
  <2>1. call[c].session \in Names(mgr) /\ mgr' = Reported(mgr, call[c].session)
    BY <1>9, InvFacts DEF EndReported
  <2> QED
    BY <1>5, <2>1
<1>10. ASSUME NEW s, SessionResults(s) PROVE FinalStep(mgr, mgr')
  <2>1. s \in Names(mgr) /\ mgr.sessions[s].state \notin Ended /\ \E x : Puts(mgr, mgr', s, x)
    BY <1>10, ResultsFacts DEF Ended
  <2> QED
    BY <2>1, FinalPuts
<1>11. ASSUME NEW s, ResultsReported(s) PROVE FinalStep(mgr, mgr')
  BY <1>5, <1>11 DEF ResultsReported
<1> QED
  BY <1>2, <1>3, <1>4, <1>6, <1>7, <1>8, <1>9, <1>10, <1>11, Zenon DEF Next, Client, Step

\* The decision about an ended session is final: no later page, failure or result changes it.
THEOREM DecisionsFinal == Spec => DecisionIsFinal
<1>1. CompletionInv /\ [Next]_vars => [FinalStep(mgr, mgr')]_vars
  BY FinalNext DEF vars
<1>2. [FinalStep(mgr, mgr')]_vars =>
        [\A s \in Names(mgr) : StateOf(mgr, s) \in Ended =>
            getAggregatedUserTriggerDecision(mgr'.sessions[s])
                = getAggregatedUserTriggerDecision(mgr.sessions[s])]_vars
  BY DEF FinalStep
<1> QED
  BY <1>1, <1>2, CompletionInvariance, PTL DEF Spec, DecisionIsFinal

LEMMA OfferedNext ==
    ASSUME CompletionInv, Next
    PROVE  \A s \in offered' \ offered : StateOf(mgr', s) = "ACTIVE" /\ Found(mgr', s)
<1>1. ASSUME NEW c \in Calls, Response(c), isJetBrains' = isJetBrains
      PROVE  \A s \in offered' \ offered : StateOf(mgr', s) = "ACTIVE" /\ Found(mgr', s)
  BY <1>1, StepResponse DEF StateOf, Found
<1>2. ASSUME \A c \in Calls : ~Response(c) PROVE offered' = offered
  BY <1>2, Zenon DEF Next, Client, Step, OnInlineCompletion, SessionResults, ResultsReported,
     DocumentRead, NothingToDo, ContextBuilt, DiscardReported, ResponseError, EndReported
<1>3. isJetBrains' = isJetBrains
  BY Zenon DEF Next, Client, Step
<1> QED
  BY <1>1, <1>2, <1>3

\* onInlineCompletion returns suggestions only of a session that is active and can be found.
THEOREM OffersActive == Spec => OfferedIsActive
<1>1. CompletionInv /\ [Next]_vars =>
        [\A s \in offered' \ offered : StateOf(mgr', s) = "ACTIVE" /\ Found(mgr', s)]_vars
  BY OfferedNext
<1> QED
  BY <1>1, CompletionInvariance, PTL DEF Spec, OfferedIsActive
=============================================================================
