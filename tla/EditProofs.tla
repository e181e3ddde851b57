----------------------------- MODULE EditProofs -----------------------------
(***************************************************************************)
(* Proofs about edit predictions (EditCompletion), whose calls overlap,    *)
(* for every number of requests and sessions and every size of the logs.   *)
(***************************************************************************)
EXTENDS EditCompletion, SessionProofs

(***************************************************************************)
(* The inductive invariant for edits.  Calls overlap, so a session may end *)
(* while its response is on its way.  What saves it is that nobody else    *)
(* works on that session: until its response comes it is not active, has   *)
(* no results and has sent nothing.  A request that no other one overlaps  *)
(* with finds its session as it left it.                                   *)
(***************************************************************************)
Pending == {"generating", "paging"}

EditSettled(ses) ==
    /\ ses.state \notin Ended => ses.emitted = 0 /\ ses.report = "unsent"
    /\ ses.emitted <= 1

Unanswered(ses) == ses.emitted = 0 /\ ses.state # "ACTIVE" /\ ses.results = "none"

Untouched(ses) == ses.state = "REQUESTING" /\ ses.discardInflight = FALSE

EditRequests(m) ==
    [at: Awaits, page: {NoSession} \cup Names(m), before: {NoSession} \cup Names(m),
     session: {NoSession} \cup Names(m), alone: BOOLEAN]

EditPosition(r, m) ==
    /\ r.at = "idle" => r.session = NoSession
    /\ r.at \in Pending \cup {"discarding", "dropping"} => r.session # NoSession
    /\ r.at = "paging" => r.before # NoSession
    /\ r.at = "discarding" => m.sessions[r.session].state \in Ended
    /\ r.at = "dropping" => m.sessions[r.session].state = "DISCARD" /\ r.alone = FALSE
    /\ r.at \in Pending =>
        /\ Unanswered(m.sessions[r.session])
        /\ r.alone = TRUE => r.session = m.current /\ Untouched(m.sessions[r.session])

EditAlone ==
    \A c, d \in Calls :
        call[c].alone = TRUE /\ call[c].at # "idle" /\ call[d].at # "idle" => c = d

EditApart ==
    \A c, d \in Calls : call[c].at \in Pending /\ c # d => call[d].session # call[c].session

EditInv ==
    /\ ManagerOK(mgr)
    /\ \A s \in Names(mgr) : EditSettled(mgr.sessions[s])
    /\ call \in [Calls -> EditRequests(mgr)]
    /\ \A c \in Calls : EditPosition(call[c], mgr)
    /\ EditAlone /\ EditApart
    /\ tokens \subseteq Names(mgr) /\ \A o \in offered : o.session \in Names(mgr)

LEMMA EditInit == Init => EditInv
<1> SUFFICES ASSUME Init PROVE EditInv
  OBVIOUS
<1>1. mgr = NewManager /\ tokens = {} /\ offered = {} /\ call = [c \in Calls |-> Idle]
  BY DEF Init
<1>2. Names(mgr) = {} /\ ManagerOK(mgr)
  BY <1>1, SizeFacts DEF NewManager, ManagerOK, IsManager, Names
<1>3. Idle \in EditRequests(mgr) /\ EditPosition(Idle, mgr) /\ Idle.at = "idle"
  BY DEF Idle, Awaits, EditRequests, EditPosition, Pending
<1>4. \A c \in Calls : call[c] = Idle
  BY <1>1
<1>5. EditAlone /\ EditApart
  BY <1>3, <1>4 DEF EditAlone, EditApart, Pending
<1> QED
  BY <1>1, <1>2, <1>3, <1>4, <1>5 DEF EditInv

\* What a step leaves of session old: it does not reopen.
Lasting(old, ses) ==
    /\ old.state \in Ended => ses.state \in Ended
    /\ old.state = "DISCARD" => ses.state = "DISCARD"

LEMMA EditFacts ==
    ASSUME EditInv, NEW d \in Calls
    PROVE  /\ call[d] \in EditRequests(mgr) /\ EditPosition(call[d], mgr)
           /\ call[d].alone \in BOOLEAN
           /\ call[d].at \in Pending \cup {"discarding", "dropping"} => call[d].session \in Names(mgr)
           /\ call[d].before \in {NoSession} \cup Names(mgr)
           /\ call[d].page \in {NoSession} \cup Names(mgr)
<1>1. call[d] \in EditRequests(mgr) /\ EditPosition(call[d], mgr)
  BY DEF EditInv
<1>2. call[d].alone \in BOOLEAN
  BY <1>1, Zenon DEF EditRequests
<1> QED
  BY <1>1, <1>2 DEF EditRequests, EditPosition

LEMMA EditSessionFacts ==
    ASSUME EditInv, NEW s \in Names(mgr)
    PROVE  /\ ManagerOK(mgr) /\ mgr.sessions[s] \in Sessions /\ EditSettled(mgr.sessions[s])
           /\ s # NoSession
  BY NamesFacts DEF EditInv

\* Call d after another actor has changed session s.
LEMMA OtherCalls ==
    ASSUME EditInv, NEW n, NEW s, NEW ses, Puts(mgr, n, s, ses), NEW d \in Calls,
           Lasting(mgr.sessions[s], ses),
           call[d].at \in Pending /\ call[d].session = s =>
             Unanswered(ses) /\ (call[d].alone = TRUE => Untouched(ses))
    PROVE  EditPosition(call[d], n)
<1>1. /\ EditPosition(call[d], mgr)
      /\ call[d].at \in Pending \cup {"discarding", "dropping"} => call[d].session \in Names(mgr)
  BY EditFacts
<1>2. n.current = mgr.current /\ n.sessions[s] = ses
      /\ \A t \in Names(mgr) \ {s} : n.sessions[t] = mgr.sessions[t]
  BY DEF Puts
<1>3. CASE call[d].session = s
  BY <1>1, <1>2, <1>3 DEF EditPosition, Lasting, Pending
<1>4. CASE call[d].session # s
  BY <1>1, <1>2, <1>4 DEF EditPosition, Pending
<1> QED
  BY <1>3, <1>4

\* Call d, which is not alone, after another one has created a session.
LEMMA OtherCallsOpens ==
    ASSUME EditInv, NEW k, NEW n, Opens(k, n), Names(k) = Names(mgr), NEW d \in Calls,
           EditPosition(call[d], k), call[d].at # "idle" => call[d].alone = FALSE
    PROVE  EditPosition(call[d], n)
<1>1. call[d].at \in Pending \cup {"discarding", "dropping"} => call[d].session \in Names(mgr)
  BY EditFacts
<1>2. \A t \in Names(mgr) : n.sessions[t] = k.sessions[t]
  BY DEF Opens
<1> QED
  BY <1>1, <1>2 DEF EditPosition, Pending

\* The step of a busy call c, for the calls.
LEMMA EditStep ==
    ASSUME EditInv, NEW c \in Calls, call[c].at # "idle", NEW r, r \in EditRequests(mgr'),
           call' = [call EXCEPT ![c] = r], r.at = "idle" \/ r.alone = call[c].alone,
           ManagerOK(mgr'), Names(mgr) \subseteq Names(mgr'),
           \A s \in Names(mgr') : EditSettled(mgr'.sessions[s]),
           tokens' \subseteq Names(mgr'), \A o \in offered' : o.session \in Names(mgr'),
           EditPosition(r, mgr'), \A d \in Calls \ {c} : EditPosition(call[d], mgr'),
           \A d \in Calls \ {c} : call[d].at \in Pending => call[d].session # r.session,
           r.at \in Pending => \A d \in Calls \ {c} : call[d].session # r.session
    PROVE  EditInv'
<1>1. call \in [Calls -> EditRequests(mgr)] /\ EditRequests(mgr) \subseteq EditRequests(mgr')
  BY DEF EditInv, EditRequests
<1>2. call'[c] = r /\ \A d \in Calls \ {c} : call'[d] = call[d]
  BY <1>1
<1>3. call' \in [Calls -> EditRequests(mgr')]
  BY <1>1
<1>4. \A d \in Calls : EditPosition(call'[d], mgr')
  BY <1>2
<1>5. EditAlone'
  <2> SUFFICES ASSUME NEW a \in Calls, NEW b \in Calls, call'[a].alone = TRUE,
                      call'[a].at # "idle", call'[b].at # "idle"
               PROVE  a = b
    BY DEF EditAlone
  <2>1. call[a].alone = TRUE /\ call[a].at # "idle" /\ call[b].at # "idle"
    BY <1>2
  <2> QED
    BY <2>1 DEF EditInv, EditAlone
<1>6. EditApart'
  BY <1>2 DEF EditInv, EditApart
<1> QED
  BY <1>3, <1>4, <1>5, <1>6 DEF EditInv

\* A call that overlaps with another one is not alone.
LEMMA Crowded ==
    ASSUME EditInv, NEW c \in Calls, call[c].at # "idle", NEW d \in Calls \ {c}
    PROVE  call[d].at # "idle" => call[d].alone = FALSE
<1>1. call[d].alone \in BOOLEAN
  BY EditFacts, Zenon
<1>2. call[d].at # "idle" => ~(call[d].alone = TRUE)
  BY DEF EditInv, EditAlone
<1> QED
  BY <1>1, <1>2, Zenon

\* Request r at its next await.
Moved(r, at, s) ==
    [at |-> at, page |-> r.page, before |-> r.before, session |-> s, alone |-> r.alone]

LEMMA EditAwaitCall ==
    ASSUME EditInv, NEW c \in Calls, NEW at, NEW s, Await(c, at, s)
    PROVE  call' = [call EXCEPT ![c] = Moved(call[c], at, s)]
<1> DEFINE x == [[call[c] EXCEPT !.at = at] EXCEPT !.session = s]
<1>1. call \in [Calls -> EditRequests(mgr)] /\ call[c] \in EditRequests(mgr)
  BY DEF EditInv
<1>2. x \in [at: {at}, page: {call[c].page}, before: {call[c].before}, session: {s},
             alone: {call[c].alone}]
  BY <1>1 DEF EditRequests
<1>3. call' = [call EXCEPT ![c] = x]
  BY <1>1 DEF Await
<1> HIDE DEF x
<1>4. x = Moved(call[c], at, s)
  BY <1>2 DEF Moved
<1> QED
  BY <1>3, <1>4

LEMMA MovedFacts ==
    ASSUME EditInv, NEW c \in Calls, NEW m, Names(mgr) \subseteq Names(m),
           NEW at \in Awaits, NEW s \in {NoSession} \cup Names(m)
    PROVE  /\ Moved(call[c], at, s) \in EditRequests(m)
           /\ Moved(call[c], at, s).at = at /\ Moved(call[c], at, s).session = s
           /\ Moved(call[c], at, s).before = call[c].before
           /\ Moved(call[c], at, s).alone = call[c].alone
<1>1. call[c] \in EditRequests(mgr)
  BY DEF EditInv
<1>2. /\ call[c].page \in {NoSession} \cup Names(m) /\ call[c].before \in {NoSession} \cup Names(m)
      /\ call[c].alone \in BOOLEAN
  BY <1>1, EditFacts
<1> QED
  BY <1>2 DEF Moved, EditRequests

LEMMA EditIdle ==
    ASSUME NEW m
    PROVE  /\ Idle \in EditRequests(m) /\ Idle.at = "idle" /\ Idle.session = NoSession
           /\ EditPosition(Idle, m)
  BY DEF Idle, Awaits, EditRequests, EditPosition, Pending

\* A step of call c that changes one session and waits for no response.
LEMMA EditPuts ==
    ASSUME EditInv, NEW c \in Calls, call[c].at # "idle", NEW r, r \in EditRequests(mgr),
           call' = [call EXCEPT ![c] = r], r.at = "idle" \/ r.alone = call[c].alone,
           NEW s \in Names(mgr), NEW ses, Puts(mgr, mgr', s, ses), EditSettled(ses),
           Lasting(mgr.sessions[s], ses),
           tokens' \subseteq Names(mgr), \A o \in offered' : o.session \in Names(mgr),
           EditPosition(r, mgr'), r.at \notin Pending,
           \A d \in Calls \ {c} : call[d].at \in Pending =>
              call[d].session # r.session /\ (call[d].session = s => Unanswered(ses))
    PROVE  EditInv'
<1>1. /\ ManagerOK(mgr') /\ Names(mgr') = Names(mgr) /\ mgr'.sessions[s] = ses
      /\ \A t \in Names(mgr) \ {s} : mgr'.sessions[t] = mgr.sessions[t]
  BY DEF Puts
<1>2. \A t \in Names(mgr') : EditSettled(mgr'.sessions[t])
  <2> SUFFICES ASSUME NEW t \in Names(mgr) PROVE EditSettled(mgr'.sessions[t])
    BY <1>1
  <2>1. EditSettled(mgr.sessions[t])
    BY EditSessionFacts
  <2> QED
    BY <1>1, <2>1
<1>3. ASSUME NEW d \in Calls \ {c} PROVE EditPosition(call[d], mgr')
  <2>1. call[d].at \in Pending /\ call[d].session = s =>
          Unanswered(ses) /\ (call[d].alone = TRUE => Untouched(ses))
    BY Crowded DEF Pending
  <2> QED
    BY <2>1, OtherCalls
<1>4. r \in EditRequests(mgr')
  BY <1>1 DEF EditRequests
<1> QED
  BY <1>1, <1>2, <1>3, <1>4, EditStep

\* A step of call c that leaves the manager alone and gives up its session.
LEMMA EditSame ==
    ASSUME EditInv, NEW c \in Calls, call[c].at # "idle", NEW r, r \in EditRequests(mgr),
           call' = [call EXCEPT ![c] = r], r.at = "idle" \/ r.alone = call[c].alone,
           r.session = NoSession, r.at \in {"idle", "edits", "context"},
           UNCHANGED <<mgr, offered, tokens>>
    PROVE  EditInv'
<1>1. EditPosition(r, mgr') /\ r.at \notin Pending
  BY DEF EditPosition, Pending
<1>2. \A d \in Calls : EditPosition(call[d], mgr')
  BY EditFacts
<1>3. \A d \in Calls : call[d].at \in Pending => call[d].session # r.session
  BY EditFacts, EditSessionFacts
<1>4. /\ ManagerOK(mgr') /\ Names(mgr') = Names(mgr)
      /\ \A s \in Names(mgr') : EditSettled(mgr'.sessions[s])
      /\ tokens' \subseteq Names(mgr') /\ \A o \in offered' : o.session \in Names(mgr')
  BY DEF EditInv
<1>5. r \in EditRequests(mgr')
  OBVIOUS
<1> QED
  BY <1>1, <1>2, <1>3, <1>4, <1>5, EditStep

\* Call c creates a session, in a manager k that has the sessions of mgr, and asks for its edits.
LEMMA EditOpens ==
    ASSUME EditInv, NEW c \in Calls, call[c].at # "idle", NEW k, ManagerOK(k), Names(k) = Names(mgr),
           \A s \in Names(mgr) : EditSettled(k.sessions[s]),
           \A d \in Calls \ {c} : EditPosition(call[d], k),
           NEW at \in Pending, at = "paging" => call[c].before # NoSession,
           mgr' = createSession(k), Await(c, at, Len(k.sessions) + 1),
           UNCHANGED <<offered, tokens>>
    PROVE  EditInv'
<1> DEFINE new == Len(k.sessions) + 1
           r == Moved(call[c], at, new)
<1>1. Opens(k, mgr') /\ new \notin Names(mgr) /\ new # NoSession
  BY OpensSession, NamesFacts DEF NoSession
<1>2. /\ ManagerOK(mgr') /\ Names(mgr') = Names(mgr) \cup {new} /\ mgr'.current = new
      /\ mgr'.sessions[new] = NewSession
      /\ \A t \in Names(mgr) : mgr'.sessions[t] = k.sessions[t]
  BY <1>1 DEF Opens
<1> HIDE DEF new
<1>3. at \in Awaits /\ call' = [call EXCEPT ![c] = r]
  BY EditAwaitCall DEF Pending, Awaits, new
<1>4. /\ r \in EditRequests(mgr') /\ r.at = at /\ r.session = new /\ r.before = call[c].before
      /\ r.alone = call[c].alone
  BY <1>2, <1>3, MovedFacts
<1> HIDE DEF r
<1>5. EditPosition(r, mgr')
  BY <1>1, <1>2, <1>4 DEF EditPosition, Pending, Unanswered, Untouched, NewSession
<1>6. \A d \in Calls \ {c} : EditPosition(call[d], mgr')
  BY <1>1, Crowded, OtherCallsOpens
<1>7. \A d \in Calls : call[d].session # new
  <2>1. \A d \in Calls : call[d].session \in {NoSession} \cup Names(mgr)
    BY DEF EditInv, EditRequests
  <2> QED
    BY <1>1, <2>1
<1>8. \A t \in Names(mgr') : EditSettled(mgr'.sessions[t])
  <2>1. EditSettled(NewSession)
    BY DEF EditSettled, NewSession, Ended
  <2> QED
    BY <1>2, <2>1
<1>9. tokens' \subseteq Names(mgr') /\ \A o \in offered' : o.session \in Names(mgr')
  BY <1>2 DEF EditInv
<1>10. /\ Names(mgr) \subseteq Names(mgr') /\ \A d \in Calls \ {c} : call[d].session # r.session
       /\ r.at = "idle" \/ r.alone = call[c].alone
  BY <1>2, <1>4, <1>7
<1> QED
  BY <1>2, <1>3, <1>4, <1>5, <1>6, <1>8, <1>9, <1>10, EditStep, Zenon

\* Marking a session changes neither its state nor what was recorded or sent.
LEMMA MarkFacts ==
    ASSUME NEW m, ManagerOK(m), NEW page
    PROVE  /\ ManagerOK(MarkInflight(m, page)) /\ Names(MarkInflight(m, page)) = Names(m)
           /\ \A t \in Names(m) :
                /\ MarkInflight(m, page).sessions[t].state = m.sessions[t].state
                /\ MarkInflight(m, page).sessions[t].emitted = m.sessions[t].emitted
                /\ MarkInflight(m, page).sessions[t].report = m.sessions[t].report
                /\ MarkInflight(m, page).sessions[t].results = m.sessions[t].results
<1> DEFINE s == m.current
           ses == [m.sessions[s] EXCEPT !.discardInflight = TRUE]
           n == [m EXCEPT !.sessions = [m.sessions EXCEPT ![s] = ses]]
<1>1. CASE s # NoSession /\ MarkInflight(m, page) = n
  <2>1. s \in Names(m) /\ m.sessions[s] \in Sessions
    BY <1>1, NamesFacts DEF ManagerOK, IsManager
  <2>2. ses \in Sessions
    BY <2>1, SessionTypes, Zenon
  <2>3. /\ ses.state = m.sessions[s].state /\ ses.emitted = m.sessions[s].emitted
        /\ ses.report = m.sessions[s].report /\ ses.results = m.sessions[s].results
    BY <2>1 DEF Sessions
  <2> HIDE DEF ses, s
  <2>4. Puts(m, n, s, ses)
    BY <2>1, <2>2, PutsSession
  <2> HIDE DEF n
  <2> QED
    BY <1>1, <2>3, <2>4 DEF Puts
<1>2. CASE MarkInflight(m, page) = m
  BY <1>2
<1> QED
  BY <1>1, <1>2, Zenon DEF MarkInflight

LEMMA EditOnEditCompletion ==
    ASSUME EditInv, NEW c \in Calls, OnEditCompletion(c) PROVE EditInv'
<1>1. PICK page \in {NoSession} \cup tokens :
        /\ mgr' = MarkInflight(mgr, page)
        /\ call' = [d \in Calls |->
                        IF d = c THEN [at |-> "document", page |-> page, before |-> mgr.current,
                                       session |-> NoSession, alone |-> Busy = {}]
                        ELSE [call[d] EXCEPT !.alone = (d \notin Busy)]]
  BY Zenon DEF OnEditCompletion
<1>2. call[c].at = "idle" /\ UNCHANGED <<offered, tokens>>
  BY DEF OnEditCompletion
<1>3. /\ ManagerOK(mgr') /\ Names(mgr') = Names(mgr)
      /\ \A t \in Names(mgr) :
            /\ mgr'.sessions[t].state = mgr.sessions[t].state
            /\ mgr'.sessions[t].emitted = mgr.sessions[t].emitted
            /\ mgr'.sessions[t].report = mgr.sessions[t].report
            /\ mgr'.sessions[t].results = mgr.sessions[t].results
  BY <1>1, MarkFacts DEF EditInv
<1>4. PICK b \in BOOLEAN :
        /\ call'[c] = [at |-> "document", page |-> page, before |-> mgr.current,
                       session |-> NoSession, alone |-> b]
        /\ b = TRUE => Busy = {}
  <2> DEFINE b == Busy = {}
  <2>1. b \in BOOLEAN /\ (b = TRUE => Busy = {})
    OBVIOUS
  <2>2. call'[c] = [at |-> "document", page |-> page, before |-> mgr.current,
                    session |-> NoSession, alone |-> b]
    BY <1>1, Zenon
  <2> HIDE DEF b
  <2> QED
    BY <2>1, <2>2, Zenon
<1>5. ASSUME NEW d \in Calls \ {c}
      PROVE  \E e \in BOOLEAN : /\ call'[d] = [call[d] EXCEPT !.alone = e]
                                /\ call[d].at # "idle" => e = FALSE
  <2> DEFINE e == d \notin Busy
  <2>1. e \in BOOLEAN
    OBVIOUS
  <2>2. call[d].at # "idle" => e = FALSE
    BY DEF Busy
  <2>3. call'[d] = [call[d] EXCEPT !.alone = e]
    BY <1>1, Zenon
  <2> HIDE DEF e
  <2> QED
    BY <2>1, <2>2, <2>3, Zenon
<1>6. ASSUME NEW d \in Calls \ {c}
      PROVE  /\ call'[d] \in EditRequests(mgr') /\ call'[d].at = call[d].at
             /\ call'[d].session = call[d].session /\ call'[d].before = call[d].before
             /\ call[d].at # "idle" => call'[d].alone = FALSE
  <2>1. PICK e \in BOOLEAN : /\ call'[d] = [call[d] EXCEPT !.alone = e]
                             /\ call[d].at # "idle" => e = FALSE
    BY <1>5
  <2>2. call[d] \in EditRequests(mgr) /\ EditRequests(mgr') = EditRequests(mgr)
    BY <1>3, EditFacts DEF EditRequests
  <2> QED
    BY <2>1, <2>2 DEF EditRequests
<1>7. call'[c] \in EditRequests(mgr') /\ EditPosition(call'[c], mgr')
  <2>1. page \in {NoSession} \cup Names(mgr') /\ mgr.current \in {NoSession} \cup Names(mgr')
        /\ "document" \in Awaits
    BY <1>3 DEF EditInv, ManagerOK, IsManager, Awaits
  <2> QED
    BY <1>4, <2>1 DEF EditRequests, EditPosition, Pending
<1>8. call' \in [Calls -> EditRequests(mgr')]
  <2>1. \A d \in Calls : call'[d] \in EditRequests(mgr')
    BY <1>6, <1>7
  <2>2. DOMAIN call' = Calls /\ call' = [d \in DOMAIN call' |-> call'[d]]
    BY <1>1, Zenon
  <2> QED
    BY <2>1, <2>2, Zenon
<1>9. ASSUME NEW d \in Calls PROVE EditPosition(call'[d], mgr')
  <2>1. CASE d = c
    BY <1>7, <2>1
  <2>2. CASE d # c /\ call[d].at = "idle"
    <3>1. call[d].session = NoSession
      BY <2>2, EditFacts DEF EditPosition
    <3>2. call'[d].at = "idle" /\ call'[d].session = NoSession
      BY <1>6, <2>2, <3>1
    <3> QED
      BY <3>2 DEF EditPosition, Pending
  <2>3. CASE d # c /\ call[d].at # "idle"
    <3>1. /\ call'[d].at = call[d].at /\ call'[d].session = call[d].session
          /\ call'[d].before = call[d].before /\ call'[d].alone = FALSE
      BY <1>6, <2>3
    <3>2. /\ EditPosition(call[d], mgr)
          /\ call[d].at \in Pending \cup {"discarding", "dropping"} => call[d].session \in Names(mgr)
      BY EditFacts
    <3> QED
      BY <1>3, <3>1, <3>2 DEF EditPosition, Pending, Unanswered
  <2> QED
    BY <2>1, <2>2, <2>3
<1>10. EditAlone'
  <2> SUFFICES ASSUME NEW a \in Calls, NEW b1 \in Calls, call'[a].alone = TRUE,
                      call'[a].at # "idle", call'[b1].at # "idle", a # b1
               PROVE  FALSE
    BY DEF EditAlone
  <2>1. a = c
    BY <1>6
  <2>2. b1 # c /\ call[b1].at # "idle"
    BY <1>6, <2>1
  <2>3. b = TRUE
    BY <1>4, <2>1
  <2> QED
    BY <1>4, <2>2, <2>3 DEF Busy
<1>11. EditApart'
  <2>1. call'[c].session = NoSession /\ call'[c].at = "document"
    BY <1>4
  <2>2. \A d \in Calls \ {c} : call[d].at \in Pending => call[d].session # NoSession
    BY EditFacts DEF EditPosition
  <2> SUFFICES ASSUME NEW a \in Calls, NEW d \in Calls, call'[a].at \in Pending, a # d
               PROVE  call'[d].session # call'[a].session
    BY DEF EditApart
  <2>3. a # c /\ call'[a].session = call[a].session /\ call[a].at \in Pending
    BY <1>6, <2>1 DEF Pending
  <2>4. CASE d = c
    BY <2>1, <2>2, <2>3, <2>4
  <2>5. CASE d # c
    <3>1. call'[d].session = call[d].session
      BY <1>6, <2>5
    <3> QED
      BY <2>3, <3>1 DEF EditInv, EditApart
  <2> QED
    BY <2>4, <2>5
<1>12. \A s \in Names(mgr') : EditSettled(mgr'.sessions[s])
  BY <1>3, EditSessionFacts DEF EditSettled
<1>13. tokens' \subseteq Names(mgr') /\ \A o \in offered' : o.session \in Names(mgr')
  BY <1>2, <1>3 DEF EditInv
<1> QED
  BY <1>3, <1>8, <1>9, <1>10, <1>11, <1>12, <1>13 DEF EditInv

\* Call c goes on without a session.
LEMMA EditGoesOn ==
    ASSUME EditInv, NEW c \in Calls, call[c].at # "idle", NEW at \in {"edits", "context"},
           Await(c, at, NoSession), UNCHANGED <<mgr, offered, tokens>>
    PROVE  EditInv'
<1> DEFINE r == Moved(call[c], at, NoSession)
<1>1. call' = [call EXCEPT ![c] = r]
  BY EditAwaitCall
<1>2. at \in Awaits
  BY DEF Awaits
<1>3. /\ r \in EditRequests(mgr) /\ r.at = at /\ r.session = NoSession
      /\ r.alone = call[c].alone
  <2>1. /\ call[c].page \in {NoSession} \cup Names(mgr) /\ call[c].before \in {NoSession} \cup Names(mgr)
        /\ call[c].alone \in BOOLEAN
    BY EditFacts
  <2> QED
    BY <1>2, <2>1 DEF Moved, EditRequests
<1> HIDE DEF r
<1> QED
  BY <1>1, <1>3, EditSame

\* A call that gives up, or that goes on before it has a session.
LEMMA EditWithoutSession ==
    ASSUME EditInv, NEW c \in Calls,
           NothingToDo(c) \/ NotTriggered(c) \/ EditsRead(c)
    PROVE  EditInv' /\ mgr' = mgr /\ offered' = offered
<1>1. call[c].at # "idle" /\ UNCHANGED <<mgr, offered, tokens>>
  BY DEF NothingToDo, NotTriggered, EditsRead
<1>2. CASE NothingToDo(c) \/ NotTriggered(c)
  <2>1. call' = [call EXCEPT ![c] = Idle]
    BY <1>2 DEF NothingToDo, NotTriggered, Finish
  <2> QED
    BY <1>1, <2>1, EditIdle, EditSame
<1>3. CASE EditsRead(c)
  <2>1. Await(c, "context", NoSession)
    BY <1>3 DEF EditsRead
  <2> QED
    BY <1>1, <2>1, EditGoesOn
<1> QED
  BY <1>1, <1>2, <1>3

\* An active session that is discarded is nobody's to answer.
LEMMA DiscardFacts ==
    ASSUME EditInv, NEW s \in Names(mgr), mgr.sessions[s].state = "ACTIVE"
    PROVE  /\ \A d \in Calls : call[d].at \in Pending => call[d].session # s
           /\ EditSettled(discard(mgr.sessions[s])) /\ EditSettled(Emitted(discard(mgr.sessions[s])))
           /\ Lasting(mgr.sessions[s], discard(mgr.sessions[s]))
           /\ Lasting(mgr.sessions[s], Emitted(discard(mgr.sessions[s])))
           /\ Emitted(discard(mgr.sessions[s])).state = "DISCARD"
<1>1. mgr.sessions[s] \in Sessions /\ EditSettled(mgr.sessions[s])
  BY EditSessionFacts
<1>2. \A d \in Calls : call[d].at \in Pending => call[d].session # s
  BY EditFacts DEF EditPosition, Unanswered
<1>3. mgr.sessions[s].emitted = 0 /\ mgr.sessions[s].state \notin Ended
  BY <1>1 DEF EditSettled, Ended
<1>4. EditSettled(discard(mgr.sessions[s])) /\ EditSettled(Emitted(discard(mgr.sessions[s])))
  BY <1>1, <1>3 DEF EditSettled, discard, Emitted, Sessions, Ended
<1>5. Emitted(discard(mgr.sessions[s])).state = "DISCARD" /\ discard(mgr.sessions[s]).state = "DISCARD"
  BY <1>1 DEF discard, Emitted, Sessions
<1> QED
  BY <1>2, <1>3, <1>4, <1>5 DEF Lasting, Ended

\* The manager that DocumentRead creates a page's session in.
Cleared(m, s) ==
    IF s # NoSession /\ StateOf(m, s) = "ACTIVE" THEN discardSession(m, s) ELSE m

LEMMA ClearedFacts ==
    ASSUME EditInv, NEW s \in {NoSession} \cup Names(mgr)
    PROVE  /\ ManagerOK(Cleared(mgr, s)) /\ Names(Cleared(mgr, s)) = Names(mgr)
           /\ \A t \in Names(mgr) : EditSettled(Cleared(mgr, s).sessions[t])
           /\ \A d \in Calls : EditPosition(call[d], Cleared(mgr, s))
           /\ FinalStep(mgr, Cleared(mgr, s))
<1>1. CASE s # NoSession /\ mgr.sessions[s].state = "ACTIVE"
  <2> DEFINE n == discardSession(mgr, s)
             ses == discard(mgr.sessions[s])
  <2>1. Cleared(mgr, s) = n /\ s \in Names(mgr)
    BY <1>1 DEF Cleared, StateOf
  <2>2. Puts(mgr, n, s, ses)
    BY <2>1, PutsDiscard DEF EditInv
  <2>3. /\ EditSettled(ses) /\ Lasting(mgr.sessions[s], ses)
        /\ \A d \in Calls : call[d].at \in Pending => call[d].session # s
    BY <1>1, <2>1, DiscardFacts
  <2> HIDE DEF n, ses
  <2>4. \A d \in Calls : EditPosition(call[d], n)
    BY <2>2, <2>3, OtherCalls
  <2>5. \A t \in Names(mgr) : EditSettled(n.sessions[t])
    BY <2>2, <2>3, EditSessionFacts DEF Puts
  <2>6. FinalStep(mgr, n)
    BY <1>1, <2>2, FinalPuts DEF Ended
  <2> QED
    BY <2>1, <2>2, <2>4, <2>5, <2>6 DEF Puts
<1>2. CASE ~(s # NoSession /\ mgr.sessions[s].state = "ACTIVE")
  <2>1. Cleared(mgr, s) = mgr
    BY <1>2 DEF Cleared, StateOf
  <2> QED
    BY <2>1, FinalSame DEF EditInv
<1> QED
  BY <1>1, <1>2

LEMMA EditDocumentRead ==
    ASSUME EditInv, NEW c \in Calls, DocumentRead(c)
    PROVE  EditInv' /\ FinalStep(mgr, mgr') /\ offered' = offered
<1> DEFINE before == call[c].before
           k == Cleared(mgr, before)
<1>1. call[c].at = "document" /\ UNCHANGED <<offered, tokens>>
  BY DEF DocumentRead
<1>2. Names(mgr) = DOMAIN mgr.sessions /\ before \in {NoSession} \cup Names(mgr)
  BY EditFacts DEF Names
<1>3. \/ /\ before # NoSession /\ mgr' = createSession(k)
         /\ Await(c, "paging", Len(mgr.sessions) + 1)
      \/ mgr' = mgr /\ Await(c, "edits", NoSession)
  <2>1. (IF before # NoSession /\ StateOf(mgr, before) = "ACTIVE"
         THEN discardSession(mgr, before) ELSE mgr) = k
    BY DEF Cleared
  <2> HIDE DEF k
  <2> QED
    BY <2>1 DEF DocumentRead
<1>4. CASE /\ before # NoSession /\ mgr' = createSession(k)
           /\ Await(c, "paging", Len(mgr.sessions) + 1)
  <2>1. /\ ManagerOK(k) /\ Names(k) = Names(mgr)
        /\ \A t \in Names(mgr) : EditSettled(k.sessions[t])
        /\ \A d \in Calls : EditPosition(call[d], k)
        /\ FinalStep(mgr, k)
    BY <1>2, ClearedFacts
  <2>2. Len(k.sessions) = Len(mgr.sessions)
    BY <2>1, NamesFacts DEF EditInv
  <2>3. Opens(k, mgr')
    BY <1>4, <2>1, OpensSession
  <2>4. FinalStep(mgr, mgr')
    BY <2>1, <2>3, FinalOpens
  <2> HIDE DEF k
  <2>5. "paging" \in Pending /\ call[c].at # "idle"
    BY <1>1 DEF Pending
  <2>6. EditInv'
    BY <1>1, <1>4, <2>1, <2>2, <2>5, EditOpens
  <2> QED
    BY <1>1, <2>4, <2>6
<1>5. CASE mgr' = mgr /\ Await(c, "edits", NoSession)
  <2>1. EditInv'
    BY <1>1, <1>5, EditGoesOn
  <2> QED
    BY <1>1, <1>5, <2>1, FinalSame
<1> QED
  BY <1>3, <1>4, <1>5

\* Call c discards session s, sends its decision and waits for the end of the report.
LEMMA EditReporting ==
    ASSUME EditInv, NEW c \in Calls, call[c].at # "idle", NEW s \in Names(mgr), NEW ses,
           Puts(mgr, mgr', s, ses), EditSettled(ses), Lasting(mgr.sessions[s], ses),
           ses.state = "DISCARD", NEW at \in {"discarding", "dropping"},
           at = "dropping" => call[c].alone = FALSE, Await(c, at, s),
           UNCHANGED <<offered, tokens>>,
           \A d \in Calls \ {c} : call[d].at \in Pending => call[d].session # s
    PROVE  EditInv'
<1> DEFINE r == Moved(call[c], at, s)
<1>1. call' = [call EXCEPT ![c] = r]
  BY EditAwaitCall
<1>2. /\ r \in EditRequests(mgr) /\ r.at = at /\ r.session = s /\ r.before = call[c].before
      /\ r.alone = call[c].alone
  <2>1. /\ call[c].page \in {NoSession} \cup Names(mgr) /\ call[c].before \in {NoSession} \cup Names(mgr)
        /\ call[c].alone \in BOOLEAN
    BY EditFacts
  <2>2. at \in Awaits
    BY DEF Awaits
  <2> QED
    BY <2>1, <2>2 DEF Moved, EditRequests
<1> HIDE DEF r
<1>3. mgr'.sessions[s] = ses /\ s # NoSession
  BY EditSessionFacts DEF Puts
<1>4. EditPosition(r, mgr') /\ r.at \notin Pending
  BY <1>2, <1>3 DEF EditPosition, Pending, Ended
<1>5. tokens' \subseteq Names(mgr) /\ \A o \in offered' : o.session \in Names(mgr)
  BY DEF EditInv
<1>6. \A d \in Calls \ {c} : call[d].at \in Pending =>
          call[d].session # r.session /\ (call[d].session = s => Unanswered(ses))
  BY <1>2
<1>7. r \in EditRequests(mgr) /\ (r.at = "idle" \/ r.alone = call[c].alone)
  BY <1>2
<1> QED
  BY <1>1, <1>4, <1>5, <1>6, <1>7, EditPuts

LEMMA EditContextBuilt ==
    ASSUME EditInv, NEW c \in Calls, ContextBuilt(c)
    PROVE  EditInv' /\ FinalStep(mgr, mgr') /\ offered' = offered
<1> DEFINE s == call[c].before
<1>1. call[c].at = "context" /\ UNCHANGED <<offered, tokens>> /\ s \in {NoSession} \cup Names(mgr)
  BY EditFacts DEF ContextBuilt
<1>2. CASE s # NoSession /\ StateOf(mgr, s) = "ACTIVE"
  <2> DEFINE ses == Emitted(discard(mgr.sessions[s]))
  <2>1. s # NoSession /\ StateOf(mgr, s) = "ACTIVE"
    BY <1>2
  <2>2. /\ mgr' = emitUserTriggerDecision(discardSession(mgr, s), s)
        /\ Await(c, "discarding", s)
    BY <2>1 DEF ContextBuilt
  <2>3. mgr' = emitUserTriggerDecision(discardSession(mgr, s), s)
    BY <2>2
  <2>4. s \in Names(mgr) /\ ManagerOK(mgr) /\ mgr.sessions[s].state = "ACTIVE"
    BY <1>1, <1>2 DEF EditInv, StateOf
  <2> HIDE DEF s
  <2>5. Puts(mgr, mgr', s, ses)
    BY <2>3, <2>4, PutsDiscardEmitted
  <2>6. /\ \A d \in Calls : call[d].at \in Pending => call[d].session # s
        /\ EditSettled(ses) /\ Lasting(mgr.sessions[s], ses) /\ ses.state = "DISCARD"
    BY <2>4, DiscardFacts
  <2> HIDE DEF ses
  <2>7. EditInv'
    BY <1>1, <2>2, <2>4, <2>5, <2>6, EditReporting
  <2>8. FinalStep(mgr, mgr')
    BY <2>4, <2>5, FinalPuts DEF Ended
  <2> QED
    BY <1>1, <2>7, <2>8
<1>3. CASE ~(s # NoSession /\ StateOf(mgr, s) = "ACTIVE")
  <2>1. ~(s # NoSession /\ StateOf(mgr, s) = "ACTIVE")
    BY <1>3
  <2>2. mgr' = createSession(mgr) /\ Await(c, "generating", Len(mgr.sessions) + 1)
    BY <2>1, Zenon DEF ContextBuilt, Request
  <2>3. mgr' = createSession(mgr) /\ ManagerOK(mgr)
    BY <2>2 DEF EditInv
  <2>4. \A t \in Names(mgr) : EditSettled(mgr.sessions[t])
    BY DEF EditInv
  <2>5. \A d \in Calls : EditPosition(call[d], mgr)
    BY DEF EditInv
  <2>6. EditInv'
    BY <1>1, <2>2, <2>3, <2>4, <2>5, EditOpens DEF Pending
  <2>7. FinalStep(mgr, mgr')
    BY <2>3, OpensSession, FinalOpens, FinalSame
  <2> QED
    BY <1>1, <2>6, <2>7
<1> QED
  BY <1>2, <1>3

\* The end of the report of session s changes nothing that the invariant or a decision rests on.
LEMMA EditReportedFacts ==
    ASSUME EditInv, NEW s \in Names(mgr), mgr.sessions[s].state \in Ended
    PROVE  LET ses == [mgr.sessions[s] EXCEPT !.report = "sent"]
           IN  /\ Puts(mgr, Reported(mgr, s), s, ses) /\ ses \in Sessions /\ EditSettled(ses)
               /\ Lasting(mgr.sessions[s], ses) /\ ses.state = mgr.sessions[s].state
               /\ ses.report = "sent"
               /\ Unanswered(mgr.sessions[s]) => Unanswered(ses)
               /\ getAggregatedUserTriggerDecision(ses)
                    = getAggregatedUserTriggerDecision(mgr.sessions[s])
<1> DEFINE old == mgr.sessions[s]
           ses == [old EXCEPT !.report = "sent"]
<1>1. ManagerOK(mgr) /\ old \in Sessions /\ EditSettled(old)
  BY EditSessionFacts
<1>2. Puts(mgr, Reported(mgr, s), s, ses)
  BY <1>1, PutsReported
<1>3. ses \in Sessions
  BY <1>1, SessionTypes
<1>4. /\ ses.state = old.state /\ ses.report = "sent" /\ ses.emitted = old.emitted
      /\ ses.results = old.results
  BY <1>1 DEF Sessions
<1>5. getAggregatedUserTriggerDecision(ses) = getAggregatedUserTriggerDecision(old)
  BY <1>1, DecisionSteps
<1> HIDE DEF ses
<1>6. EditSettled(ses) /\ Lasting(old, ses) /\ (Unanswered(old) => Unanswered(ses))
  BY <1>1, <1>4 DEF EditSettled, Lasting, Unanswered
<1> QED
  BY <1>2, <1>3, <1>4, <1>5, <1>6 DEF ses

LEMMA EditDiscardReported ==
    ASSUME EditInv, NEW c \in Calls, DiscardReported(c)
    PROVE  EditInv' /\ FinalStep(mgr, mgr') /\ offered' = offered
<1> DEFINE s == call[c].session
           k == Reported(mgr, s)
           ses == [mgr.sessions[s] EXCEPT !.report = "sent"]
<1>1. call[c].at = "discarding" /\ UNCHANGED <<offered, tokens>>
  BY DEF DiscardReported
<1>2. s \in Names(mgr) /\ mgr.sessions[s].state \in Ended
  BY <1>1, EditFacts DEF EditPosition
<1>3. mgr' = createSession(k) /\ Await(c, "generating", Len(k.sessions) + 1)
  BY DEF DiscardReported, Request
<1>4. /\ Puts(mgr, k, s, ses) /\ EditSettled(ses) /\ Lasting(mgr.sessions[s], ses)
      /\ getAggregatedUserTriggerDecision(ses) = getAggregatedUserTriggerDecision(mgr.sessions[s])
  BY <1>2, EditReportedFacts
<1> HIDE DEF s, k, ses
<1>5. ManagerOK(k) /\ Names(k) = Names(mgr) /\ FinalStep(mgr, k)
  BY <1>4, FinalPuts DEF Puts
<1>6. \A t \in Names(mgr) : EditSettled(k.sessions[t])
  BY <1>4, EditSessionFacts DEF Puts
<1>7. ASSUME NEW d \in Calls \ {c} PROVE EditPosition(call[d], k)
  <2>1. call[d].at \in Pending => call[d].session # s
    BY DEF EditInv, EditApart, s
  <2> QED
    BY <1>4, <2>1, OtherCalls
<1>8. EditInv'
  BY <1>1, <1>3, <1>5, <1>6, <1>7, EditOpens DEF Pending
<1>9. FinalStep(mgr, mgr')
  BY <1>3, <1>5, OpensSession, FinalOpens
<1> QED
  BY <1>1, <1>8, <1>9

\* What a response makes of its session, which is activated or not.
LEMMA AnswerFacts ==
    ASSUME NEW old \in Sessions, EditSettled(old), old.emitted = 0 \/ old.report = "sent",
           NEW act, act \in {old, activate(old)}
    PROVE  /\ EditSettled(act) /\ Lasting(old, act)
           /\ EditSettled(Emitted(close(act))) /\ Lasting(old, Emitted(close(act)))
           /\ old.state \in Ended =>
                /\ getAggregatedUserTriggerDecision(act) = getAggregatedUserTriggerDecision(old)
                /\ getAggregatedUserTriggerDecision(Emitted(close(act)))
                     = getAggregatedUserTriggerDecision(old)
<1>1. act \in Sessions /\ close(act) \in Sessions
  BY SessionTypes
<1>2. CASE old.state \in Ended
  <2>1. act = old /\ close(act) = old
    BY <1>2, StateSteps
  <2>2. Emitted(old).state = old.state
    BY StateSteps
  <2>3. Emitted(old).emitted <= 1
    BY DEF Emitted, EditSettled, Sessions
  <2>4. getAggregatedUserTriggerDecision(Emitted(old)) = getAggregatedUserTriggerDecision(old)
    BY DecisionSteps
  <2> QED
    BY <1>2, <2>1, <2>2, <2>3, <2>4 DEF EditSettled, Lasting
<1>3. CASE old.state \notin Ended
  <2>1. old.emitted = 0 /\ old.report = "unsent"
    BY <1>3 DEF EditSettled
  <2>2. act.emitted = 0 /\ act.report = "unsent"
    BY <1>3, <2>1 DEF activate, Sessions
  <2>3. close(act).emitted = 0 /\ close(act).report = "unsent" /\ close(act).state \in Ended
    BY <1>1, <2>2, StateSteps DEF close, Sessions
  <2>4. Emitted(close(act)).emitted = 1 /\ Emitted(close(act)).state \in Ended
    BY <1>1, <2>3 DEF Emitted, Sessions
  <2> QED
    BY <1>3, <2>2, <2>4 DEF EditSettled, Lasting, Ended
<1> QED
  BY <1>2, <1>3

\* Call c ends and leaves session s as ses.
LEMMA EditEnds ==
    ASSUME EditInv, NEW c \in Calls, call[c].at # "idle", call' = [call EXCEPT ![c] = Idle],
           NEW s \in Names(mgr), NEW ses, Puts(mgr, mgr', s, ses), EditSettled(ses),
           Lasting(mgr.sessions[s], ses),
           tokens' \subseteq Names(mgr), \A o \in offered' : o.session \in Names(mgr),
           \A d \in Calls \ {c} : call[d].at \in Pending /\ call[d].session = s => Unanswered(ses)
    PROVE  EditInv'
<1> DEFINE r == Idle
<1>1. /\ r \in EditRequests(mgr) /\ EditPosition(r, mgr') /\ r.at = "idle" /\ r.session = NoSession
  BY EditIdle
<1>2. \A d \in Calls : call[d].at \in Pending => call[d].session # NoSession
  BY EditFacts DEF EditPosition
<1> HIDE DEF r
<1>3. \A d \in Calls \ {c} : call[d].at \in Pending =>
          call[d].session # r.session /\ (call[d].session = s => Unanswered(ses))
  BY <1>1, <1>2
<1>4. r.at \notin Pending /\ (r.at = "idle" \/ r.alone = call[c].alone)
  BY <1>1 DEF Pending
<1>5. r \in EditRequests(mgr) /\ EditPosition(r, mgr') /\ call' = [call EXCEPT ![c] = r]
  BY <1>1 DEF r
<1> QED
  BY <1>3, <1>4, <1>5, EditPuts

\* The rest of a response, in manager k, where session s of call c is old.
LEMMA EditProcess ==
    ASSUME EditInv, NEW c \in Calls, NEW s, s = call[c].session,
           call[c].at \in Pending \cup {"dropping"},
           NEW k, NEW old, Puts(mgr, k, s, old), old \in Sessions, EditSettled(old),
           Lasting(mgr.sessions[s], old), old.emitted = 0 \/ old.report = "sent",
           mgr.sessions[s].state \in Ended =>
             getAggregatedUserTriggerDecision(old) = getAggregatedUserTriggerDecision(mgr.sessions[s]),
           ProcessSuggestions(c, k)
    PROVE  /\ EditInv' /\ FinalStep(mgr, mgr')
           /\ \A o \in offered' \ offered :
                /\ o.session = s
                /\ s = mgr.current /\ old.state \notin Ended => StateOf(mgr', s) = "ACTIVE"
<1> DEFINE active == activateSession(k, s)
           act == IF s = k.current THEN activate(old) ELSE old
<1>1. s \in Names(mgr) /\ call[c].at # "idle"
  BY EditFacts DEF Pending
<1>2. ManagerOK(k) /\ s \in Names(k) /\ k.sessions[s] = old /\ k.current = mgr.current
  BY <1>1 DEF Puts
<1>3. act \in {old, activate(old)}
  OBVIOUS
<1>4. Puts(mgr, active, s, act)
  <2>1. Puts(k, active, s, act)
    BY <1>2, PutsActivated
  <2> QED
    BY <2>1, PutsTwice
<1>5. s = mgr.current /\ old.state \notin Ended => act.state = "ACTIVE"
  BY <1>2, StateSteps
<1>6. /\ call' = [call EXCEPT ![c] = Idle]
      /\ \/ /\ mgr' = emitUserTriggerDecision(closeSession(active, s), s)
            /\ tokens' = tokens \ {call[c].page} /\ offered' = offered
         \/ \E e \in Edits :
            /\ mgr' = active /\ tokens' \subseteq tokens \cup {s}
            /\ offered' \subseteq offered \cup {[session |-> s, edit |-> e]}
  <2>1. activateSession(k, s) = active
        /\ emitUserTriggerDecision(closeSession(active, s), s)
             = emitUserTriggerDecision(closeSession(active, s), s)
    OBVIOUS
  <2>2. call' = [call EXCEPT ![c] = Idle]
    BY DEF ProcessSuggestions, Finish
  <2> HIDE DEF active
  <2>3. \/ /\ mgr' = emitUserTriggerDecision(closeSession(active, s), s)
           /\ tokens' = tokens \ {call[c].page} /\ offered' = offered
        \/ \E e \in Edits, more \in BOOLEAN :
            /\ mgr' = active
            /\ tokens' = (tokens \ {call[c].page}) \cup (IF more THEN {s} ELSE {})
            /\ offered' = IF isSimilarToRejected(e, NoDocument) THEN offered
                          ELSE offered \cup {[session |-> s, edit |-> e]}
    BY <2>1, Zenon DEF ProcessSuggestions
  <2> QED
    BY <2>2, <2>3
<1> HIDE DEF active, act
<1>7. /\ EditSettled(act) /\ Lasting(old, act)
      /\ EditSettled(Emitted(close(act))) /\ Lasting(old, Emitted(close(act)))
      /\ old.state \in Ended =>
            /\ getAggregatedUserTriggerDecision(act) = getAggregatedUserTriggerDecision(old)
            /\ getAggregatedUserTriggerDecision(Emitted(close(act)))
                 = getAggregatedUserTriggerDecision(old)
  BY <1>3, AnswerFacts
<1>8. /\ Lasting(mgr.sessions[s], act) /\ Lasting(mgr.sessions[s], Emitted(close(act)))
      /\ mgr.sessions[s].state \in Ended =>
            /\ getAggregatedUserTriggerDecision(act)
                 = getAggregatedUserTriggerDecision(mgr.sessions[s])
            /\ getAggregatedUserTriggerDecision(Emitted(close(act)))
                 = getAggregatedUserTriggerDecision(mgr.sessions[s])
  BY <1>7 DEF Lasting
<1>9. ASSUME NEW ses, Puts(mgr, mgr', s, ses), EditSettled(ses), Lasting(mgr.sessions[s], ses),
             tokens' \subseteq tokens \cup {s},
             \A o \in offered' : o \in offered \/ o.session = s
      PROVE  EditInv'
  <2>1. tokens' \subseteq Names(mgr) /\ \A o \in offered' : o.session \in Names(mgr)
    BY <1>1, <1>9 DEF EditInv
  <2>2. \A d \in Calls \ {c} : call[d].at \in Pending /\ call[d].session = s => Unanswered(ses)
    BY DEF EditInv, EditApart
  <2> QED
    BY <1>1, <1>6, <1>9, <2>1, <2>2, EditEnds
<1>10. CASE /\ mgr' = emitUserTriggerDecision(closeSession(active, s), s)
            /\ tokens' = tokens \ {call[c].page} /\ offered' = offered
  <2>1. ManagerOK(active) /\ s \in Names(active) /\ active.sessions[s] = act
    BY <1>1, <1>4 DEF Puts
  <2>2. Puts(active, mgr', s, Emitted(close(act)))
    BY <1>10, <2>1, PutsCloseEmitted
  <2>3. Puts(mgr, mgr', s, Emitted(close(act)))
    BY <1>4, <2>2, PutsTwice
  <2>4. EditInv'
    <3>1. tokens' \subseteq tokens \cup {s} /\ \A o \in offered' : o \in offered \/ o.session = s
      BY <1>10
    <3> QED
      BY <1>7, <1>8, <1>9, <2>3, <3>1
  <2>5. FinalStep(mgr, mgr')
    BY <1>8, <2>3, FinalPuts
  <2> QED
    BY <1>10, <2>4, <2>5
<1>11. CASE \E e \in Edits :
            /\ mgr' = active /\ tokens' \subseteq tokens \cup {s}
            /\ offered' \subseteq offered \cup {[session |-> s, edit |-> e]}
  <2>1. /\ mgr' = active /\ tokens' \subseteq tokens \cup {s}
        /\ \A o \in offered' : o \in offered \/ o.session = s
    BY <1>11
  <2>2. Puts(mgr, mgr', s, act)
    BY <1>4, <2>1
  <2>3. EditInv'
    BY <1>7, <1>8, <1>9, <2>1, <2>2
  <2>4. FinalStep(mgr, mgr')
    BY <1>8, <2>2, FinalPuts
  <2>5. mgr'.sessions[s] = act
    BY <2>2 DEF Puts
  <2> QED
    BY <1>5, <2>1, <2>3, <2>4, <2>5 DEF StateOf
<1> QED
  BY <1>6, <1>10, <1>11

\* What a step offers, when the request whose session it is has not overlapped with another one.
EditOffers ==
    \A c \in Calls, o \in offered' \ offered :
        call[c].alone = TRUE /\ call[c].session = o.session => StateOf(mgr', o.session) = "ACTIVE"

\* A marked session is discarded in its response: the decision stays, and is sent if it was not.
LEMMA DroppedFacts ==
    ASSUME NEW m, ManagerOK(m), NEW s \in Names(m), Unanswered(m.sessions[s])
    PROVE  \E ses :
             /\ Puts(m, emitUserTriggerDecision(
                          discardSession([m EXCEPT !.sessions[s].discardInflight = FALSE], s), s), s, ses)
             /\ EditSettled(ses) /\ Lasting(m.sessions[s], ses) /\ ses.state = "DISCARD"
             /\ m.sessions[s].state \in Ended =>
                  getAggregatedUserTriggerDecision(ses)
                    = getAggregatedUserTriggerDecision(m.sessions[s])
<1> DEFINE old == m.sessions[s]
           unmarked == [old EXCEPT !.discardInflight = FALSE]
           k == [m EXCEPT !.sessions = [m.sessions EXCEPT ![s] = unmarked]]
           ses == Emitted(discard(unmarked))
<1>1. old \in Sessions
  BY NamesFacts
<1>2. unmarked \in Sessions
  BY <1>1, SessionTypes, Zenon
<1>3. [m EXCEPT !.sessions[s].discardInflight = FALSE] = k
  BY Zenon
<1>4. unmarked.emitted = 0
  BY <1>1 DEF Sessions, Unanswered
<1> HIDE DEF unmarked
<1>5. Puts(m, k, s, unmarked)
  BY <1>2, PutsSession
<1> HIDE DEF k
<1>6. ManagerOK(k) /\ s \in Names(k) /\ k.sessions[s] = unmarked
  BY <1>5 DEF Puts
<1>7. Puts(k, emitUserTriggerDecision(discardSession(k, s), s), s, ses)
  BY <1>6, PutsDiscardEmitted
<1>8. ses.state = "DISCARD" /\ ses.emitted <= 1
  BY <1>2, <1>4 DEF Emitted, discard, Sessions
<1>9. old.state \in Ended => getAggregatedUserTriggerDecision(old) = "Discard"
  BY DEF getAggregatedUserTriggerDecision, Ended, Unanswered
<1> HIDE DEF ses
<1>10. getAggregatedUserTriggerDecision(ses) = "Discard"
  BY <1>8 DEF getAggregatedUserTriggerDecision
<1>11. Puts(m, emitUserTriggerDecision(discardSession(k, s), s), s, ses)
  BY <1>5, <1>7, PutsTwice
<1>12. EditSettled(ses) /\ Lasting(old, ses)
  BY <1>8 DEF EditSettled, Lasting, Ended
<1> QED
  BY <1>3, <1>8, <1>9, <1>10, <1>11, <1>12

LEMMA EditResponse ==
    ASSUME EditInv, NEW c \in Calls, Response(c)
    PROVE  EditInv' /\ FinalStep(mgr, mgr') /\ EditOffers
<1> DEFINE s == call[c].session
           old == mgr.sessions[s]
<1>1. /\ call[c].at \in Pending /\ s \in Names(mgr) /\ ManagerOK(mgr)
      /\ old \in Sessions /\ EditSettled(old) /\ Unanswered(old)
      /\ call[c].alone \in BOOLEAN
      /\ call[c].alone = TRUE => s = mgr.current /\ Untouched(old)
  <2>1. call[c].at \in Pending
    BY DEF Response, Pending
  <2>2. /\ s \in Names(mgr) /\ EditPosition(call[c], mgr) /\ call[c].alone \in BOOLEAN
    BY <2>1, EditFacts
  <2> QED
    BY <2>1, <2>2, EditSessionFacts DEF EditPosition
<1>2. CASE old.discardInflight
  <2>1. /\ mgr' = emitUserTriggerDecision(
                    discardSession([mgr EXCEPT !.sessions[s].discardInflight = FALSE], s), s)
        /\ Await(c, "dropping", s) /\ UNCHANGED <<offered, tokens>>
    BY <1>2, Zenon DEF Response
  <2>2. mgr' = emitUserTriggerDecision(
                 discardSession([mgr EXCEPT !.sessions[s].discardInflight = FALSE], s), s)
    BY <2>1
  <2>3. PICK ses : /\ Puts(mgr, mgr', s, ses) /\ EditSettled(ses) /\ Lasting(old, ses)
                   /\ ses.state = "DISCARD"
                   /\ old.state \in Ended => getAggregatedUserTriggerDecision(ses)
                                               = getAggregatedUserTriggerDecision(old)
    BY <1>1, <2>2, DroppedFacts
  <2>4. call[c].alone = FALSE
    BY <1>1, <1>2, Zenon DEF Untouched
  <2>5. \A d \in Calls \ {c} : call[d].at \in Pending => call[d].session # s
    BY DEF EditInv, EditApart
  <2>6. call[c].at # "idle" /\ "dropping" \in {"discarding", "dropping"}
    BY <1>1 DEF Pending
  <2> HIDE DEF s
  <2>7. EditInv'
    BY <1>1, <2>1, <2>3, <2>4, <2>5, <2>6, EditReporting
  <2>8. FinalStep(mgr, mgr')
    BY <2>3, FinalPuts
  <2> QED
    BY <2>1, <2>7, <2>8 DEF EditOffers
<1>3. CASE ~old.discardInflight
  <2>1. ProcessSuggestions(c, mgr)
    BY <1>3, Zenon DEF Response
  <2>2. Puts(mgr, mgr, s, old)
    BY <1>1, PutsSame
  <2>3. Lasting(old, old) /\ old.emitted = 0
    BY <1>1 DEF Lasting, Unanswered
  <2>4. /\ EditInv' /\ FinalStep(mgr, mgr')
        /\ \A o \in offered' \ offered :
             /\ o.session = s
             /\ s = mgr.current /\ old.state \notin Ended => StateOf(mgr', s) = "ACTIVE"
    BY <1>1, <2>1, <2>2, <2>3, EditProcess
  <2>5. ASSUME NEW d \in Calls, NEW o \in offered' \ offered, call[d].alone = TRUE,
               call[d].session = o.session
        PROVE  StateOf(mgr', o.session) = "ACTIVE"
    <3>1. d = c
      BY <1>1, <2>4, <2>5 DEF EditInv, EditApart
    <3>2. s = mgr.current /\ old.state \notin Ended
      BY <1>1, <2>5, <3>1 DEF Untouched, Ended
    <3> QED
      BY <2>4, <3>2
  <2> QED
    BY <2>4, <2>5 DEF EditOffers
<1> QED
  BY <1>2, <1>3

LEMMA EditDropReported ==
    ASSUME EditInv, NEW c \in Calls, DropReported(c)
    PROVE  EditInv' /\ FinalStep(mgr, mgr') /\ EditOffers
<1> DEFINE s == call[c].session
           k == Reported(mgr, s)
           old == [mgr.sessions[s] EXCEPT !.report = "sent"]
<1>1. /\ call[c].at = "dropping" /\ s \in Names(mgr) /\ mgr.sessions[s].state = "DISCARD"
      /\ call[c].alone = FALSE
  <2>1. call[c].at = "dropping"
    BY DEF DropReported
  <2> QED
    BY <2>1, EditFacts DEF EditPosition
<1>2. ProcessSuggestions(c, k)
  BY DEF DropReported
<1>3. /\ Puts(mgr, k, s, old) /\ old \in Sessions /\ EditSettled(old)
      /\ Lasting(mgr.sessions[s], old) /\ old.report = "sent"
      /\ getAggregatedUserTriggerDecision(old) = getAggregatedUserTriggerDecision(mgr.sessions[s])
  BY <1>1, EditReportedFacts DEF Ended
<1> HIDE DEF k, old
<1>4. /\ EditInv' /\ FinalStep(mgr, mgr')
      /\ \A o \in offered' \ offered : o.session = s
  BY <1>1, <1>2, <1>3, EditProcess
<1>5. \A d \in Calls : call[d].alone = TRUE => call[d].session # s
  <2> SUFFICES ASSUME NEW d \in Calls, call[d].alone = TRUE, call[d].session = s PROVE FALSE
    OBVIOUS
  <2>1. call[d].at # "idle"
    BY <1>1, EditFacts, EditSessionFacts DEF EditPosition
  <2>2. d = c
    BY <1>1, <2>1 DEF EditInv, EditAlone
  <2> QED
    BY <1>1, <2>2
<1> QED
  BY <1>4, <1>5 DEF EditOffers

LEMMA EditResponseError ==
    ASSUME EditInv, NEW c \in Calls, ResponseError(c)
    PROVE  EditInv' /\ FinalStep(mgr, mgr') /\ offered' = offered
<1>1. call[c].at \in Pending
  BY DEF ResponseError, Pending
<1>2. PICK s \in Names(mgr) : mgr' = closeSession(mgr, s)
  <2>1. /\ call[c].session \in Names(mgr)
        /\ call[c].at = "paging" => call[c].before \in Names(mgr)
    BY <1>1, EditFacts DEF EditPosition
  <2> QED
    BY <2>1 DEF ResponseError
<1> DEFINE old == mgr.sessions[s]
           ses == close(old)
<1>3. ManagerOK(mgr) /\ old \in Sessions /\ EditSettled(old)
  BY EditSessionFacts
<1>4. Puts(mgr, mgr', s, ses)
  BY <1>2, <1>3, PutsClosed
<1>5. /\ call' = [call EXCEPT ![c] = Idle] /\ offered' = offered
      /\ tokens' = tokens \ {call[c].page} /\ call[c].at # "idle"
  BY <1>1 DEF ResponseError, Finish, Pending
<1>6. ses.state \in Ended /\ (old.state \in Ended => ses = old)
  BY <1>3, StateSteps
<1>7. ses.emitted = old.emitted /\ ses.results = old.results
  BY <1>3 DEF close, Sessions
<1>8. EditSettled(ses) /\ Lasting(old, ses)
  BY <1>3, <1>6, <1>7 DEF EditSettled, Lasting, Ended
<1>9. \A d \in Calls \ {c} : call[d].at \in Pending /\ call[d].session = s => Unanswered(ses)
  BY <1>6, <1>7, EditFacts DEF EditPosition, Unanswered, Ended
<1> HIDE DEF ses
<1>10. tokens' \subseteq Names(mgr) /\ \A o \in offered' : o.session \in Names(mgr)
  BY <1>5 DEF EditInv
<1>11. EditInv'
  BY <1>4, <1>5, <1>8, <1>9, <1>10, EditEnds
<1>12. FinalStep(mgr, mgr')
  BY <1>4, <1>6, FinalPuts
<1> QED
  BY <1>5, <1>11, <1>12

\* A step of another actor than the calls changes session s.
LEMMA EditOfResults ==
    ASSUME EditInv, NEW s \in Names(mgr), NEW ses, Puts(mgr, mgr', s, ses), EditSettled(ses),
           Lasting(mgr.sessions[s], ses), UNCHANGED <<call, offered, tokens>>,
           \A d \in Calls : call[d].at \in Pending /\ call[d].session = s =>
             Unanswered(ses) /\ (call[d].alone = TRUE => Untouched(ses))
    PROVE  EditInv'
<1>1. /\ ManagerOK(mgr') /\ Names(mgr') = Names(mgr) /\ mgr'.sessions[s] = ses
      /\ \A t \in Names(mgr) \ {s} : mgr'.sessions[t] = mgr.sessions[t]
  BY DEF Puts
<1>2. \A t \in Names(mgr') : EditSettled(mgr'.sessions[t])
  BY <1>1, EditSessionFacts
<1>3. \A d \in Calls : EditPosition(call'[d], mgr')
  BY OtherCalls
<1>4. call' \in [Calls -> EditRequests(mgr')]
  <2>1. EditRequests(mgr') = EditRequests(mgr)
    BY <1>1 DEF EditRequests
  <2> QED
    BY <2>1 DEF EditInv
<1>5. EditAlone' /\ EditApart' /\ tokens' \subseteq Names(mgr')
      /\ \A o \in offered' : o.session \in Names(mgr')
  BY <1>1 DEF EditInv, EditAlone, EditApart
<1> QED
  BY <1>1, <1>2, <1>3, <1>4, <1>5 DEF EditInv

LEMMA EditSessionResults ==
    ASSUME EditInv, NEW o, SessionResults(o)
    PROVE  EditInv' /\ FinalStep(mgr, mgr') /\ offered' = offered
<1> DEFINE s == o.session
           old == mgr.sessions[s]
<1>1. s \in Names(mgr) /\ old.state = "ACTIVE" /\ UNCHANGED <<call, offered, tokens>>
  <2>1. o \in offered /\ Recordable(mgr, s) /\ UNCHANGED <<call, offered, tokens>>
    BY DEF SessionResults
  <2>2. StateOf(mgr, s) = "ACTIVE"
    BY <2>1 DEF Recordable
  <2> QED
    BY <2>1, <2>2 DEF EditInv, StateOf
<1>2. PICK v \in Verdicts, named \in BOOLEAN : mgr' = handleSessionResults(mgr, s, v, named)
  BY Zenon DEF SessionResults
<1>3. ManagerOK(mgr) /\ old \in Sessions /\ EditSettled(old)
  BY <1>1, EditSessionFacts
<1> DEFINE closed == close(setClientResultData(old, v))
           ses == IF named THEN Emitted(closed) ELSE closed
<1>4. Puts(mgr, mgr', s, ses)
  <2>1. Puts(mgr, handleSessionResults(mgr, s, v, named), s, ses)
    BY <1>1, <1>3, PutsResults, Zenon
  <2> QED
    BY <1>2, <2>1, Zenon
<1>5. old.emitted = 0 /\ old.report = "unsent"
  BY <1>1, <1>3 DEF EditSettled, Ended
<1>6. closed \in Sessions /\ closed.state \in Ended /\ closed.emitted = 0 /\ closed.report = "unsent"
  <2>1. setClientResultData(old, v) \in Sessions
    BY <1>3, SessionTypes
  <2>2. closed \in Sessions /\ closed.state \in Ended
    BY <2>1, SessionTypes, StateSteps
  <2>3. closed.emitted = 0 /\ closed.report = "unsent"
    BY <1>1, <1>3, <1>5 DEF close, setClientResultData, Sessions, Ended
  <2> QED
    BY <2>2, <2>3
<1> HIDE DEF closed
<1>7. ses \in {closed, Emitted(closed)}
  BY Zenon
<1> HIDE DEF ses
<1>8. ses.emitted <= 1 /\ ses.state \in Ended
  <2>1. Emitted(closed).emitted <= 1 /\ Emitted(closed).state \in Ended
    BY <1>6 DEF Emitted, Sessions
  <2> QED
    BY <1>6, <1>7, <2>1
<1>9. EditSettled(ses) /\ Lasting(old, ses)
  BY <1>1, <1>8 DEF EditSettled, Lasting
<1>10. \A d \in Calls : call[d].at \in Pending => call[d].session # s
  BY <1>1, DiscardFacts
<1> HIDE DEF s
<1>11. EditInv'
  BY <1>1, <1>4, <1>9, <1>10, EditOfResults
<1>12. FinalStep(mgr, mgr')
  BY <1>1, <1>4, FinalPuts DEF Ended
<1> QED
  BY <1>1, <1>11, <1>12

LEMMA EditReportEnds ==
    ASSUME EditInv, NEW s, ReportEnds(s)
    PROVE  EditInv' /\ FinalStep(mgr, mgr') /\ offered' = offered
<1> DEFINE old == mgr.sessions[s]
           ses == [old EXCEPT !.report = "sent"]
<1>1. /\ s \in Names(mgr) /\ old.report = "sending" /\ mgr' = Reported(mgr, s)
      /\ UNCHANGED <<call, offered, tokens>>
  BY DEF ReportEnds
<1>2. old.state \in Ended
  BY <1>1, EditSessionFacts DEF EditSettled
<1>3. /\ Puts(mgr, mgr', s, ses) /\ EditSettled(ses) /\ Lasting(old, ses)
      /\ Unanswered(old) => Unanswered(ses)
      /\ getAggregatedUserTriggerDecision(ses) = getAggregatedUserTriggerDecision(old)
  BY <1>1, <1>2, EditReportedFacts
<1>4. ASSUME NEW d \in Calls, call[d].at \in Pending, call[d].session = s
      PROVE  Unanswered(old) /\ ~(call[d].alone = TRUE)
  BY <1>2, <1>4, EditFacts DEF EditPosition, Untouched, Ended
<1> HIDE DEF ses
<1>5. \A d \in Calls : call[d].at \in Pending /\ call[d].session = s =>
          Unanswered(ses) /\ (call[d].alone = TRUE => Untouched(ses))
  BY <1>3, <1>4
<1>6. EditInv'
  BY <1>1, <1>3, <1>5, EditOfResults
<1>7. FinalStep(mgr, mgr')
  BY <1>3, FinalPuts
<1> QED
  BY <1>1, <1>6, <1>7

LEMMA EditNext == ASSUME EditInv, Next PROVE EditInv' /\ FinalStep(mgr, mgr') /\ EditOffers
<1>1. ASSUME offered' = offered PROVE EditOffers
  BY <1>1 DEF EditOffers
<1>2. ASSUME NEW c \in Calls, OnEditCompletion(c)
      PROVE  EditInv' /\ FinalStep(mgr, mgr') /\ EditOffers
  <2>1. offered' = offered /\ \E page : mgr' = MarkInflight(mgr, page)
    BY <1>2, Zenon DEF OnEditCompletion
  <2>2. PICK page : mgr' = MarkInflight(mgr, page)
    BY <2>1
  <2>3. \A t \in Names(mgr) : /\ mgr'.sessions[t].state = mgr.sessions[t].state
                              /\ mgr'.sessions[t].results = mgr.sessions[t].results
    BY <2>2, MarkFacts DEF EditInv
  <2>4. FinalStep(mgr, mgr')
    BY <2>3, Zenon DEF FinalStep, getAggregatedUserTriggerDecision
  <2> QED
    BY <1>1, <1>2, <2>1, <2>4, EditOnEditCompletion
<1>3. ASSUME NEW c \in Calls, Step(c)
      PROVE  EditInv' /\ FinalStep(mgr, mgr') /\ EditOffers
  <2>1. CASE NothingToDo(c) \/ NotTriggered(c) \/ EditsRead(c)
    BY <1>1, <2>1, EditWithoutSession, FinalSame
  <2>2. CASE DocumentRead(c)
    BY <1>1, <2>2, EditDocumentRead
  <2>3. CASE ContextBuilt(c)
    BY <1>1, <2>3, EditContextBuilt
  <2>4. CASE DiscardReported(c)
    BY <1>1, <2>4, EditDiscardReported
  <2>5. CASE Response(c)
    BY <2>5, EditResponse
  <2>6. CASE DropReported(c)
    BY <2>6, EditDropReported
  <2>7. CASE ResponseError(c)
    BY <1>1, <2>7, EditResponseError
  <2> QED
    BY <1>3, <2>1, <2>2, <2>3, <2>4, <2>5, <2>6, <2>7 DEF Step
<1>4. ASSUME NEW o, SessionResults(o) PROVE EditInv' /\ FinalStep(mgr, mgr') /\ EditOffers
  BY <1>1, <1>4, EditSessionResults
<1>5. ASSUME NEW s, ReportEnds(s) PROVE EditInv' /\ FinalStep(mgr, mgr') /\ EditOffers
  BY <1>1, <1>5, EditReportEnds
<1> QED
  BY <1>2, <1>3, <1>4, <1>5, Zenon DEF Next

LEMMA EditStutter == ASSUME EditInv, UNCHANGED vars PROVE EditInv'
<1>1. mgr' = mgr /\ call' = call /\ offered' = offered /\ tokens' = tokens
  BY DEF vars
<1>2. EditAlone' /\ EditApart'
  BY <1>1 DEF EditInv, EditAlone, EditApart
<1> QED
  BY <1>1, <1>2, Zenon DEF EditInv

(***************************************************************************)
(* Theorems about edits.                                                   *)
(***************************************************************************)
\* The invariant holds in every reachable state of onEditCompletion and its results handler,
\* whatever number of requests overlap.
THEOREM EditInvariance == Spec => []EditInv
<1>1. EditInv /\ [Next]_vars => EditInv'
  BY EditNext, EditStutter
<1> QED
  BY <1>1, EditInit, PTL DEF Spec

\* No decision about an edit session is sent twice, however requests, responses, results and the
\* ends of sendings interleave.
THEOREM EditsReportedOnce == Spec => []ReportedAtMostOnce
<1>1. EditInv => ReportedAtMostOnce
  <2> SUFFICES ASSUME EditInv PROVE ReportedAtMostOnce
    OBVIOUS
  <2>1. \A s \in Names(mgr) : mgr.sessions[s].emitted <= 1
    BY DEF EditInv, EditSettled
  <2> QED
    BY <2>1 DEF ReportedAtMostOnce, EmittedAtMostOnce, Names
<1> QED
  BY <1>1, EditInvariance, PTL

\* The decision about an ended edit session is final: the late response of a marked session and
\* the failure of a page change nothing that was decided.
THEOREM EditDecisionsFinal == Spec => DecisionIsFinal
<1>1. EditInv /\ [Next]_vars =>
        [\A s \in Names(mgr) : StateOf(mgr, s) \in Ended =>
            getAggregatedUserTriggerDecision(mgr'.sessions[s])
                = getAggregatedUserTriggerDecision(mgr.sessions[s])]_vars
  <2> SUFFICES ASSUME EditInv, Next
               PROVE  \A s \in Names(mgr) : StateOf(mgr, s) \in Ended =>
                        getAggregatedUserTriggerDecision(mgr'.sessions[s])
                            = getAggregatedUserTriggerDecision(mgr.sessions[s])
    OBVIOUS
  <2>1. FinalStep(mgr, mgr')
    BY EditNext
  <2> QED
    BY <2>1 DEF FinalStep
<1> QED
  BY <1>1, EditInvariance, PTL DEF Spec, DecisionIsFinal

\* A request that no other one overlaps with returns edits only of a session that is active.
THEOREM EditOffersActive == Spec => OfferedIsActive
<1>1. EditInv /\ [Next]_vars =>
        [\A c \in Calls, o \in offered' \ offered :
            call[c].alone /\ call[c].session = o.session
                => StateOf(mgr', o.session) = "ACTIVE"]_vars
  <2> SUFFICES ASSUME EditInv, Next, NEW c \in Calls, NEW o \in offered' \ offered,
                      call[c].alone, call[c].session = o.session
               PROVE  StateOf(mgr', o.session) = "ACTIVE"
    OBVIOUS
  <2>1. call[c].alone = TRUE
    BY EditFacts, Zenon
  <2>2. EditOffers
    BY EditNext
  <2>3. StateOf(mgr', o.session) = "ACTIVE"
    BY <2>1, <2>2 DEF EditOffers
  <2> QED
    BY <2>3
<1> QED
  BY <1>1, EditInvariance, PTL DEF Spec, OfferedIsActive
=============================================================================
