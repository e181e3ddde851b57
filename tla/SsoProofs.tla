----------------------------- MODULE SsoProofs -----------------------------
(***************************************************************************)
(* Proofs about single sign-on.                                            *)
(*                                                                         *)
(* SsoToken, for any number of calls and timers, any windows, lifetimes    *)
(* and horizon.  The invariants that TLC checks are not inductive; Inv     *)
(* adds what the code's order of assignments guarantees: no refresh began  *)
(* after the recorded lastRefresh, no call remembers a removal that has    *)
(* not happened, and a token about to be written is real.                  *)
(*                                                                         *)
(* The device code flow (Device), for all durations: its invariant says    *)
(* when a waiting flow wakes up at the latest, and, once the user has      *)
(* confirmed, that the poll or the sleep under way began no later than one *)
(* latency after the confirmation.                                         *)
(*                                                                         *)
(* The authorization code flow (Pkce): whatever redirects and              *)
(* cancellations come, the code that it goes on with was granted, because  *)
(* the first redirect to settle the promise fixes it.                      *)
(***************************************************************************)
EXTENDS SsoToken, DeviceCodePromise, TLAPS

(* The clock has started and lastRefreshMillis is a past reading of it.    *)
ClockInv == 0 < now /\ lastRefresh <= now

(* Every refresh in flight was recorded, lastRefresh is the latest of them. *)
StampInv == \A c \in Calls : call[c].began <= lastRefresh

SeenInv == \A c \in Calls : call[c].seen <= removals

(* What a call is about to write to the token file is a token.             *)
WriteInv ==
    \A c \in Calls :
        call[c].wait \in {"writeToken", "loginWrite"} => call[c].held # NoToken

Inv ==
    /\ TypeOK
    /\ ClockInv
    /\ StampInv
    /\ SeenInv
    /\ WriteInv
    /\ SpacedRefreshes
    /\ RevivalNeedsOverlap
    /\ HandleIsLive
-----------------------------------------------------------------------------
LEMMA TokenFacts ==
    /\ NoToken \notin Tokens
    /\ \A t \in Tokens \cup {NoToken} :
          /\ t.exp \in Nat /\ t.refresh \in BOOLEAN
          /\ t # NoToken => t \in Tokens
  <1>1. NoToken \notin Tokens
    BY DEF Tokens, NoToken
  <1>2. ASSUME NEW t \in Tokens
        PROVE  t.exp \in Nat /\ t.refresh \in BOOLEAN
    BY DEF Tokens
  <1>3. NoToken.exp \in Nat /\ NoToken.refresh \in BOOLEAN
    BY DEF NoToken
  <1> QED BY <1>1, <1>2, <1>3

LEMMA SuspendedFacts ==
    ASSUME NEW w \in Waits, NEW j \in Jobs
    PROVE  /\ Suspended(w, j) \in CallStates
           /\ Suspended(w, j).wait = w
           /\ Suspended(w, j).job = j
           /\ Suspended(w, j).held = NoToken
           /\ Suspended(w, j).began = 0
           /\ Suspended(w, j).seen = 0
  BY DEF Suspended, CallStates

(* The moments at which watch lets its timer fire are proper deadlines.    *)
LEMMA FireTimesFacts ==
    ASSUME NEW n \in Nat, 0 < n, NEW e \in Nat, NEW moment \in FireTimes(n, e)
    PROVE  moment \in Nat /\ moment # Off
  BY WindowAssumption DEF FireTimes, Off

(* A timer that watch schedules before the refresh window fires inside it. *)
LEMMA FiresInRefreshWindow ==
    ASSUME NEW n \in Nat, NEW e \in Nat, n < e - RefreshWindow,
           NEW moment \in FireTimes(n, e)
    PROVE  e - RefreshWindow <= moment /\ moment < e
  BY WindowAssumption DEF FireTimes

LEMMA IssuedFacts ==
    ASSUME now \in Nat, NEW t \in IssuedTokens
    PROVE  t \in Tokens /\ t # NoToken
  <1>1. \A l \in Lifetimes : now + l \in Nat \ {0}
    BY TimeAssumption
  <1>2. t \in Tokens
    BY <1>1 DEF IssuedTokens, Tokens
  <1> QED BY <1>2, TokenFacts
-----------------------------------------------------------------------------
LEMMA InitInv == Init => Inv
  <1> SUFFICES ASSUME Init PROVE Inv
    OBVIOUS
  <1>1. Idle \in CallStates /\ Idle.wait = "idle" /\ Idle.began = 0 /\ Idle.seen = 0
    BY SuspendedFacts DEF Idle, Waits, Jobs
  <1>2. file \in Tokens \cup {NoToken}
    <2>1. \A l \in Lifetimes : StartTime + l \in Nat \ {0}
      BY TimeAssumption
    <2> QED BY <2>1 DEF Init, Tokens
  <1>3. TypeOK
    BY <1>1, <1>2, TimeAssumption DEF Init, TypeOK, Off
  <1>4. ClockInv /\ StampInv /\ SeenInv /\ WriteInv /\ HandleIsLive
    BY <1>1, TimeAssumption DEF Init, ClockInv, StampInv, SeenInv, WriteInv, HandleIsLive
  <1>5. \A c \in Calls : ~Refreshing(c)
    BY <1>1 DEF Init, Refreshing
  <1> QED BY <1>3, <1>4, <1>5 DEF Inv, SpacedRefreshes, RevivalNeedsOverlap, EarlyRefresh
-----------------------------------------------------------------------------
(* The parts of Inv that speak of the calls, and those of the timers.      *)
CallInv ==
    /\ call \in [Calls -> CallStates]
    /\ StampInv /\ SeenInv /\ WriteInv
    /\ SpacedRefreshes /\ RevivalNeedsOverlap

TimerInv ==
    /\ now \in Nat /\ ClockInv
    /\ timeouts \in Handles \cup {NoHandle}
    /\ deadline \in [Handles -> Nat]
    /\ HandleIsLive

FileInv ==
    /\ file \in Tokens \cup {NoToken}
    /\ removals \in Nat /\ registered \in BOOLEAN /\ lastRefresh \in Nat

LEMMA InvSplit == Inv <=> CallInv /\ TimerInv /\ FileInv
  BY DEF Inv, CallInv, TimerInv, FileInv, TypeOK

(* A call that neither refreshes nor is about to write.                    *)
Quiet(s) ==
    /\ s \in CallStates
    /\ s.began = 0 /\ s.seen = 0
    /\ s.wait \in {"idle", "readToken", "unlink", "readRegistration"}
    /\ s.wait = "readRegistration" => s.job = "authorize"

(* While one call becomes quiet the others keep what holds of them, as     *)
(* long as the step removes no file and starts no refresh.                 *)
LEMMA QuietStep ==
    ASSUME Inv, NEW c \in Calls, NEW s, Quiet(s), Become(c, s),
           lastRefresh' = lastRefresh, removals' = removals,
           file' = file \/ file' # NoToken
    PROVE  CallInv'
  <1> USE DEF Inv, TypeOK, Become, Quiet
  <1>1. call' \in [Calls -> CallStates]
    OBVIOUS
  <1>2. call'[c] = s /\ \A d \in Calls : d # c => call'[d] = call[d]
    OBVIOUS
  <1>3. ~Refreshing(c)'
    BY <1>2 DEF Refreshing
  <1>4. StampInv' /\ SeenInv' /\ WriteInv'
    BY <1>2 DEF StampInv, SeenInv, WriteInv
  <1>5. SpacedRefreshes'
    BY <1>2, <1>3 DEF SpacedRefreshes, EarlyRefresh, Refreshing
  <1>6. RevivalNeedsOverlap'
    BY <1>2, <1>3 DEF RevivalNeedsOverlap, Refreshing
  <1> QED BY <1>1, <1>4, <1>5, <1>6 DEF CallInv

LEMMA QuietStates ==
    /\ Quiet(Idle)
    /\ \A j \in Jobs : Quiet(Suspended("readToken", j))
    /\ Quiet(Suspended("unlink", "remove"))
    /\ Quiet(Suspended("readRegistration", "authorize"))
  BY SuspendedFacts DEF Quiet, Idle, Waits, Jobs

LEMMA UnwatchStep ==
    ASSUME TimerInv, unwatch, now' = now, lastRefresh' = lastRefresh
    PROVE  TimerInv'
  BY DEF TimerInv, ClockInv, unwatch, Unwatched, HandleIsLive, Off

LEMMA RejectStep ==
    ASSUME Inv, NEW c \in Calls, Reject(c),
           lastRefresh' = lastRefresh, removals' = removals, file' = file
    PROVE  CallInv' /\ TimerInv'
  <1>1. CallInv'
    BY QuietStep, QuietStates DEF Reject
  <1>2. TimerInv'
    BY InvSplit DEF Reject, timer_vars, TimerInv, ClockInv, HandleIsLive
  <1> QED BY <1>1, <1>2

LEMMA ResolveStep ==
    ASSUME Inv, NEW c \in Calls, NEW token \in Tokens, Resolve(c, token),
           lastRefresh' = lastRefresh, removals' = removals,
           file' = file \/ file' # NoToken
    PROVE  CallInv' /\ TimerInv'
  <1>1. CASE call[c].job = "watch"
    <2>1. PICK n \in now .. now + 1 :
            /\ now' = n
            /\ IF FireTimes(n, token.exp) = {}
               THEN UNCHANGED timer_vars
               ELSE \E h \in Handles, moment \in FireTimes(n, token.exp) :
                        /\ deadline' = [deadline EXCEPT ![h] = moment]
                        /\ timeouts' = h
            /\ Become(c, Idle)
      BY <1>1 DEF Resolve, Schedule
    <2>2. CallInv'
      BY <2>1, QuietStep, QuietStates
    <2>3. n \in Nat /\ 0 < n /\ lastRefresh <= n /\ token.exp \in Nat
      BY <2>1, TokenFacts DEF Inv, TypeOK, ClockInv
    <2>4. \A moment \in FireTimes(n, token.exp) : moment \in Nat /\ moment # Off
      BY <2>3, FireTimesFacts
    <2>5. TimerInv'
      BY <2>1, <2>3, <2>4, HandleAssumption, InvSplit
      DEF TimerInv, ClockInv, HandleIsLive, timer_vars
    <2> QED BY <2>2, <2>5
  <1>2. CASE call[c].job # "watch"
    <2>1. unwatch /\ Become(c, Suspended("readToken", "watch")) /\ now' = now
      BY <1>2 DEF Resolve
    <2>2. CallInv'
      BY <2>1, QuietStep, QuietStates DEF Jobs
    <2>3. TimerInv'
      BY <2>1, UnwatchStep, InvSplit
    <2> QED BY <2>2, <2>3
  <1> QED BY <1>1, <1>2

(* A refresh or a login goes on to its next await with what it holds.      *)
LEMMA AwaitStep ==
    ASSUME Inv, NEW c \in Calls,
           call[c].wait \in {"readRegistration", "registerClient", "writeRegistration"},
           NEW w \in {"registerClient", "writeRegistration", "createToken", "flow"},
           Await(c, w),
           now' = now, UNCHANGED timer_vars,
           lastRefresh' = lastRefresh, removals' = removals, file' = file
    PROVE  CallInv' /\ TimerInv'
  <1> USE DEF Inv, TypeOK, Await, CallStates
  <1>1. /\ call' \in [Calls -> CallStates]
        /\ \A d \in Calls : d # c => call'[d] = call[d]
        /\ call'[c].wait = w /\ call'[c].job = call[c].job
        /\ call'[c].held = call[c].held
        /\ call'[c].began = call[c].began /\ call'[c].seen = call[c].seen
    BY DEF Waits
  <1>2. /\ \A d \in Calls : Refreshing(d)' => Refreshing(d)
        /\ \A d \in Calls : EarlyRefresh(d)' => EarlyRefresh(d)
    BY <1>1 DEF EarlyRefresh, Refreshing
  <1>3. /\ \A d \in Calls : call'[d].began = call[d].began
        /\ \A d \in Calls : call'[d].seen = call[d].seen
    BY <1>1
  <1>4. StampInv' /\ SeenInv' /\ WriteInv'
    BY <1>1, <1>3 DEF StampInv, SeenInv, WriteInv
  <1>5. SpacedRefreshes'
    BY <1>2, <1>3 DEF SpacedRefreshes
  <1>6. RevivalNeedsOverlap'
    BY <1>2, <1>3 DEF RevivalNeedsOverlap
  <1>7. TimerInv'
    BY DEF timer_vars, TimerInv, ClockInv, HandleIsLive
  <1> QED BY <1>1, <1>4, <1>5, <1>6, <1>7 DEF CallInv

(* A call receives the token it is going to write.                         *)
LEMMA IssueStep ==
    ASSUME Inv, NEW c \in Calls, NEW token \in Tokens,
           NEW w \in {"writeToken", "loginWrite"},
           w = "writeToken" => call[c].wait = "createToken",
           Become(c, [call[c] EXCEPT !.wait = w, !.held = token]),
           now' = now, UNCHANGED timer_vars,
           lastRefresh' = lastRefresh, removals' = removals, file' = file
    PROVE  CallInv' /\ TimerInv'
  <1> USE DEF Inv, TypeOK, Become, CallStates
  <1>1. /\ call' \in [Calls -> CallStates]
        /\ \A d \in Calls : d # c => call'[d] = call[d]
        /\ call'[c].wait = w /\ call'[c].job = call[c].job
        /\ call'[c].held = token
        /\ call'[c].began = call[c].began /\ call'[c].seen = call[c].seen
    BY Zenon DEF Waits
  <1>2. /\ \A d \in Calls : Refreshing(d)' => Refreshing(d)
        /\ \A d \in Calls : EarlyRefresh(d)' => EarlyRefresh(d)
    BY <1>1 DEF EarlyRefresh, Refreshing
  <1>3. /\ \A d \in Calls : call'[d].began = call[d].began
        /\ \A d \in Calls : call'[d].seen = call[d].seen
    BY <1>1
  <1>4. StampInv' /\ SeenInv' /\ WriteInv'
    BY <1>1, <1>3, TokenFacts DEF StampInv, SeenInv, WriteInv
  <1>5. SpacedRefreshes'
    BY <1>2, <1>3 DEF SpacedRefreshes
  <1>6. RevivalNeedsOverlap'
    BY <1>2, <1>3 DEF RevivalNeedsOverlap
  <1>7. TimerInv'
    BY DEF timer_vars, TimerInv, ClockInv, HandleIsLive
  <1> QED BY <1>1, <1>4, <1>5, <1>6, <1>7 DEF CallInv

(* A refresh starts: lastRefreshMillis is set in the step that decided on  *)
(* the refresh, so whoever decides next sees it.                           *)
LEMMA BeginStep ==
    ASSUME Inv, NEW c \in Calls,
           file # NoToken, ~NoRefreshDue(file),
           lastRefresh' = now,
           Become(c, [wait |-> "readRegistration", job |-> call[c].job,
                      held |-> file, began |-> now, seen |-> removals]),
           now' = now, UNCHANGED timer_vars, removals' = removals, file' = file
    PROVE  CallInv' /\ TimerInv'
  <1> USE DEF Inv, TypeOK, Become, CallStates
  <1>1. /\ call' \in [Calls -> CallStates]
        /\ \A d \in Calls : d # c => call'[d] = call[d]
        /\ call'[c].wait = "readRegistration"
        /\ call'[c].held = file
        /\ call'[c].began = now /\ call'[c].seen = removals
    BY DEF Waits
  <1>2. \A d \in Calls \ {c} :
            /\ Refreshing(d)' = Refreshing(d)
            /\ EarlyRefresh(d)' = EarlyRefresh(d)
    BY <1>1 DEF EarlyRefresh, Refreshing
  <1>3. ASSUME EarlyRefresh(c)'
        PROVE  lastRefresh + RetryCooldown <= now
    <2>1. now < file.exp
      BY <1>1, <1>3 DEF EarlyRefresh
    <2> QED BY <2>1, TokenFacts, WindowAssumption DEF NoRefreshDue
  <1>4. StampInv' /\ SeenInv' /\ WriteInv'
    BY <1>1 DEF StampInv, SeenInv, WriteInv, ClockInv
  <1>5. SpacedRefreshes'
    <2> SUFFICES ASSUME NEW d \in Calls, NEW e \in Calls, d # e,
                        EarlyRefresh(d)', EarlyRefresh(e)'
                 PROVE  \/ call'[d].began + RetryCooldown <= call'[e].began
                        \/ call'[e].began + RetryCooldown <= call'[d].began
      BY DEF SpacedRefreshes
    <2>1. \A x \in Calls : call[x].began \in Nat /\ call[x].began <= lastRefresh
      BY DEF StampInv
    <2>2. CASE d = c
      BY <1>1, <1>3, <2>1, <2>2, WindowAssumption
    <2>3. CASE e = c
      BY <1>1, <1>3, <2>1, <2>3, WindowAssumption
    <2>4. CASE d # c /\ e # c
      BY <1>1, <1>2, <2>4 DEF SpacedRefreshes
    <2> QED BY <2>2, <2>3, <2>4
  <1>6. RevivalNeedsOverlap'
    BY <1>1, <1>2 DEF RevivalNeedsOverlap
  <1>7. TimerInv'
    BY DEF timer_vars, TimerInv, ClockInv, HandleIsLive
  <1> QED BY <1>1, <1>4, <1>5, <1>6, <1>7 DEF CallInv
-----------------------------------------------------------------------------
LEMMA CallStep ==
    ASSUME Inv, NEW c \in Calls, Step(c) \/ Flow(c)
    PROVE  Inv'
  <1> USE DEF file_vars
  <1> FileInv /\ file \in Tokens \cup {NoToken} /\ now \in Nat
    BY InvSplit DEF FileInv, TimerInv
  <1>1. CASE Unlink(c)
    <2>1. CASE file' = NoToken /\ removals' = removals + 1
      <3>1. call' = [call EXCEPT ![c] = Idle] /\ lastRefresh' = lastRefresh
        BY <1>1 DEF Unlink, Become
      <3>2. /\ call' \in [Calls -> CallStates]
            /\ Idle.wait = "idle" /\ Idle.began = 0 /\ Idle.seen = 0
        BY <3>1, QuietStates, SuspendedFacts DEF Quiet, Idle, Waits, Jobs, Inv, TypeOK
      <3>3. \A d \in Calls : call'[d] = IF d = c THEN Idle ELSE call[d]
        BY <3>1 DEF Inv, TypeOK
      <3>4. StampInv' /\ SeenInv' /\ WriteInv' /\ SpacedRefreshes'
        BY <3>1, <3>2, <3>3, <2>1
        DEF Inv, TypeOK, StampInv, SeenInv, WriteInv, SpacedRefreshes,
            EarlyRefresh, Refreshing, CallStates
      <3>5. \A d \in Calls : call'[d].seen # removals'
        BY <3>2, <3>3, <2>1 DEF Inv, TypeOK, SeenInv, CallStates
      <3>6. RevivalNeedsOverlap'
        BY <3>5 DEF RevivalNeedsOverlap
      <3>7. TimerInv' /\ FileInv'
        BY <1>1, <2>1, InvSplit
        DEF Unlink, timer_vars, TimerInv, ClockInv, HandleIsLive, FileInv
      <3> QED BY <3>2, <3>4, <3>6, <3>7, InvSplit DEF CallInv, Inv, TypeOK, TimerInv, FileInv
    <2>2. CASE file' = file /\ removals' = removals
      <3>1. CallInv'
        BY <1>1, <2>2, QuietStep, QuietStates DEF Unlink
      <3>2. TimerInv' /\ FileInv'
        BY <1>1, <2>2, InvSplit
        DEF Unlink, timer_vars, TimerInv, ClockInv, HandleIsLive, FileInv
      <3> QED BY <3>1, <3>2 DEF CallInv, Inv, TypeOK, TimerInv, FileInv
    <2> QED BY <1>1, <2>1, <2>2 DEF Unlink
  <1>2. CASE ReadToken(c)
    <2>1. CallInv' /\ TimerInv'
      <3>1. CASE file # NoToken /\ NoRefreshDue(file) /\ Resolve(c, file)
                 /\ lastRefresh' = lastRefresh
        BY <1>2, <3>1, ResolveStep, TokenFacts DEF ReadToken
      <3>2. CASE file # NoToken /\ ~NoRefreshDue(file) /\ lastRefresh' = now
                 /\ Become(c, [wait |-> "readRegistration", job |-> call[c].job,
                               held |-> file, began |-> now, seen |-> removals])
                 /\ UNCHANGED <<now, timer_vars>>
        BY <1>2, <3>2, BeginStep DEF ReadToken
      <3>3. CASE Reject(c) /\ lastRefresh' = lastRefresh
        BY <1>2, <3>3, RejectStep DEF ReadToken
      <3> QED BY <1>2, <3>1, <3>2, <3>3 DEF ReadToken
    <2>2. FileInv'
      BY <1>2 DEF ReadToken, FileInv
    <2> QED BY <2>1, <2>2 DEF CallInv, Inv, TypeOK, TimerInv, FileInv
  <1>3. CASE ReadRegistration(c)
    <2>1. CallInv' /\ TimerInv'
      BY <1>3, AwaitStep, RejectStep DEF ReadRegistration, UseRegistration
    <2>2. FileInv'
      BY <1>3 DEF ReadRegistration, FileInv
    <2> QED BY <2>1, <2>2 DEF CallInv, Inv, TypeOK, TimerInv, FileInv
  <1>4. CASE RegisterClient(c)
    <2>1. CallInv' /\ TimerInv'
      BY <1>4, AwaitStep, RejectStep DEF RegisterClient
    <2>2. FileInv'
      BY <1>4 DEF RegisterClient, FileInv
    <2> QED BY <2>1, <2>2 DEF CallInv, Inv, TypeOK, TimerInv, FileInv
  <1>5. CASE WriteRegistration(c)
    <2>1. CallInv' /\ TimerInv'
      BY <1>5, AwaitStep, RejectStep DEF WriteRegistration, UseRegistration
    <2>2. FileInv'
      BY <1>5, Zenon DEF WriteRegistration, FileInv
    <2> QED BY <2>1, <2>2 DEF CallInv, Inv, TypeOK, TimerInv, FileInv
  <1>6. CASE CreateToken(c)
    <2>1. CallInv' /\ TimerInv'
      <3>1. CASE \E token \in IssuedTokens :
                    /\ Become(c, [call[c] EXCEPT !.wait = "writeToken", !.held = token])
                    /\ UNCHANGED <<now, timer_vars>>
        BY <1>6, <3>1, IssueStep, IssuedFacts, Zenon DEF CreateToken
      <3>2. CASE Reject(c)
        BY <1>6, <3>2, RejectStep DEF CreateToken
      <3> QED BY <1>6, <3>1, <3>2, Zenon DEF CreateToken
    <2>2. FileInv'
      BY <1>6, Zenon DEF CreateToken, FileInv
    <2> QED BY <2>1, <2>2 DEF CallInv, Inv, TypeOK, TimerInv, FileInv
  <1>7. CASE WriteToken(c) \/ LoginWrite(c)
    <2>1. call[c].held \in Tokens
      BY <1>7, TokenFacts DEF WriteToken, LoginWrite, Inv, TypeOK, WriteInv, CallStates
    <2>2. CallInv' /\ TimerInv'
      BY <1>7, <2>1, TokenFacts, ResolveStep, RejectStep DEF WriteToken, LoginWrite
    <2>3. FileInv'
      BY <1>7, <2>1 DEF WriteToken, LoginWrite, FileInv
    <2> QED BY <2>2, <2>3 DEF CallInv, Inv, TypeOK, TimerInv, FileInv
  <1>8. CASE Flow(c)
    <2>1. CallInv' /\ TimerInv'
      <3>1. CASE \E token \in IssuedTokens :
                    /\ Become(c, [call[c] EXCEPT !.wait = "loginWrite", !.held = token])
                    /\ UNCHANGED <<now, timer_vars>>
        BY <1>8, <3>1, IssueStep, IssuedFacts, Zenon DEF Flow
      <3>2. CASE Reject(c)
        BY <1>8, <3>2, RejectStep DEF Flow
      <3> QED BY <1>8, <3>1, <3>2, Zenon DEF Flow
    <2>2. FileInv'
      BY <1>8, Zenon DEF Flow, FileInv
    <2> QED BY <2>1, <2>2 DEF CallInv, Inv, TypeOK, TimerInv, FileInv
  <1> QED BY <1>1, <1>2, <1>3, <1>4, <1>5, <1>6, <1>7, <1>8 DEF Step

(* The requests, the timers and the environment.                           *)
LEMMA OtherStep ==
    ASSUME Inv,
           \/ \E c \in Calls : InvalidateSsoToken(c)
           \/ \E c \in Calls, login \in BOOLEAN : GetSsoToken(c, login)
           \/ \E h \in Handles, c \in Calls : TimerFires(h, c)
           \/ Dispose \/ OtherWrites \/ OtherRemoves \/ Tick
    PROVE  Inv'
  <1> USE DEF file_vars
  <1> CallInv /\ TimerInv /\ FileInv
    BY InvSplit
  <1>0. CallInv' /\ TimerInv' /\ FileInv' => Inv'
    BY DEF CallInv, Inv, TypeOK, TimerInv, FileInv
  <1>1. ASSUME NEW c \in Calls, InvalidateSsoToken(c) PROVE Inv'
    <2>1. CallInv'
      BY <1>1, QuietStep, QuietStates DEF InvalidateSsoToken
    <2>2. TimerInv' /\ FileInv'
      BY <1>1, UnwatchStep DEF InvalidateSsoToken, FileInv
    <2> QED BY <1>0, <2>1, <2>2
  <1>2. ASSUME NEW c \in Calls, NEW login \in BOOLEAN, GetSsoToken(c, login) PROVE Inv'
    <2>1. CallInv'
      BY <1>2, QuietStep, QuietStates DEF GetSsoToken, Jobs
    <2>2. TimerInv' /\ FileInv'
      BY <1>2 DEF GetSsoToken, timer_vars, TimerInv, ClockInv, HandleIsLive, FileInv
    <2> QED BY <1>0, <2>1, <2>2
  <1>3. ASSUME NEW h \in Handles, NEW c \in Calls, TimerFires(h, c) PROVE Inv'
    <2>1. CallInv'
      BY <1>3, QuietStep, QuietStates DEF TimerFires, Jobs
    <2>2. TimerInv' /\ FileInv'
      BY <1>3 DEF TimerFires, Unwatched, TimerInv, ClockInv, HandleIsLive, FileInv, Off
    <2> QED BY <1>0, <2>1, <2>2
  <1>4. CASE Dispose
    <2>1. CallInv'
      BY <1>4 DEF Dispose, CallInv, StampInv, SeenInv, WriteInv, SpacedRefreshes,
                  EarlyRefresh, Refreshing, RevivalNeedsOverlap
    <2>2. TimerInv' /\ FileInv'
      BY <1>4, UnwatchStep DEF Dispose, FileInv
    <2> QED BY <1>0, <2>1, <2>2
  <1>5. CASE OtherWrites
    <2>1. file' \in Tokens /\ file' # NoToken
      BY <1>5, IssuedFacts DEF OtherWrites, TimerInv
    <2>2. CallInv'
      BY <1>5, <2>1 DEF OtherWrites, CallInv, StampInv, SeenInv, WriteInv,
           SpacedRefreshes, EarlyRefresh, Refreshing, RevivalNeedsOverlap
    <2>3. TimerInv' /\ FileInv'
      BY <1>5, <2>1 DEF OtherWrites, timer_vars, TimerInv, ClockInv, HandleIsLive, FileInv
    <2> QED BY <1>0, <2>2, <2>3
  <1>6. CASE OtherRemoves
    <2>1. \A c \in Calls : call[c].seen \in Nat /\ call[c].seen # removals'
      BY <1>6 DEF OtherRemoves, CallInv, CallStates, SeenInv, FileInv
    <2>2. CallInv'
      BY <1>6, <2>1 DEF OtherRemoves, CallInv, CallStates, FileInv, StampInv, SeenInv,
           WriteInv, SpacedRefreshes, EarlyRefresh, Refreshing, RevivalNeedsOverlap
    <2>3. TimerInv' /\ FileInv'
      BY <1>6 DEF OtherRemoves, timer_vars, TimerInv, ClockInv, HandleIsLive, FileInv
    <2> QED BY <1>0, <2>2, <2>3
  <1>7. CASE Tick
    <2>1. CallInv'
      BY <1>7 DEF Tick, CallInv, StampInv, SeenInv, WriteInv, SpacedRefreshes,
                  EarlyRefresh, Refreshing, RevivalNeedsOverlap
    <2>2. TimerInv' /\ FileInv'
      BY <1>7 DEF Tick, timer_vars, TimerInv, ClockInv, HandleIsLive, FileInv
    <2> QED BY <1>0, <2>1, <2>2
  <1> QED BY <1>1, <1>2, <1>3, <1>4, <1>5, <1>6, <1>7
-----------------------------------------------------------------------------
(* Inv is an invariant of the token cache and its refresher.               *)
THEOREM Invariance == Spec => []Inv
  <1>1. Inv /\ [Next]_vars => Inv'
    <2> SUFFICES ASSUME Inv, [Next]_vars PROVE Inv'
      OBVIOUS
    <2>1. CASE Next
      BY <2>1, CallStep, OtherStep DEF Next
    <2>2. CASE UNCHANGED vars
      BY <2>2 DEF vars, file_vars, timer_vars, Inv, TypeOK, ClockInv, StampInv,
           SeenInv, WriteInv, SpacedRefreshes, EarlyRefresh, Refreshing,
           RevivalNeedsOverlap, HandleIsLive
    <2> QED BY <2>1, <2>2
  <1> QED BY InitInv, <1>1, PTL DEF Spec

(* RefreshingSsoCache.getSsoToken: however many calls overlap, two early   *)
(* refreshes of the token that are both outstanding began a cooldown apart. *)
THEOREM Spacing == Spec => []SpacedRefreshes
  <1>1. Inv => SpacedRefreshes
    BY DEF Inv
  <1> QED BY Invariance, <1>1, PTL

(* A removed token file is brought back by a refresh only if the removal   *)
(* overlapped that refresh.                                                *)
THEOREM Revival == Spec => []RevivalNeedsOverlap
  <1>1. Inv => RevivalNeedsOverlap
    BY DEF Inv
  <1> QED BY Invariance, <1>1, PTL

(* The auto-refresher's map never holds the handle of a timer that fired.  *)
THEOREM LiveHandle == Spec => []HandleIsLive
  <1>1. Inv => HandleIsLive
    BY DEF Inv
  <1> QED BY Invariance, <1>1, PTL

(* The token cache, the calls of getSsoToken and the timers of the         *)
(* auto-refresher keep their types.                                        *)
THEOREM TypeCorrect == Spec => []TypeOK
  <1>1. Inv => TypeOK
    BY DEF Inv
  <1> QED BY Invariance, <1>1, PTL

(***************************************************************************)
(* The device code flow.  DeviceConstants is what its TimeAssumption says  *)
(* of the durations.                                                       *)
(***************************************************************************)
CONSTANTS Expiration, ResponseTimeout

VARIABLES cancelled, began

Device == INSTANCE DeviceCodeFlow

DeviceConstants ==
    /\ Expiration \in Nat /\ Interval \in Nat \ {0} /\ BackoffDelay \in Nat
    /\ ResponseTimeout \in Nat /\ MaxLatency \in Nat /\ Horizon \in Nat

\* The types, as the provers need them.
DeviceTypes ==
    /\ time \in Nat /\ time <= Horizon /\ at \in Device!Ats /\ outcome \in Device!Outcomes
    /\ expiresAt \in Nat /\ deadline \in Nat
    /\ slowdowns \in Nat /\ interval \in Nat /\ interval = Interval + slowdowns * BackoffDelay
    /\ cancelled \in BOOLEAN /\ progress \in {"none", "open", "closed"}
    /\ grant \in 0..Never /\ began \in 0..Never
    /\ answered \in 0..Never /\ slowedAt \in 0..Never

\* Which values go with each place of the flow.
DevicePlaces ==
    /\ at = "ended" <=> outcome # "pending"
    /\ at \in {"start", "showing"} => progress = "none" /\ answered = Never
    /\ at \in {"polling", "sleeping"} => progress = "open" /\ began <= time
    /\ at = "ended" => progress # "open"
    /\ at = "polling" => time <= began + MaxLatency
    /\ at = "sleeping" => /\ answered <= time /\ time <= deadline
                          /\ deadline = answered + interval
                          /\ answered <= began + MaxLatency
    /\ progress = "none" => grant = Never
    /\ grant # Never => grant <= time

\* No slow-down came after the confirmation.
Unslowed == slowedAt = Never \/ slowedAt <= grant

\* A confirmation that came before the last poll began is in its answer.
DeviceConfirmed ==
    /\ grant # Never /\ Unslowed /\ at = "sleeping" => began <= grant
    /\ ConfirmedInTimeIsHonoured

DeviceInv == DeviceTypes /\ DevicePlaces /\ DeviceConfirmed

-----------------------------------------------------------------------------
\* A sum of natural numbers is one, and not less than its first term.
LEMMA NatSum == \A a, b \in Nat : a + b \in Nat /\ a <= a + b
OBVIOUS

LEMMA DeviceInitially == ASSUME DeviceConstants PROVE Device!Init => DeviceInv
<1> SUFFICES ASSUME Device!Init PROVE DeviceInv
    OBVIOUS
<1> USE DEF DeviceConstants, Device!Init, Device!Never, Never
<1>1. Interval \in Nat /\ Interval = Interval + 0 * BackoffDelay
    OBVIOUS
<1>2. DeviceTypes
    <2>1. Never \in Nat /\ 0 <= Horizon /\ Never \in 0..Never
        OBVIOUS
    <2>2. interval \in Nat /\ interval = Interval + slowdowns * BackoffDelay /\ slowdowns \in Nat
        BY <1>1
    <2> QED BY <2>1, <2>2, Zenon DEF DeviceTypes, Device!Ats, Device!Outcomes
<1>3. DevicePlaces
    BY DEF DevicePlaces
<1>4. DeviceConfirmed
    BY DEF DeviceConfirmed, ConfirmedInTimeIsHonoured
<1> QED BY <1>2, <1>3, <1>4 DEF DeviceInv

\* The head of the polling loop, reached from a message that was answered or from a sleep.
LEMMA DevicePolls ==
    ASSUME DeviceConstants, DeviceInv, Device!Acknowledge \/ Device!WakeUp
    PROVE  DeviceInv'
<1> USE DEF DeviceConstants, Device!Never, Never
<1>1. Device!Poll(interval)
    BY DEF Device!Acknowledge, Device!WakeUp
<1>2. UNCHANGED <<time, expiresAt, interval, deadline, answered, slowdowns, slowedAt,
    Device!userVars>>
    BY DEF Device!Acknowledge, Device!WakeUp
<1>3. /\ at \in {"showing", "sleeping"}
      /\ outcome = "pending"
    BY DEF Device!Acknowledge, Device!WakeUp, DeviceInv, DevicePlaces
<1>4. \/ /\ expiresAt <= time + interval
         /\ at' = "ended" /\ outcome' = "timeout" /\ progress' = "closed" /\ began' = began
      \/ at' = "ended" /\ outcome' = "cancelled" /\ progress' = "closed" /\ began' = began
      \/ at' = "polling" /\ began' = time /\ progress' = "open" /\ outcome' = outcome
    BY <1>1 DEF Device!Poll
<1>5. DeviceTypes'
    BY <1>2, <1>3, <1>4 DEF DeviceInv, DeviceTypes, Device!userVars, Device!Ats, Device!Outcomes
<1>6. DevicePlaces'
    BY <1>2, <1>3, <1>4 DEF DeviceInv, DeviceTypes, DevicePlaces, Device!userVars
<1>7. DeviceConfirmed'
    <2>1. at = "showing" => grant = Never
        BY DEF DeviceInv, DevicePlaces
    <2>2. at = "sleeping" /\ grant # Never /\ Unslowed => time <= grant + MaxLatency + interval
        BY DEF DeviceInv, DeviceTypes, DevicePlaces, DeviceConfirmed
    <2>3. ConfirmedInTimeIsHonoured'
        BY <1>2, <1>3, <1>4, <2>1, <2>2 DEF DeviceInv, DeviceTypes, Unslowed,
            ConfirmedInTimeIsHonoured, Device!userVars
    <2> QED BY <1>4, <2>3 DEF DeviceConfirmed
<1> QED BY <1>5, <1>6, <1>7 DEF DeviceInv

\* The polling goes on after an answer without a token.
LEMMA DevicePending ==
    ASSUME DeviceConstants, DeviceInv, Device!AuthorizationPending
    PROVE  DeviceInv'
<1> USE DEF DeviceConstants, Device!Never, Never
<1>1. PICK slow \in {0,
    1} : Device!Sleep(slow) /\ (slow = 0 => grant = Never \/ began <= grant)
    BY DEF Device!AuthorizationPending
<1>2. /\ at = "polling" /\ answered' = time
      /\ UNCHANGED <<time, outcome, expiresAt, progress, began, cancelled, grant>>
    BY DEF Device!AuthorizationPending, Device!userVars
<1>3. /\ at' = "sleeping" /\ deadline' = time + interval'
      /\ slowedAt' = IF slow = 1 THEN time ELSE slowedAt
    BY <1>1 DEF Device!Sleep
<1>4. /\ interval' \in Nat /\ slowdowns' \in Nat
      /\ interval' = Interval + slowdowns' * BackoffDelay
    <2>1. CASE slow = 0
        BY <1>1, <2>1 DEF Device!Sleep, DeviceInv, DeviceTypes
    <2>2. CASE slow = 1
        <3>1. interval' = interval + BackoffDelay /\ slowdowns' = slowdowns + 1
            BY <1>1, <2>2 DEF Device!Sleep
        <3>2. (slowdowns + 1) * BackoffDelay = slowdowns * BackoffDelay + BackoffDelay
            BY DEF DeviceInv, DeviceTypes
        <3>3. slowdowns * BackoffDelay \in Nat
            BY DEF DeviceInv, DeviceTypes
        <3> QED BY <3>1, <3>2, <3>3 DEF DeviceInv, DeviceTypes
    <2> QED BY <2>1, <2>2
<1>5. /\ time \in Nat /\ time <= Horizon /\ began \in Nat /\ deadline' \in Nat
      /\ began <= time /\ time <= began + MaxLatency /\ time <= deadline'
    <2>1. interval' \in Nat
        BY <1>4, Zenon
    <2>2. /\ time \in Nat /\ time <= Horizon /\ began \in 0..Never
          /\ began <= time /\ time <= began + MaxLatency
        BY <1>2 DEF DeviceInv, DeviceTypes, DevicePlaces
    <2>3. deadline' = time + interval'
        BY <1>3
    <2>4. deadline' \in Nat /\ time <= deadline'
        BY <2>1, <2>2, <2>3, NatSum, Zenon
    <2> QED BY <2>2, <2>4
<1>6. DeviceTypes'
    <2>1. answered' \in 0..Never /\ slowedAt' \in 0..Never
        BY <1>2, <1>3, <1>5 DEF DeviceInv, DeviceTypes
    <2> QED BY <1>2, <1>3, <1>4, <1>5, <2>1, Zenon DEF DeviceInv, DeviceTypes, Device!Ats
<1>7. DevicePlaces'
    BY <1>2, <1>3, <1>5 DEF DeviceInv, DevicePlaces
<1>8. DeviceConfirmed'
    BY <1>1, <1>2, <1>3 DEF DeviceInv, DeviceTypes, DevicePlaces, DeviceConfirmed, Unslowed,
        ConfirmedInTimeIsHonoured
<1> QED BY <1>6, <1>7, <1>8 DEF DeviceInv

\* The steps that end the flow with End(how).
LEMMA DeviceEnds ==
    ASSUME DeviceConstants, DeviceInv,
        Device!TokenCreated \/ Device!CreateTokenFails \/ Device!NotAcknowledged
    PROVE  DeviceInv'
<1> USE DEF DeviceConstants, Device!Never, Never
<1>1. PICK how \in {"token", "failed", "cancelled", "timeout"} :
        Device!End(how) /\ (how = "timeout" => at = "showing")
    BY DEF Device!TokenCreated, Device!CreateTokenFails, Device!NotAcknowledged
<1>2. /\ answered' \in {answered, time} /\ at \in {"polling", "showing"}
      /\ UNCHANGED <<time, expiresAt, interval, deadline, began, slowdowns, slowedAt, cancelled,
          grant>>
    BY DEF Device!TokenCreated, Device!CreateTokenFails, Device!NotAcknowledged, Device!userVars
<1>3. /\ at' = "ended" /\ outcome' = how
      /\ progress' = IF progress = "none" THEN "none" ELSE "closed"
    BY <1>1 DEF Device!End
<1>4. DeviceTypes'
    BY <1>2, <1>3 DEF DeviceInv, DeviceTypes, Device!Ats, Device!Outcomes
<1>5. DevicePlaces'
    BY <1>2, <1>3 DEF DeviceInv, DeviceTypes, DevicePlaces
<1>6. DeviceConfirmed'
    BY <1>1, <1>2, <1>3 DEF DeviceInv, DevicePlaces, DeviceConfirmed,
        ConfirmedInTimeIsHonoured
<1> QED BY <1>4, <1>5, <1>6 DEF DeviceInv

LEMMA DeviceInductive ==
    ASSUME DeviceConstants PROVE DeviceInv /\ [Device!Next]_(Device!vars) => DeviceInv'
<1> SUFFICES ASSUME DeviceInv, [Device!Next]_(Device!vars) PROVE DeviceInv'
    OBVIOUS
<1> USE DEF DeviceConstants, Device!Never, Never
<1>1. CASE Device!StartDeviceAuthorization
    BY <1>1 DEF Device!StartDeviceAuthorization, Device!End, DeviceInv, DeviceTypes, DevicePlaces,
        DeviceConfirmed, Unslowed,
        ConfirmedInTimeIsHonoured, Device!userVars, Device!Ats, Device!Outcomes
<1>2. CASE Device!Acknowledge \/ Device!WakeUp
    BY <1>2, DevicePolls
<1>3. CASE Device!TokenCreated \/ Device!CreateTokenFails \/ Device!NotAcknowledged
    BY <1>3, DeviceEnds
<1>4. CASE Device!AuthorizationPending
    BY <1>4, DevicePending
<1>5. CASE Device!Confirm
    BY <1>5 DEF Device!Confirm, DeviceInv, DeviceTypes, DevicePlaces, DeviceConfirmed, Unslowed,
        ConfirmedInTimeIsHonoured,
        Device!flowVars, Device!Outcomes
<1>6. CASE Device!Cancel
    BY <1>6 DEF Device!Cancel, DeviceInv, DeviceTypes, DevicePlaces, DeviceConfirmed, Unslowed,
        ConfirmedInTimeIsHonoured,
        Device!flowVars
<1>7. CASE Device!Tick
    BY <1>7 DEF Device!Tick, DeviceInv, DeviceTypes, DevicePlaces, DeviceConfirmed, Unslowed,
        ConfirmedInTimeIsHonoured,
        Device!flowVars, Device!userVars
<1>8. CASE UNCHANGED Device!vars
    BY <1>8 DEF Device!vars, DeviceInv, DeviceTypes, DevicePlaces, DeviceConfirmed, Unslowed,
        ConfirmedInTimeIsHonoured,
        Device!flowVars, Device!userVars
<1> QED BY <1>1, <1>2, <1>3, <1>4, <1>5, <1>6, <1>7, <1>8 DEF Device!Next, Device!Server

LEMMA DeviceInvariance == ASSUME DeviceConstants PROVE Device!Spec => []DeviceInv
BY DeviceInitially, DeviceInductive, PTL DEF Device!Spec

-----------------------------------------------------------------------------
\* For all durations, the variables of the device code flow have their types and the interval is
\* the first one plus the slow-downs.
THEOREM DeviceTypeCorrect ==
    ASSUME DeviceConstants PROVE Device!Spec => []Device!TypeOK
<1>1. DeviceInv => Device!TypeOK
    BY DEF DeviceConstants, DeviceInv, DeviceTypes, Device!TypeOK, Device!Never, Never
<1> QED BY <1>1, DeviceInvariance, PTL

\* For all durations, the loop of pollAuthorization only gives up on a confirmed code if the
\* confirmation came in the last two intervals before the expiry.
THEOREM DeviceHonours ==
    ASSUME DeviceConstants PROVE Device!Spec => []ConfirmedInTimeIsHonoured
<1>1. DeviceInv => ConfirmedInTimeIsHonoured
    BY DEF DeviceInv, DeviceConfirmed
<1> QED BY <1>1, DeviceInvariance, PTL

\* For all durations, the finally block of deviceCodeFlow leaves no progress bar open.
THEOREM DeviceCloses ==
    ASSUME DeviceConstants PROVE Device!Spec => []ProgressIsClosed
<1>1. DeviceInv => ProgressIsClosed
    BY DEF DeviceInv, DevicePlaces, ProgressIsClosed
<1> QED BY <1>1, DeviceInvariance, PTL

\* For all durations, pollAuthorization waits for the whole interval, slow-downs included, between
\* an answer and the next createToken.
THEOREM DevicePollsSpaced ==
    ASSUME DeviceConstants PROVE Device!Spec => PollsAreSpaced
<1> DEFINE A == at # "polling" /\ at' = "polling" /\ answered # Never =>
                    answered + Interval + slowdowns * BackoffDelay <= time
<1>1. ASSUME DeviceInv, [Device!Next]_(Device!vars) PROVE [A]_(Device!vars)
    <2> SUFFICES ASSUME Device!Next, at # "polling", at' = "polling", answered # Never
                 PROVE  answered + Interval + slowdowns * BackoffDelay <= time
        BY <1>1
    <2>1. Device!WakeUp
        BY <1>1 DEF Device!Next, Device!Server, Device!StartDeviceAuthorization, Device!End,
            Device!Acknowledge, Device!NotAcknowledged, Device!TokenCreated,
            Device!CreateTokenFails, Device!AuthorizationPending, Device!Confirm, Device!Cancel,
                Device!Tick, DeviceInv, DevicePlaces
    <2>2. deadline <= time
        <3>1. expiresAt \in Nat /\ time \in Nat /\ interval \in Nat
            BY <1>1 DEF DeviceInv, DeviceTypes
        <3> QED BY <2>1, <3>1 DEF Device!WakeUp, Device!Poll
    <2>3. deadline = answered + interval
        BY <1>1, <2>1 DEF Device!WakeUp, DeviceInv, DevicePlaces
    <2>4. slowdowns * BackoffDelay \in Nat
        BY <1>1 DEF DeviceConstants, DeviceInv, DeviceTypes
    <2> QED BY <1>1, <2>2, <2>3, <2>4 DEF DeviceConstants, DeviceInv, DeviceTypes, Device!Never, Never
<1>2. ASSUME DeviceInv, [Device!Next]_(Device!vars) PROVE [A]_at
    BY <1>1, <1>2 DEF Device!vars
<1> QED BY <1>2, DeviceInvariance, PTL DEF Device!Spec, PollsAreSpaced

\* For all durations, deviceCodeFlow is an authorization flow.
THEOREM DeviceImplements ==
    ASSUME DeviceConstants PROVE Device!Spec => ImplementsFlow
<1>1. Device!Init => Authorization!Init
    BY DEF Device!Init, Device!Never, Authorization!Init, Never
<1>2. ASSUME DeviceInv, [Device!Next]_(Device!vars) PROVE [Authorization!Next]_(Authorization!vars)
    <2> USE <1>2
    <2>1. CASE outcome' = outcome /\ grant' = grant
        BY <2>1 DEF Authorization!vars
    <2>2. CASE Device!Confirm
        BY <2>2 DEF DeviceConstants, Device!Confirm, Device!flowVars, DeviceInv, DeviceTypes,
            DevicePlaces, Device!Never, Never, Authorization!Next, Authorization!Grant
    <2>3. CASE outcome = "pending" /\ outcome' \in {"timeout", "cancelled",
        "failed"} /\ grant' = grant
        BY <2>3 DEF Authorization!Next, Authorization!Settle
    <2>4. CASE Device!TokenCreated
        BY <2>4 DEF Device!TokenCreated, Device!End, Device!userVars, Device!Never, Never,
            DeviceInv, DevicePlaces, Authorization!Next, Authorization!Settle
    <2>5. CASE Device!Acknowledge \/ Device!WakeUp
        <3>1. outcome = "pending" /\ grant' = grant
            BY <2>5 DEF Device!Acknowledge, Device!WakeUp, Device!userVars, DeviceInv, DevicePlaces
        <3>2. outcome' \in {outcome, "timeout", "cancelled"}
            BY <2>5 DEF Device!Acknowledge, Device!WakeUp, Device!Poll
        <3> QED BY <3>1, <3>2, <2>1, <2>3
    <2>6. CASE Device!StartDeviceAuthorization \/ Device!NotAcknowledged \/ Device!CreateTokenFails
        <3>1. outcome = "pending" /\ grant' = grant
            BY <2>6 DEF Device!StartDeviceAuthorization, Device!NotAcknowledged,
                Device!CreateTokenFails, Device!userVars, DeviceInv, DevicePlaces
        <3>2. outcome' \in {outcome, "timeout", "cancelled", "failed"}
            BY <2>6 DEF Device!StartDeviceAuthorization, Device!NotAcknowledged,
                Device!CreateTokenFails, Device!End
        <3> QED BY <3>1, <3>2, <2>1, <2>3
    <2>7. CASE Device!AuthorizationPending \/ Device!Cancel \/ Device!Tick \/ UNCHANGED Device!vars
        BY <2>7, <2>1 DEF Device!AuthorizationPending, Device!Cancel, Device!Tick, Device!vars,
            Device!flowVars, Device!userVars
    <2> QED BY <2>2, <2>4, <2>5, <2>6, <2>7 DEF Device!Next, Device!Server
<1> QED BY <1>1, <1>2, DeviceInvariance, PTL DEF Device!Spec, ImplementsFlow,
    Authorization!Spec

(***************************************************************************)
(* The authorization code flow; both flows have at, outcome and cancelled. *)
(***************************************************************************)
VARIABLES auth, server, heard, granted, location, answer, page

Pkce == INSTANCE PkceFlow

PkceInv ==
    /\ auth = "resolved" => granted
    /\ at = "exchanging" => auth = "resolved"
    /\ at = "ended" <=> outcome # "pending"
    /\ server = "listening" <=> at \in {"waiting", "exchanging"}
    /\ at \in {"starting", "waiting", "exchanging", "ended"}
    /\ granted \in BOOLEAN

LEMMA PkceInitially == Pkce!Init => PkceInv
BY Zenon DEF Pkce!Init, PkceInv

LEMMA PkceInductive == PkceInv /\ [Pkce!Next]_(Pkce!vars) => PkceInv'
<1> SUFFICES ASSUME PkceInv, [Pkce!Next]_(Pkce!vars) PROVE PkceInv'
    OBVIOUS
<1> USE DEF PkceInv
<1>1. CASE Pkce!Start
    BY <1>1 DEF Pkce!Start
<1>2. CASE Pkce!Grant
    BY <1>2 DEF Pkce!Grant
<1>3. CASE Pkce!Redirect
    BY <1>3 DEF Pkce!Redirect, Pkce!Settled
<1>4. CASE Pkce!RedirectFailed
    BY <1>4 DEF Pkce!RedirectFailed, Pkce!Settled
<1>5. CASE Pkce!LoadPage \/ Pkce!Cancel
    BY <1>5 DEF Pkce!LoadPage, Pkce!Cancel
<1>6. CASE Pkce!CancellationHeard
    BY <1>6 DEF Pkce!CancellationHeard, Pkce!Settled
<1>7. CASE Pkce!CodeReceived
    BY <1>7 DEF Pkce!CodeReceived
<1>8. CASE Pkce!NoCode \/ Pkce!Exchanged
    BY <1>8 DEF Pkce!NoCode, Pkce!Exchanged, Pkce!End
<1>9. CASE UNCHANGED Pkce!vars
    BY <1>9 DEF Pkce!vars
<1> QED BY <1>1, <1>2, <1>3, <1>4, <1>5, <1>6, <1>7, <1>8, <1>9 DEF Pkce!Next, Pkce!Server

\* authorizationCodePkceFlow is an authorization flow: it ends once, and with a token only after
\* the user granted the authorization.
THEOREM PkceImplements == Pkce!Spec => Pkce!ImplementsFlow
<1>1. Pkce!Init => Pkce!Flow!Init
    BY DEF Pkce!Init, Pkce!Flow!Init
<1>2. PkceInv /\ [Pkce!Next]_(Pkce!vars) => [Pkce!Flow!Next]_(Pkce!Flow!vars)
    <2> SUFFICES ASSUME PkceInv, [Pkce!Next]_(Pkce!vars) PROVE [Pkce!Flow!Next]_(Pkce!Flow!vars)
        OBVIOUS
    <2>1. CASE UNCHANGED <<outcome, granted>>
        BY <2>1 DEF Pkce!Flow!vars
    <2>2. CASE Pkce!Grant
        BY <2>2 DEF Pkce!Grant, PkceInv, Pkce!Flow!Next, Pkce!Flow!Grant
    <2>3. CASE Pkce!NoCode \/ Pkce!Exchanged
        BY <2>3 DEF Pkce!NoCode, Pkce!Exchanged, Pkce!End, PkceInv, Pkce!Flow!Next, Pkce!Flow!Settle
    <2> QED BY <2>1, <2>2, <2>3 DEF Pkce!Next, Pkce!Server, Pkce!Start, Pkce!CancellationHeard,
            Pkce!CodeReceived, Pkce!Redirect, Pkce!RedirectFailed, Pkce!LoadPage, Pkce!Cancel, Pkce!vars
<1>3. Pkce!Spec => []PkceInv
    BY PkceInitially, PkceInductive, PTL DEF Pkce!Spec
<1> QED BY <1>1, <1>2, <1>3, PTL DEF Pkce!Spec, Pkce!ImplementsFlow, Pkce!Flow!Spec
=============================================================================
