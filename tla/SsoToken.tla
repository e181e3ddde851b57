------------------------------ MODULE SsoToken ------------------------------
(***************************************************************************)
(* The life of one SSO token in the AWS identity language server: the      *)
(* refreshing cache in front of the token file (RefreshingSsoCache over    *)
(* FileSystemSsoCache), the timers of SsoTokenAutoRefresher and the two    *)
(* requests of IdentityService that use them, getSsoToken and              *)
(* invalidateSsoToken.                                                     *)
(*                                                                         *)
(* The server is one Node.js thread: what the code does between two awaits *)
(* is one action, and other calls run only while a call waits for a file,  *)
(* for the SSO OIDC service or for the user.  All the state is kept per    *)
(* session name (ssoTokenDetails[name], timeouts[name], one token file per *)
(* name), so one session is modelled.  The token file is shared with other *)
(* processes (other IDEs, the AWS CLI), which may write or remove it at    *)
(* any moment.                                                             *)
(***************************************************************************)
EXTENDS Integers, FiniteSets

CONSTANTS
    Calls,                  \* async calls of the server that may be in flight
    Handles,                \* handles setTimeout may return
    NoHandle,               \* timeouts[name] is undefined
    RefreshWindow,          \* refreshWindowMillis
    RetryCooldown,          \* retryCooldownWindowMillis
    BufferedRefreshWindow,  \* bufferedRefreshWindowMillis
    BufferedRetryCooldown,  \* bufferedRetryCooldownWindowMillis
    MaxRefreshJitter,       \* maxRefreshJitterMillis
    MaxRetryJitter,         \* maxRetryCooldownJitterMillis
    Lifetimes,              \* values of expiresIn the OIDC service answers
    StartTime, MaxTime,     \* the clock runs from StartTime to MaxTime
    MaxRemovals             \* bound on removals of the token file

ASSUME HandleAssumption == NoHandle \notin Handles

(* The relations between the windows that hold of the constants in the     *)
(* code: 0.95 and 1.05 of the windows, 10 s and 3 s of jitter.             *)
ASSUME WindowAssumption ==
    /\ RefreshWindow \in Nat /\ RetryCooldown \in Nat
    /\ BufferedRefreshWindow \in Nat /\ BufferedRefreshWindow <= RefreshWindow
    /\ BufferedRetryCooldown \in Nat /\ RetryCooldown <= BufferedRetryCooldown
    /\ MaxRefreshJitter \in Nat /\ MaxRefreshJitter < BufferedRefreshWindow
    /\ MaxRetryJitter \in Nat

(* lastRefreshMillis starts at 0, long before any reading of the clock.    *)
ASSUME TimeAssumption ==
    /\ StartTime \in Nat /\ MaxTime \in Nat /\ MaxRemovals \in Nat
    /\ RetryCooldown <= StartTime /\ 0 < StartTime
    /\ Lifetimes \subseteq Nat \ {0}

VARIABLES
    now,          \* Date.now()
    file,         \* the token file of the session, NoToken if it is missing
    removals,     \* how often the token file was removed
    registered,   \* the client registration file holds a registration
    lastRefresh,  \* ssoTokenDetails[name].lastRefreshMillis
    timeouts,     \* timeouts[name]
    deadline,     \* when a scheduled timer fires, Off for one not scheduled
    call          \* what each call is waiting for, and what it holds

file_vars == <<file, removals, registered>>
timer_vars == <<timeouts, deadline>>
vars == <<now, file_vars, lastRefresh, timer_vars, call>>

(* SSOToken: when the access token expires and whether there is a refresh  *)
(* token.  A missing file reads as NoToken.                                *)
Tokens == [exp : Nat \ {0}, refresh : BOOLEAN]
NoToken == [exp |-> 0, refresh |-> FALSE]
Off == 0

(* A call is in getSsoToken of the service without ("get") or with         *)
(* ("login") loginOnInvalidToken, is logging in ("authorize"), is in watch *)
(* ("watch") or removes the token ("remove").                              *)
Jobs == {"none", "get", "login", "authorize", "watch", "remove"}

(* The await it is suspended at.                                           *)
Waits == {"idle", "readToken", "readRegistration", "registerClient",
          "writeRegistration", "createToken", "writeToken", "flow",
          "loginWrite", "unlink"}

(* held is the token the call has in its hands, began the nowMillis of its *)
(* refresh, seen the number of removals when it read the token file.       *)
CallStates == [wait : Waits, job : Jobs, held : Tokens \cup {NoToken},
               began : Nat, seen : Nat]

Suspended(wait, job) ==
    [wait |-> wait, job |-> job, held |-> NoToken, began |-> 0, seen |-> 0]

Idle == Suspended("idle", "none")

TypeOK ==
    /\ now \in Nat
    /\ file \in Tokens \cup {NoToken}
    /\ removals \in Nat
    /\ registered \in BOOLEAN
    /\ lastRefresh \in Nat
    /\ timeouts \in Handles \cup {NoHandle}
    /\ deadline \in [Handles -> Nat]
    /\ call \in [Calls -> CallStates]

Init ==
    /\ now = StartTime
    /\ file \in {NoToken} \cup
                [exp : {StartTime + l : l \in Lifetimes}, refresh : BOOLEAN]
    /\ removals = 0
    /\ registered \in BOOLEAN
    /\ lastRefresh = 0
    /\ timeouts = NoHandle
    /\ deadline = [h \in Handles |-> Off]
    /\ call = [c \in Calls |-> Idle]
-----------------------------------------------------------------------------
(* Steps shared by the actions.                                            *)

Become(c, state) == call' = [call EXCEPT ![c] = state]

(* The call goes on to its next await.                                     *)
Await(c, wait) == call' = [call EXCEPT ![c].wait = wait]

(* SsoTokenAutoRefresher.unwatch clears the timer the map knows of.        *)
Unwatched(d) == [h \in Handles |-> IF h = timeouts THEN Off ELSE d[h]]

unwatch ==
    /\ deadline' = Unwatched(deadline)
    /\ timeouts' = NoHandle

(* The delay that watch computes, as the moments its timer may fire.       *)
FireTimes(n, exp) ==
    IF n < exp - RefreshWindow
    THEN (exp - BufferedRefreshWindow) ..
         (exp - BufferedRefreshWindow + MaxRefreshJitter)
    ELSE IF exp - RefreshWindow < n /\ n < exp
    THEN (n + BufferedRetryCooldown) ..
         (n + BufferedRetryCooldown + MaxRetryJitter)
    ELSE {}

(* The rest of watch once the cache answered a token.  It reads the clock  *)
(* a second time, and setTimeout overwrites the handle in the map.         *)
Schedule(c, token) ==
    \E n \in now .. now + 1 :
        /\ n <= MaxTime
        /\ now' = n
        /\ IF FireTimes(n, token.exp) = {}
           THEN UNCHANGED timer_vars
           ELSE \E h \in Handles, at \in FireTimes(n, token.exp) :
                    /\ deadline[h] = Off
                    /\ deadline' = [deadline EXCEPT ![h] = at]
                    /\ timeouts' = h
        /\ Become(c, Idle)

(* RefreshingSsoCache.getSsoToken, or the login, resolves with a token:    *)
(* getSsoToken of the service goes on to watch, watch to its timer.        *)
Resolve(c, token) ==
    IF call[c].job = "watch"
    THEN Schedule(c, token)
    ELSE /\ unwatch
         /\ Become(c, Suspended("readToken", "watch"))
         /\ UNCHANGED now

(* It resolves with undefined, rejects, or a step of the login rejects:    *)
(* only a request with loginOnInvalidToken goes on, to log in.             *)
Reject(c) ==
    /\ Become(c, IF call[c].job = "login"
                 THEN Suspended("readRegistration", "authorize")
                 ELSE Idle)
    /\ UNCHANGED <<now, timer_vars>>
-----------------------------------------------------------------------------
(* The requests of the client, and the timers.                             *)

(* IdentityService.getSsoToken, to its first read of the token file.       *)
GetSsoToken(c, login) ==
    /\ call[c] = Idle
    /\ Become(c, Suspended("readToken", IF login THEN "login" ELSE "get"))
    /\ UNCHANGED <<now, file_vars, lastRefresh, timer_vars>>

(* IdentityService.invalidateSsoToken, to the unlink of the token file.    *)
InvalidateSsoToken(c) ==
    /\ call[c] = Idle
    /\ unwatch
    /\ Become(c, Suspended("unlink", "remove"))
    /\ UNCHANGED <<now, file_vars, lastRefresh>>

(* FileSystemSsoCache.removeSsoToken: a file that does not exist is no     *)
(* error, any other failure of unlink is thrown and leaves the file.       *)
Unlink(c) ==
    /\ call[c].wait = "unlink"
    /\ \/ /\ removals < MaxRemovals
          /\ file' = NoToken
          /\ removals' = removals + 1
       \/ UNCHANGED <<file, removals>>
    /\ Become(c, Idle)
    /\ UNCHANGED <<now, registered, lastRefresh, timer_vars>>

\* Mutant: the timer that fires leaves its handle in the map.
TimerFiresKeepingHandle(h, c) ==
    /\ deadline[h] # Off
    /\ deadline[h] <= now
    /\ call[c] = Idle
    /\ deadline' = [deadline EXCEPT ![h] = Off]
    /\ Become(c, Suspended("readToken", "watch"))
    /\ UNCHANGED <<now, file_vars, lastRefresh, timeouts>>

(* A timer fires: it calls watch, which clears the timer in the map, be it *)
(* this one or another, and reads the token.                               *)
TimerFires(h, c) ==
    /\ deadline[h] # Off
    /\ deadline[h] <= now
    /\ call[c] = Idle
    /\ deadline' = Unwatched([deadline EXCEPT ![h] = Off])
    /\ timeouts' = NoHandle
    /\ Become(c, Suspended("readToken", "watch"))
    /\ UNCHANGED <<now, file_vars, lastRefresh>>

(* SsoTokenAutoRefresher's dispose unwatches every name in the map.        *)
Dispose ==
    /\ timeouts # NoHandle
    /\ unwatch
    /\ UNCHANGED <<now, file_vars, lastRefresh, call>>
-----------------------------------------------------------------------------
(* RefreshingSsoCache.getSsoToken.                                         *)

(* The token may be answered as it is: it has not expired, and is before   *)
(* its refresh window or in the cooldown of the last attempt.              *)
NoRefreshDue(token) ==
    /\ now < token.exp
    /\ \/ now < token.exp - RefreshWindow
       \/ now < lastRefresh + RetryCooldown

\* Mutant: the refresh is recorded only once it has been answered.
ReadTokenUnrecorded(c) ==
    /\ call[c].wait = "readToken"
    /\ \/ file # NoToken /\ NoRefreshDue(file) /\ Resolve(c, file)
       \/ /\ file # NoToken /\ ~NoRefreshDue(file) /\ file.refresh
          /\ Become(c, [wait |-> "readRegistration", job |-> call[c].job,
                        held |-> file, began |-> now, seen |-> removals])
          /\ UNCHANGED <<now, timer_vars>>
       \/ Reject(c)
    /\ UNCHANGED <<file_vars, lastRefresh>>

\* Mutant: the checks for a missing token and refresh token are dropped.
ReadTokenUnchecked(c) ==
    /\ call[c].wait = "readToken"
    /\ IF NoRefreshDue(file)
       THEN Resolve(c, file) /\ UNCHANGED lastRefresh
       ELSE /\ lastRefresh' = now
            /\ Become(c, [wait |-> "readRegistration", job |-> call[c].job,
                          held |-> file, began |-> now, seen |-> removals])
            /\ UNCHANGED <<now, timer_vars>>
    /\ UNCHANGED file_vars

(* The read of the token file completes: answer the token, start a refresh *)
(* of it, or fail (no file, no refresh token, an error of the read).       *)
ReadToken(c) ==
    /\ call[c].wait = "readToken"
    /\ \/ /\ file # NoToken
          /\ NoRefreshDue(file)
          /\ Resolve(c, file)
          /\ UNCHANGED lastRefresh
       \/ /\ file # NoToken
          /\ ~NoRefreshDue(file)
          /\ file.refresh
          /\ lastRefresh' = now
          /\ Become(c, [wait |-> "readRegistration", job |-> call[c].job,
                        held |-> file, began |-> now, seen |-> removals])
          /\ UNCHANGED <<now, timer_vars>>
       \/ Reject(c) /\ UNCHANGED lastRefresh
    /\ UNCHANGED file_vars

(* With a client registration in hand a refresh calls createToken, a login *)
(* starts its authorization flow.                                          *)
UseRegistration(c) ==
    Await(c, IF call[c].job = "authorize" THEN "flow" ELSE "createToken")

(* getSsoClientRegistration: the read of the registration file completes.  *)
(* A registration may have expired at any time.                            *)
ReadRegistration(c) ==
    /\ call[c].wait = "readRegistration"
    /\ \/ /\ (registered /\ UseRegistration(c)) \/ Await(c, "registerClient")
          /\ UNCHANGED <<now, timer_vars>>
       \/ Reject(c)
    /\ UNCHANGED <<file_vars, lastRefresh>>

RegisterClient(c) ==
    /\ call[c].wait = "registerClient"
    /\ \/ Await(c, "writeRegistration") /\ UNCHANGED <<now, timer_vars>>
       \/ Reject(c)
    /\ UNCHANGED <<file_vars, lastRefresh>>

WriteRegistration(c) ==
    /\ call[c].wait = "writeRegistration"
    /\ \/ /\ registered' = TRUE
          /\ UseRegistration(c)
          /\ UNCHANGED <<now, timer_vars>>
       \/ Reject(c) /\ UNCHANGED registered
    /\ UNCHANGED <<file, removals, lastRefresh>>

(* A token the OIDC service answers now, as UpdateSsoTokenFromCreateToken  *)
(* fills it in: the refresh token is the one of the answer, if it has one. *)
IssuedTokens == [exp : {now + l : l \in Lifetimes}, refresh : BOOLEAN]

(* oidc.createToken with the refresh token.                                *)
CreateToken(c) ==
    /\ call[c].wait = "createToken"
    /\ \/ \E token \in IssuedTokens :
              /\ Become(c, [call[c] EXCEPT !.wait = "writeToken", !.held = token])
              /\ UNCHANGED <<now, timer_vars>>
       \/ Reject(c)
    /\ UNCHANGED <<file_vars, lastRefresh>>

(* setSsoToken of the refreshed token completes; raiseSsoTokenChanged.     *)
WriteToken(c) ==
    /\ call[c].wait = "writeToken"
    /\ \/ file' = call[c].held /\ Resolve(c, call[c].held)
       \/ Reject(c) /\ UNCHANGED file
    /\ UNCHANGED <<registered, removals, lastRefresh>>
-----------------------------------------------------------------------------
(* The login of IdentityService.getSsoToken.                               *)

(* The authorization flow (device code or PKCE) answers a token or fails.  *)
Flow(c) ==
    /\ call[c].wait = "flow"
    /\ \/ \E token \in IssuedTokens :
              /\ Become(c, [call[c] EXCEPT !.wait = "loginWrite", !.held = token])
              /\ UNCHANGED <<now, timer_vars>>
       \/ Reject(c)
    /\ UNCHANGED <<file_vars, lastRefresh>>

(* setSsoToken of the new token completes, and the service calls watch.    *)
LoginWrite(c) ==
    /\ call[c].wait = "loginWrite"
    /\ \/ file' = call[c].held /\ Resolve(c, call[c].held)
       \/ Reject(c) /\ UNCHANGED file
    /\ UNCHANGED <<registered, removals, lastRefresh>>
-----------------------------------------------------------------------------
(* The environment.                                                        *)

(* Another process logs in, refreshes or rewrites the token file.          *)
OtherWrites ==
    /\ file' \in IssuedTokens
    /\ UNCHANGED <<now, registered, removals, lastRefresh, timer_vars, call>>

OtherRemoves ==
    /\ file # NoToken
    /\ removals < MaxRemovals
    /\ file' = NoToken
    /\ removals' = removals + 1
    /\ UNCHANGED <<now, registered, lastRefresh, timer_vars, call>>

Tick ==
    /\ now < MaxTime
    /\ now' = now + 1
    /\ UNCHANGED <<file_vars, lastRefresh, timer_vars, call>>

Step(c) ==
    \/ Unlink(c) \/ ReadToken(c) \/ ReadRegistration(c) \/ RegisterClient(c)
    \/ WriteRegistration(c) \/ CreateToken(c) \/ WriteToken(c)
    \/ LoginWrite(c)

Next ==
    \/ \E c \in Calls : Step(c) \/ Flow(c) \/ InvalidateSsoToken(c)
    \/ \E c \in Calls, login \in BOOLEAN : GetSsoToken(c, login)
    \/ \E h \in Handles, c \in Calls : TimerFires(h, c)
    \/ Dispose \/ OtherWrites \/ OtherRemoves \/ Tick

Spec == Init /\ [][Next]_vars
-----------------------------------------------------------------------------
(* The awaits of a refresh, after lastRefreshMillis was set.               *)
Refreshing(c) ==
    /\ call[c].job # "authorize"
    /\ call[c].wait \in {"readRegistration", "registerClient",
                         "writeRegistration", "createToken", "writeToken"}

(* The refresh of a call has not been answered yet, and the access token   *)
(* it is to replace was still valid when it started.                       *)
EarlyRefresh(c) ==
    /\ Refreshing(c)
    /\ call[c].wait # "writeToken"
    /\ call[c].began < call[c].held.exp

(* Setting lastRefreshMillis before the first await keeps calls that       *)
(* overlap from refreshing a valid token at the same time: two early       *)
(* refreshes that are both outstanding began a cooldown apart.             *)
SpacedRefreshes ==
    \A c, d \in Calls :
        c # d /\ EarlyRefresh(c) /\ EarlyRefresh(d) =>
            \/ call[c].began + RetryCooldown <= call[d].began
            \/ call[d].began + RetryCooldown <= call[c].began

(* A refresh writes a token file that is missing only if the file was      *)
(* removed after the refresh had read it: an invalidated token comes back  *)
(* through a refresh that was in flight, and in no other way.              *)
RevivalNeedsOverlap ==
    \A c \in Calls :
        Refreshing(c) /\ call[c].seen = removals => file # NoToken

(* The handle in the map is a timer that is still to fire, so unwatch      *)
(* never clears a handle that is already spent while another one runs.     *)
HandleIsLive == timeouts # NoHandle => deadline[timeouts] # Off
=============================================================================
