--------------------------- MODULE DeviceCodeFlow ---------------------------
(***************************************************************************)
(* The device code flow (sso/deviceCode/deviceCodeFlow.ts): the user       *)
(* confirms a code in the browser while the server polls the SSO OIDC      *)
(* service for the token, until the authorization expires or the client    *)
(* cancels.  Time is a clock that passes no deadline: a timer fires when   *)
(* it is due, and the service answers within MaxLatency.                   *)
(***************************************************************************)
EXTENDS DeviceCodePromise

CONSTANTS Expiration,       \* how long the authorization lasts
          ResponseTimeout   \* responseTimeout

ASSUME TimeAssumption ==
    /\ Expiration \in Nat /\ Interval \in Nat \ {0} /\ BackoffDelay \in Nat
    /\ ResponseTimeout \in Nat /\ MaxLatency \in Nat /\ Horizon \in Nat

Ats == {"start", "showing", "polling", "sleeping", "ended"}

Outcomes == {"pending", "token", "timeout", "cancelled", "failed"}

VARIABLES deadline,   \* when the wait of the showing or sleeping flow times out
          cancelled,  \* token.isCancellationRequested
          began       \* when the last createToken was sent

flowVars == <<outcome, expiresAt, interval, deadline, progress, began, answered,
              slowdowns, slowedAt>>
userVars == <<cancelled, grant>>
vars == <<time, at, flowVars, userVars>>

Init ==
    /\ time = 0 /\ at = "start" /\ outcome = "pending"
    /\ expiresAt = Never /\ interval = Interval /\ deadline = Never
    /\ cancelled = FALSE /\ progress = "none" /\ grant = Never
    /\ began = Never /\ answered = Never
    /\ slowdowns = 0 /\ slowedAt = Never

\* The flow is over: the finally block closes the progress bar, if it was opened.
End(how) ==
    /\ at' = "ended" /\ outcome' = how
    /\ progress' = IF progress = "none" THEN "none" ELSE "closed"

(***************************************************************************)
(* startDeviceAuthorization and showOnClient.                              *)
(***************************************************************************)
StartDeviceAuthorization ==
    /\ at = "start"
    /\ \/ /\ expiresAt' = time + Expiration
          /\ at' = "showing" /\ deadline' = time + ResponseTimeout
          /\ UNCHANGED <<outcome, progress>>
       \/ End("failed") /\ UNCHANGED <<expiresAt, deadline>>
    /\ UNCHANGED <<time, interval, began, answered, slowdowns, slowedAt, userVars>>

\* Mutant: the loop does not look at the cancellation.
PollUnlessExpired(i) ==
    IF expiresAt <= time + i
    THEN at' = "ended" /\ outcome' = "timeout" /\ progress' = "closed" /\ UNCHANGED began
    ELSE at' = "polling" /\ began' = time /\ progress' = "open" /\ UNCHANGED outcome

\* The head of the polling loop, with the interval i: give up, or ask for the token.
Poll(i) ==
    CASE expiresAt <= time + i ->
            at' = "ended" /\ outcome' = "timeout" /\ progress' = "closed" /\ UNCHANGED began
      [] time + i < expiresAt /\ cancelled ->
            at' = "ended" /\ outcome' = "cancelled" /\ progress' = "closed" /\ UNCHANGED began
      [] OTHER ->
            at' = "polling" /\ began' = time /\ progress' = "open" /\ UNCHANGED outcome

\* The user proceeds to the browser: the page and the progress bar are shown, and the polling
\* begins at once.
Acknowledge ==
    /\ at = "showing"
    /\ Poll(interval)
    /\ UNCHANGED <<time, expiresAt, interval, deadline, answered, slowdowns, slowedAt, userVars>>

\* Mutant: the request of the client is not raced with the timeout.
NotAcknowledgedUntimed ==
    /\ at = "showing"
    /\ End("cancelled") \/ End("failed")
    /\ deadline > time
    /\ UNCHANGED <<time, expiresAt, interval, deadline, began, answered, slowdowns, slowedAt, userVars>>

\* The user dismisses the message, the client fails, or nothing comes before the timeout.
NotAcknowledged ==
    /\ at = "showing"
    /\ \/ End("cancelled") \/ End("failed")
       \/ deadline <= time /\ End("timeout")
    /\ UNCHANGED <<time, expiresAt, interval, deadline, began, answered, slowdowns, slowedAt, userVars>>

(***************************************************************************)
(* pollAuthorization.                                                      *)
(***************************************************************************)
\* Mutant: an answer without a confirmation is taken for a token.
TokenUnchecked ==
    /\ at = "polling"
    /\ End("token")
    /\ answered' = time
    /\ UNCHANGED <<time, expiresAt, interval, deadline, began, slowdowns, slowedAt, userVars>>

TokenCreated ==
    /\ at = "polling" /\ grant # Never
    /\ End("token")
    /\ answered' = time
    /\ UNCHANGED <<time, expiresAt, interval, deadline, began, slowdowns, slowedAt, userVars>>

\* An answer that is neither "pending" nor "slow down", also that of an expired device code.
CreateTokenFails ==
    /\ at = "polling"
    /\ End("failed")
    /\ answered' = time
    /\ UNCHANGED <<time, expiresAt, interval, deadline, began, slowdowns, slowedAt, userVars>>

\* Mutant: the deadline of the sleep is the expiry and not the interval.
SleepUntilExpiry(slow) ==
    /\ interval' = interval + slow * BackoffDelay
    /\ slowdowns' = slowdowns + slow
    /\ slowedAt' = IF slow = 1 THEN time ELSE slowedAt
    /\ at' = "sleeping" /\ deadline' = expiresAt

\* slow is 1 when the answer was a SlowDownException and 0 otherwise.
Sleep(slow) ==
    /\ interval' = interval + slow * BackoffDelay
    /\ slowdowns' = slowdowns + slow
    /\ slowedAt' = IF slow = 1 THEN time ELSE slowedAt
    /\ at' = "sleeping" /\ deadline' = time + interval'

\* The service saw no confirmation yet, as the user had not confirmed when the request was sent,
\* or it asks to slow down, which it may do at any time.
AuthorizationPending ==
    /\ at = "polling"
    /\ \/ (grant = Never \/ began <= grant) /\ Sleep(0)
       \/ Sleep(1)
    /\ answered' = time
    /\ UNCHANGED <<time, outcome, expiresAt, progress, began, userVars>>

\* The interval is over or the client cancels.
WakeUp ==
    /\ at = "sleeping" /\ (deadline <= time \/ cancelled)
    /\ Poll(interval)
    /\ UNCHANGED <<time, expiresAt, interval, deadline, answered, slowdowns, slowedAt, userVars>>

(***************************************************************************)
(* The user, the client and the clock.                                     *)
(***************************************************************************)
Confirm ==
    /\ progress = "open" /\ grant = Never /\ time < expiresAt
    /\ grant' = time
    /\ UNCHANGED <<time, at, flowVars, cancelled>>

Cancel ==
    /\ at # "ended" /\ ~cancelled
    /\ cancelled' = TRUE
    /\ UNCHANGED <<time, at, flowVars, grant>>

Tick ==
    /\ time < Horizon /\ at # "ended"
    /\ at = "start" => time < MaxLatency
    /\ at \in {"showing", "sleeping"} => time < deadline
    /\ at = "sleeping" => ~cancelled
    /\ at = "polling" => time < began + MaxLatency
    /\ time' = time + 1
    /\ UNCHANGED <<at, flowVars, userVars>>

Server ==
    \/ StartDeviceAuthorization \/ Acknowledge \/ NotAcknowledged
    \/ TokenCreated \/ CreateTokenFails \/ AuthorizationPending \/ WakeUp

Next == Server \/ Confirm \/ Cancel \/ Tick

Spec == Init /\ [][Next]_vars

\* Time passes, timers fire and the service answers.  Nothing is assumed of the user.
FairSpec ==
    /\ Spec /\ WF_vars(Tick) /\ WF_vars(StartDeviceAuthorization) /\ WF_vars(WakeUp)
    /\ WF_vars(deadline <= time /\ NotAcknowledged)
    /\ WF_vars(TokenCreated \/ CreateTokenFails \/ AuthorizationPending)

(***************************************************************************)
(* Properties.                                                             *)
(***************************************************************************)
\* Every variable has its type: the times are times of the clock or Never, and the interval is
\* the first one plus the slow-downs.
TypeOK ==
    /\ time \in 0..Horizon /\ at \in Ats /\ outcome \in Outcomes
    /\ expiresAt \in Nat /\ deadline \in Nat
    /\ interval = Interval + slowdowns * BackoffDelay /\ slowdowns \in Nat
    /\ cancelled \in BOOLEAN /\ progress \in {"none", "open", "closed"}
    /\ {grant, began, answered, slowedAt} \subseteq 0..Never
=============================================================================
