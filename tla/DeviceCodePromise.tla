-------------------------- MODULE DeviceCodePromise --------------------------
(***************************************************************************)
(* What the device code flow (sso/deviceCode/deviceCodeFlow.ts) promises   *)
(* the user and the SSO OIDC service, in terms of the clock and of the     *)
(* state that DeviceCodeFlow gives a meaning to.                           *)
(***************************************************************************)
EXTENDS Naturals

CONSTANTS Interval,      \* the polling interval at first
          BackoffDelay,  \* backoffDelayMillis
          MaxLatency,    \* how long a call of the service takes at most
          Horizon        \* the end of the clock

Never == Horizon + 1

VARIABLES time, at, outcome, expiresAt,
          interval,   \* intervalMillis
          progress,   \* the client's progress bar
          grant,      \* when the user confirmed the code, Never before
          answered,   \* when the last createToken was answered, Never before the first answer
          slowdowns,  \* how many SlowDownExceptions came
          slowedAt    \* when the last one came, Never before

\* Between an answer of the service and the next createToken at least the polling interval
\* passes, with every SlowDownException counted, although a cancellation cuts the sleep short.
PollsAreSpaced ==
    [][at # "polling" /\ at' = "polling" /\ answered # Never =>
        answered + Interval + slowdowns * BackoffDelay <= time]_at

\* The flow gives up on a user who did confirm the code only if the confirmation came in the
\* last two intervals before the expiry (and the latency of one answer), or if the service
\* asked to slow down after it.
ConfirmedInTimeIsHonoured ==
    outcome = "timeout" /\ grant # Never /\ (slowedAt = Never \/ slowedAt <= grant) =>
        expiresAt <= grant + 2 * interval + MaxLatency

\* The progress bar does not outlive the flow, however it ends.
ProgressIsClosed == outcome # "pending" => progress # "open"

\* The flow ends whatever the user does ("If the user does nothing here (no client response),
\* then we will eventually timeout").
FlowEnds == <>(outcome # "pending")

Authorization == INSTANCE AuthorizationFlow WITH
            outcome <- IF outcome \in {"pending", "token"} THEN outcome ELSE "failed",
            granted <- grant # Never

\* The device code flow is an authorization flow: it ends once, and with a token only if the
\* user confirmed the code before.
ImplementsFlow == Authorization!Spec
=============================================================================
