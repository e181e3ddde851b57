------------------------- MODULE AuthorizationFlow -------------------------
(***************************************************************************)
(* What an SSO authorization flow promises to IdentityService.getSsoToken: *)
(* it ends once, with a token only if the user granted the authorization   *)
(* while the flow was running, and else with an error.  The device code    *)
(* flow and the authorization code flow both implement it, and the action  *)
(* Flow of SsoToken relies on it.                                          *)
(***************************************************************************)
VARIABLES outcome,  \* "pending", "token" or "failed"
          granted   \* whether the user has granted the authorization

vars == <<outcome, granted>>

Init == outcome = "pending" /\ granted = FALSE

Grant ==
    /\ outcome = "pending" /\ ~granted
    /\ granted' = TRUE
    /\ UNCHANGED outcome

Settle ==
    /\ outcome = "pending"
    /\ \/ granted /\ outcome' = "token"
       \/ outcome' = "failed"
    /\ UNCHANGED granted

Next == Grant \/ Settle

Spec == Init /\ [][Next]_vars
============================================================================
