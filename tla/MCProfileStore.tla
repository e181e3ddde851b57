--------------------------- MODULE MCProfileStore ---------------------------
(***************************************************************************)
(* ProfileStore for TLC.  The options that forbid to create a section are  *)
(* tried with one kind of update only, since they only matter before it.   *)
(***************************************************************************)
EXTENDS ProfileStore, TLC

MCRequests ==
    {u \in Updates : \/ /\ u.createNonexistentProfile /\ u.createNonexistentSsoSession
                        /\ u.scopes = "null" => u.updateSharedSsoSession
                     \/ /\ ~u.createNonexistentProfile /\ ~u.createNonexistentSsoSession
                        /\ u.scopes = "absent" /\ u.updateSharedSsoSession}

Symmetry == Permutations(Profiles) \cup Permutations(Urls) \cup Permutations(Calls)
=============================================================================
