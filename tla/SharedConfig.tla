---------------------------- MODULE SharedConfig ----------------------------
(***************************************************************************)
(* The two shared config files as the server reads and writes them         *)
(* (sharedConfig/*.ts).  A file is a function from the settings it holds,  *)
(* pairs of a section and a name, to their values.  Comments, the order of *)
(* lines and the case of names are left out.                               *)
(***************************************************************************)
EXTENDS Naturals, FiniteSets

CONSTANTS Profiles, Sessions,   \* the names of sections
          Urls                  \* the values of sso_start_url

ASSUME SectionsAssumption == Profiles \cap Sessions = {} /\ IsFiniteSet(Profiles \cup Sessions)

\* The settings that matter here: the ones updateProfile writes, one it leaves alone ("region")
\* and a secret one.
Settings ==
    (Profiles \X {"sso_session", "region", "aws_secret_access_key"}) \cup
    (Sessions \X {"sso_start_url", "sso_registration_scopes"})

Values == Sessions \cup Urls \cup {"here", "there", "elsewhere", "key", "scopes"}

IsFile(file) == DOMAIN file \subseteq Settings /\ file \in [DOMAIN file -> Values]

EmptyFile == [k \in {} |-> "here"]

isSecretSetting(k) == k[2] = "aws_secret_access_key"

\* parseKnownFiles: a setting of the credentials file hides the one of the config file.
Merge(config, credentials) ==
    [k \in DOMAIN config \cup DOMAIN credentials |->
        IF k \in DOMAIN credentials THEN credentials[k] ELSE config[k]]

\* unmergeConfigFiles: what becomes of the config file when merged is to be saved.  Secrets leave
\* it, and what only the credentials file holds stays there.
UnmergedConfig(merged, config, credentials) ==
    [k \in {k \in DOMAIN merged : /\ ~isSecretSetting(k)
                                  /\ k \in DOMAIN config \/ k \notin DOMAIN credentials}
        |-> merged[k]]

\* Mutant: a setting goes to the file that it is in, and to the config file if it is in none.
UnmergedCredentialsUnmoved(merged, config, credentials) ==
    [k \in {k \in DOMAIN merged : k \in DOMAIN credentials} |-> merged[k]]

\* unmergeConfigFiles: what becomes of the credentials file.
UnmergedCredentials(merged, config, credentials) ==
    [k \in {k \in DOMAIN merged : isSecretSetting(k) \/ k \in DOMAIN credentials} |-> merged[k]]
=============================================================================
