---------------------------- MODULE ProfileStore ----------------------------
(***************************************************************************)
(* updateProfile (profiles/profileService.ts), which checks its options    *)
(* against the shared config files and saves a profile and its sso-session *)
(* to them (profiles/sharedConfigProfileStore.ts, sharedConfig/*.ts).  A   *)
(* call reads the files three times and replaces them one after the other, *)
(* each by moving it to a backup and writing a new one.  Other calls, and  *)
(* other processes that use the files, run in between.                     *)
(*                                                                         *)
(* call[c] is one call: at is the await it is suspended at, update what it *)
(* saves, merged the settings it read and changed, and new the files it    *)
(* is about to write.                                                      *)
(***************************************************************************)
EXTENDS SharedConfig

CONSTANTS Calls,      \* calls of updateProfile that may be in progress
          MaxSaves,   \* bound on how many there are in all
          MaxOthers,  \* bound on the writes of other processes
          Requests,   \* the updates that clients ask for
          Missing     \* the file does not exist

VARIABLES disk,       \* the config and the credentials file
          backup,     \* their backups, the files with a ~
          call,
          saves,      \* how many calls there were
          others,     \* how many writes of other processes there were
          wanted,     \* the settings as the finished calls and other processes left them
          overlapped, \* two calls, or a call and another process, met
          broken      \* a save broke off: "no", "now", or "later" when another one began

ghosts == <<wanted, overlapped, broken>>
vars == <<disk, backup, call, saves, others, ghosts>>

FileNames == {"config", "credentials"}

\* A profile with its sso-session, whose scopes are not passed, null or a list, and the options of
\* the request.
Updates == [profile: Profiles, session: Sessions, url: Urls, scopes: {"absent", "null", "list"},
            createNonexistentProfile: BOOLEAN, createNonexistentSsoSession: BOOLEAN,
            updateSharedSsoSession: BOOLEAN]

ASSUME StoreAssumption ==
    IsFiniteSet(Calls) /\ MaxSaves \in Nat /\ MaxOthers \in Nat /\ Requests \subseteq Updates
ASSUME MissingAssumption == \A K \in SUBSET Settings : Missing \notin [K -> Values]

NoUpdate == [profile |-> "none"]

Awaits == {"idle", "options", "merging", "unmerging", "moveConfig", "writeConfig", "moveCredentials",
           "writeCredentials"}

Idle == [at |-> "idle", update |-> NoUpdate, merged |-> EmptyFile,
         new |-> [f \in FileNames |-> EmptyFile]]

\* A file that is missing reads as an empty one.
Read(f) == IF disk[f] = Missing THEN EmptyFile ELSE disk[f]

Known == Merge(Read("config"), Read("credentials"))

Busy == {c \in Calls : call[c].at # "idle"}

Become(c, at) == call' = [call EXCEPT ![c].at = at]

Init ==
    /\ \E p \in Profiles, s \in Sessions, u \in Urls, inCredentials \in BOOLEAN :
        disk = [config |-> [k \in {<<p, "sso_session">>, <<p, "region">>,
                                   <<p, "aws_secret_access_key">>, <<s, "sso_start_url">>} |->
                               CASE k[2] = "sso_session" -> s
                                 [] k[2] = "region" -> "here"
                                 [] k[2] = "aws_secret_access_key" -> "key"
                                 [] k[2] = "sso_start_url" -> u],
                credentials |-> IF inCredentials THEN [k \in {<<p, "region">>} |-> "there"]
                                ELSE Missing]
    /\ backup = [f \in FileNames |-> Missing]
    /\ call = [c \in Calls |-> Idle]
    /\ saves = 0 /\ others = 0
    /\ wanted = Known /\ overlapped = FALSE /\ broken = "no"

(***************************************************************************)
(* ProfileService.updateProfile.                                           *)
(***************************************************************************)
\* What the call sets.
Written(u) ==
    [k \in {<<u.profile, "sso_session">>, <<u.session, "sso_start_url">>} \cup
           (IF u.scopes = "list" THEN {<<u.session, "sso_registration_scopes">>} ELSE {}) |->
        CASE k[2] = "sso_session" -> u.session
          [] k[2] = "sso_start_url" -> u.url
          [] k[2] = "sso_registration_scopes" -> "scopes"]

Removed(u) == IF u.scopes = "null" THEN {<<u.session, "sso_registration_scopes">>} ELSE {}

\* Mutant: the settings of a section are those that are passed.
AppliedReplacing(u, file) ==
    Merge([k \in {k \in DOMAIN file : k[1] \notin {u.profile, u.session}} |-> file[k]], Written(u))

\* applySectionsToParsedIni: a setting that is null is removed, one that is not passed stays.
Applied(u, file) == Merge([k \in DOMAIN file \ Removed(u) |-> file[k]], Written(u))

UpdateProfile(c) ==
    /\ call[c].at = "idle" /\ saves < MaxSaves
    /\ saves' = saves + 1
    /\ \E u \in Requests :
        call' = [call EXCEPT ![c] = [Idle EXCEPT !.at = "options", !.update = u]]
    /\ overlapped' = (overlapped \/ Busy # {})
    /\ broken' = IF broken = "now" THEN "later" ELSE broken
    /\ UNCHANGED <<disk, backup, others, wanted>>

hasProfile(p) == \E k \in DOMAIN Known : k[1] = p

\* Only an sso-session with a start URL is loaded.
hasSsoSession(s) == <<s, "sso_start_url">> \in DOMAIN Known

\* Mutant: every profile is skipped.
isUnsharedSsoSession(u) == FALSE

isSharedSsoSession(u) ==
    \E p \in Profiles \ {u.profile} :
        <<p, "sso_session">> \in DOMAIN Known /\ Known[<<p, "sso_session">>] = u.session

\* The lists of scopes are compared as objects, so two lists always differ.
willUpdateExistingSsoSession(u) ==
    /\ hasSsoSession(u.session)
    /\ \/ u.url # Known[<<u.session, "sso_start_url">>]
       \/ u.scopes = "list" \/ <<u.session, "sso_registration_scopes">> \in DOMAIN Known

Allowed(u) ==
    /\ u.createNonexistentProfile \/ hasProfile(u.profile)
    /\ u.createNonexistentSsoSession \/ hasSsoSession(u.session)
    /\ u.updateSharedSsoSession \/ ~isSharedSsoSession(u) \/ ~willUpdateExistingSsoSession(u)

\* The first reading of the files, for the options.
EnforceOptions(c) ==
    /\ call[c].at = "options"
    /\ IF Allowed(call[c].update) THEN Become(c, "merging") ELSE call' = [call EXCEPT ![c] = Idle]
    /\ UNCHANGED <<disk, backup, saves, others, ghosts>>

(***************************************************************************)
(* SharedConfigProfileStore.save and saveKnownFiles.                       *)
(***************************************************************************)
\* The second reading, which the update is applied to.
MergeFiles(c) ==
    /\ call[c].at = "merging"
    /\ call' = [call EXCEPT ![c].at = "unmerging",
                            ![c].merged = Applied(call[c].update, Known)]
    /\ UNCHANGED <<disk, backup, saves, others, ghosts>>

\* The first part of saveSharedConfigFile: a file that exists is read, for its comments, and then
\* moved, so others run between the test and the move.
Begin(f) ==
    IF disk[f] = Missing THEN [config |-> "writeConfig", credentials |-> "writeCredentials"][f]
    ELSE [config |-> "moveConfig", credentials |-> "moveCredentials"][f]

\* The third reading, which tells what is in which file.
UnmergeFiles(c) ==
    LET m == call[c].merged
        config == Read("config")
        credentials == Read("credentials")
    IN  /\ call[c].at = "unmerging"
        /\ call' = [call EXCEPT ![c].at = Begin("config"),
                                ![c].new = [config |-> UnmergedConfig(m, config, credentials),
                                            credentials |-> UnmergedCredentials(m, config, credentials)]]
        /\ UNCHANGED <<disk, backup, saves, others, ghosts>>

\* Mutant: the old file is removed, not moved.
RemoveFile(c, f) ==
    /\ call[c].at = [config |-> "moveConfig", credentials |-> "moveCredentials"][f]
    /\ disk[f] # Missing
    /\ disk' = [disk EXCEPT ![f] = Missing]
    /\ Become(c, [config |-> "writeConfig", credentials |-> "writeCredentials"][f])
    /\ UNCHANGED <<backup, saves, others, ghosts>>

\* The backup of a file.  It is gone until it is written.
MoveFile(c, f) ==
    /\ call[c].at = [config |-> "moveConfig", credentials |-> "moveCredentials"][f]
    /\ disk[f] # Missing
    /\ backup' = [backup EXCEPT ![f] = disk[f]]
    /\ disk' = [disk EXCEPT ![f] = Missing]
    /\ Become(c, [config |-> "writeConfig", credentials |-> "writeCredentials"][f])
    /\ UNCHANGED <<saves, others, ghosts>>

WriteConfig(c) ==
    /\ call[c].at = "writeConfig"
    /\ disk' = [disk EXCEPT !["config"] = call[c].new["config"]]
    /\ Become(c, Begin("credentials"))
    /\ UNCHANGED <<backup, saves, others, ghosts>>

WriteCredentials(c) ==
    /\ call[c].at = "writeCredentials"
    /\ disk' = [disk EXCEPT !["credentials"] = call[c].new["credentials"]]
    /\ call' = [call EXCEPT ![c] = Idle]
    /\ wanted' = LET u == call[c].update
                     set == Written(u)
                 IN  [k \in (DOMAIN wanted \ Removed(u)) \cup DOMAIN set |->
                         IF k \in DOMAIN set THEN set[k] ELSE wanted[k]]
    /\ UNCHANGED <<backup, saves, others, overlapped, broken>>

\* The call breaks off: a file cannot be read, moved (another call has moved it) or written, or
\* the server stops.  A write may leave an empty file.
BreakOff(c) ==
    /\ call[c].at # "idle"
    /\ \/ UNCHANGED disk
       \/ call[c].at = "writeConfig" /\ disk' = [disk EXCEPT !["config"] = EmptyFile]
       \/ call[c].at = "writeCredentials" /\ disk' = [disk EXCEPT !["credentials"] = EmptyFile]
    /\ call' = [call EXCEPT ![c] = Idle]
    /\ broken' = IF broken = "no" /\ call[c].at \notin {"options", "merging", "unmerging"}
                 THEN "now" ELSE broken
    /\ UNCHANGED <<backup, saves, others, wanted, overlapped>>

\* Another process, such as the AWS CLI, sets the region of a profile in the config file,
\* where the credentials file may hide it.
OtherWrites ==
    /\ others < MaxOthers /\ disk["config"] # Missing
    /\ \E p \in Profiles :
        LET written == [k \in {<<p, "region">>} |-> "elsewhere"]
        IN  /\ disk' = [disk EXCEPT !["config"] = Merge(@, written)]
            /\ wanted' = IF <<p, "region">> \in DOMAIN Read("credentials") THEN wanted
                         ELSE Merge(wanted, written)
    /\ others' = others + 1
    /\ overlapped' = (overlapped \/ Busy # {})
    /\ UNCHANGED <<backup, call, saves, broken>>

Step(c) ==
    \/ EnforceOptions(c) \/ MergeFiles(c) \/ UnmergeFiles(c)
    \/ \E f \in FileNames : MoveFile(c, f)
    \/ WriteConfig(c) \/ WriteCredentials(c) \/ BreakOff(c)

Next == OtherWrites \/ \E c \in Calls : UpdateProfile(c) \/ Step(c)

Spec == Init /\ [][Next]_vars

(***************************************************************************)
(* Properties.                                                             *)
(***************************************************************************)
\* Every variable has its type: files that exist hold settings, and a suspended call is at one of
\* the awaits of updateProfile.
TypeOK ==
    /\ DOMAIN disk = FileNames /\ DOMAIN backup = FileNames /\ DOMAIN call = Calls
    /\ \A f \in FileNames : /\ disk[f] = Missing \/ IsFile(disk[f])
                            /\ backup[f] = Missing \/ IsFile(backup[f])
    /\ \A c \in Calls : /\ DOMAIN call[c] = {"at", "update", "merged", "new"}
                        /\ call[c].at \in Awaits
                        /\ call[c].at # "idle" => call[c].update \in Updates
                        /\ IsFile(call[c].merged)
                        /\ DOMAIN call[c].new = FileNames
                        /\ \A f \in FileNames : IsFile(call[c].new[f])
    /\ saves \in 0..MaxSaves /\ others \in 0..MaxOthers
    /\ IsFile(wanted) /\ overlapped \in BOOLEAN /\ broken \in {"no", "now", "later"}

\* unmergeConfigFiles loses nothing and adds nothing: the two files a call is about to write say
\* together what the call merged, whichever file a setting was in and moves to.
WritesWhatWasMerged ==
    \A c \in Calls :
        call[c].at \notin {"idle", "options", "merging", "unmerging"} =>
            Merge(call[c].new["config"], call[c].new["credentials"]) = call[c].merged

\* "Any settings or sections in the shared config files that are not passed into data will be
\* preserved as-is": when no call is in progress, and none broke off, the files say what the
\* updates and other processes wrote, in their order.
PreservesTheRest == Busy = {} /\ broken = "no" => Known = wanted

\* The same, unless a call met another one or another process.
PreservesTheRestAlone == ~overlapped => PreservesTheRest

\* "Backup file just in case": a save that breaks off anywhere leaves every setting in one of the
\* files or in their backups, until the next save (of calls that met nobody).
Recoverable ==
    ~overlapped /\ broken # "later" =>
        \A k \in DOMAIN wanted : \E f \in FileNames : \E file \in {disk[f], backup[f]} :
            file # Missing /\ k \in DOMAIN file /\ file[k] = wanted[k]

\* A request without updateSharedSsoSession does not change an sso-session that another profile
\* uses, unless the call met another one between its check and its save.
SharedSessionIsKept ==
    [][\A c \in Calls :
        LET u == call[c].update
            url == <<u.session, "sso_start_url">>
        IN  WriteCredentials(c) /\ ~overlapped /\ broken = "no" /\ ~u.updateSharedSsoSession
            /\ (\E p \in Profiles \ {u.profile} :
                    <<p, "sso_session">> \in DOMAIN wanted
                    /\ wanted[<<p, "sso_session">>] = u.session)
            /\ url \in DOMAIN wanted
            => wanted'[url] = wanted[url]]_vars
=============================================================================
