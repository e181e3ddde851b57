------------------------- MODULE ProfileStoreProofs -------------------------
(***************************************************************************)
(* Proofs about ProfileStore, for all profiles, settings and calls: what   *)
(* unmergeConfigFiles computes; that every call writes what it merged,     *)
(* however calls overlap; and, while no two writers have met (Alone), that *)
(* at every await of a save everything is in a file or in a backup, from   *)
(* which preservation and recovery follow.                                 *)
(***************************************************************************)
EXTENDS ProfileStore, TLAPS

IsFunction(f) == f = [k \in DOMAIN f |-> f[k]]

\* unmergeConfigFiles is a right inverse of the merge of the two files: whatever the files held
\* before, reading the files that it computes gives the settings that were to be saved.
LEMMA UnmergeInverse ==
    ASSUME NEW merged, NEW config, NEW credentials, IsFunction(merged)
    PROVE  Merge(UnmergedConfig(merged, config, credentials),
                 UnmergedCredentials(merged, config, credentials)) = merged
<1> DEFINE inConfig == {k \in DOMAIN merged : /\ ~isSecretSetting(k)
                                              /\ k \in DOMAIN config \/ k \notin DOMAIN credentials}
           inCredentials == {k \in DOMAIN merged : isSecretSetting(k) \/ k \in DOMAIN credentials}
           c == UnmergedConfig(merged, config, credentials)
           d == UnmergedCredentials(merged, config, credentials)
<1>1. DOMAIN c = inConfig /\ \A k \in inConfig : c[k] = merged[k]
  BY DEF UnmergedConfig
<1>2. DOMAIN d = inCredentials /\ \A k \in inCredentials : d[k] = merged[k]
  BY DEF UnmergedCredentials
<1>3. inConfig \cup inCredentials = DOMAIN merged
  OBVIOUS
<1> HIDE DEF inConfig, inCredentials, c, d
<1>4. Merge(c, d) = [k \in DOMAIN merged |-> merged[k]]
  <2>1. Merge(c, d) = [k \in inConfig \cup inCredentials |->
                          IF k \in inCredentials THEN d[k] ELSE c[k]]
    BY <1>1, <1>2 DEF Merge
  <2>2. \A k \in inConfig \cup inCredentials :
            (IF k \in inCredentials THEN d[k] ELSE c[k]) = merged[k]
    BY <1>1, <1>2
  <2> QED
    BY <2>1, <2>2, <1>3
<1> QED
  BY <1>4 DEF IsFunction, c, d

\* What is written is what was merged; a call that has merged holds a function.
Faithful(r) ==
    /\ DOMAIN r = {"at", "update", "merged", "new"}
    /\ IsFunction(r.merged)
    /\ r.at \notin {"idle", "options", "merging", "unmerging"} =>
           Merge(r.new["config"], r.new["credentials"]) = r.merged

IInv ==
    /\ IsFunction(call) /\ DOMAIN call = Calls
    /\ \A c \in Calls : Faithful(call[c])

LEMMA IdleWritten == Faithful(Idle)
  BY DEF Faithful, Idle, IsFunction, EmptyFile

LEMMA Initially == Init => IInv
  BY IdleWritten DEF Init, IInv, IsFunction

LEMMA Replaced ==
    ASSUME IInv, NEW c \in Calls, NEW r, Faithful(r), call' = [call EXCEPT ![c] = r]
    PROVE  IInv'
  BY Zenon DEF IInv, IsFunction

\* A step that only moves a call on, between two places after it has unmerged.
LEMMA Moved ==
    ASSUME IInv, NEW c \in Calls, NEW at, Become(c, at),
           \/ at \in {"idle", "options", "merging", "unmerging"}
           \/ call[c].at \notin {"idle", "options", "merging", "unmerging"}
    PROVE  IInv'
<1> DEFINE r == [call[c] EXCEPT !.at = at]
<1>1. DOMAIN r = {"at", "update", "merged", "new"} /\ r.at = at
      /\ r.merged = call[c].merged /\ r.new = call[c].new
  BY DEF IInv, Faithful
<1>2. call' = [call EXCEPT ![c] = r]
  BY DEF Become
<1> HIDE DEF r
<1>3. Faithful(r)
  BY <1>1 DEF IInv, Faithful
<1> QED
  BY <1>2, <1>3, Replaced, Zenon

LEMMA Inductive == IInv /\ [Next]_vars => IInv'
<1> SUFFICES ASSUME IInv, [Next]_vars PROVE IInv'
  OBVIOUS
<1>1. CASE UNCHANGED call
  BY <1>1 DEF IInv
<1>2. ASSUME NEW c \in Calls, UpdateProfile(c) PROVE IInv'
  <2>1. PICK u \in Requests : call' = [call EXCEPT ![c] = [Idle EXCEPT !.at = "options", !.update = u]]
    BY <1>2, Zenon DEF UpdateProfile
  <2>2. Faithful([Idle EXCEPT !.at = "options", !.update = u])
    BY DEF Faithful, Idle, IsFunction, EmptyFile
  <2> QED
    BY <2>1, <2>2, Replaced, Zenon
<1>3. ASSUME NEW c \in Calls, EnforceOptions(c) PROVE IInv'
  BY <1>3, Moved, Replaced, IdleWritten DEF EnforceOptions
<1>4. ASSUME NEW c \in Calls, MergeFiles(c) PROVE IInv'
  <2> DEFINE m == Applied(call[c].update, Known)
             r == [call[c] EXCEPT !.at = "unmerging", !.merged = m]
  <2>1. call' = [call EXCEPT ![c] = r]
    BY <1>4, Zenon DEF MergeFiles
  <2>2. IsFunction(m)
    BY DEF Applied, Merge, IsFunction
  <2> HIDE DEF m
  <2>3. Faithful(r)
    BY <2>2 DEF IInv, Faithful
  <2> QED
    BY <2>1, <2>3, Replaced, Zenon
<1>5. ASSUME NEW c \in Calls, UnmergeFiles(c) PROVE IInv'
  <2> DEFINE m == call[c].merged
             config == UnmergedConfig(m, Read("config"), Read("credentials"))
             credentials == UnmergedCredentials(m, Read("config"), Read("credentials"))
             at == Begin("config")
             r == [call[c] EXCEPT !.at = at,
                                  !.new = [config |-> config, credentials |-> credentials]]
  <2>1. call' = [call EXCEPT ![c] = r]
    BY <1>5, Zenon DEF UnmergeFiles
  <2>2. Merge(config, credentials) = m
    BY UnmergeInverse DEF IInv, Faithful
  <2> HIDE DEF config, credentials, at
  <2>3. Faithful(r)
    BY <2>2 DEF IInv, Faithful
  <2> QED
    BY <2>1, <2>3, Replaced, Zenon
<1>6. ASSUME NEW c \in Calls, NEW f \in FileNames, MoveFile(c, f) PROVE IInv'
  <2>1. call[c].at \in {"moveConfig", "moveCredentials"}
    BY <1>6 DEF MoveFile, FileNames
  <2> QED
    BY <1>6, <2>1, Moved DEF MoveFile
<1>7. ASSUME NEW c \in Calls, WriteConfig(c) PROVE IInv'
  BY <1>7, Moved DEF WriteConfig
<1>8. ASSUME NEW c \in Calls, WriteCredentials(c) \/ BreakOff(c) PROVE IInv'
  BY <1>8, Replaced, IdleWritten DEF WriteCredentials, BreakOff
<1>9. CASE OtherWrites
  BY <1>1, <1>9 DEF OtherWrites
<1> QED
  BY <1>1, <1>2, <1>3, <1>4, <1>5, <1>6, <1>7, <1>8, <1>9 DEF Next, Step, vars

\* For all files, settings, requests and overlaps, the two files a call is about to write say
\* together exactly what the call has merged.
THEOREM WrittenAsMerged == Spec => []WritesWhatWasMerged
<1>1. IInv => WritesWhatWasMerged
  BY DEF IInv, Faithful, WritesWhatWasMerged
<1> QED
  BY <1>1, Initially, Inductive, PTL DEF Spec

(***************************************************************************)
(* Files.  A file is a function, so it is known by what it says of each    *)
(* setting.                                                                *)
(***************************************************************************)
LEMMA FileExists == ASSUME NEW file, IsFile(file) PROVE file # Missing
  BY MissingAssumption DEF IsFile

LEMMA FileEquality ==
    ASSUME NEW f, IsFile(f), NEW g, IsFile(g), DOMAIN f = DOMAIN g, \A k \in DOMAIN f : f[k] = g[k]
    PROVE  f = g
<1> DEFINE D == DOMAIN f
<1>1. f \in [D -> Values] /\ g \in [D -> Values]
  BY DEF IsFile
<1> QED
  BY <1>1

LEMMA EmptyIsFile == IsFile(EmptyFile) /\ DOMAIN EmptyFile = {}
  BY DEF IsFile, EmptyFile

LEMMA MergeFacts ==
    ASSUME NEW f, IsFile(f), NEW g, IsFile(g)
    PROVE  /\ IsFile(Merge(f, g)) /\ DOMAIN Merge(f, g) = DOMAIN f \cup DOMAIN g
           /\ \A k \in DOMAIN g : Merge(f, g)[k] = g[k]
           /\ \A k \in DOMAIN f \ DOMAIN g : Merge(f, g)[k] = f[k]
<1>1. \A k \in DOMAIN f \cup DOMAIN g : (IF k \in DOMAIN g THEN g[k] ELSE f[k]) \in Values
  BY DEF IsFile
<1>2. DOMAIN f \cup DOMAIN g \subseteq Settings
  BY DEF IsFile
<1> QED
  BY <1>1, <1>2 DEF Merge, IsFile

\* What an update sets: the profile's session, the session's URL and perhaps its scopes.
LEMMA WrittenFacts ==
    ASSUME NEW u \in Updates
    PROVE  /\ IsFile(Written(u))
           /\ <<u.session, "sso_start_url">> \in DOMAIN Written(u)
           /\ Written(u)[<<u.session, "sso_start_url">>] = u.url
<1> DEFINE K == {<<u.profile, "sso_session">>, <<u.session, "sso_start_url">>} \cup
                (IF u.scopes = "list" THEN {<<u.session, "sso_registration_scopes">>} ELSE {})
           v(k) == CASE k[2] = "sso_session" -> u.session
                     [] k[2] = "sso_start_url" -> u.url
                     [] k[2] = "sso_registration_scopes" -> "scopes"
<1>1. u.profile \in Profiles /\ u.session \in Sessions /\ u.url \in Urls
  BY DEF Updates
<1>2. K \subseteq Settings
  BY <1>1 DEF Settings
<1>3. \A k \in K : v(k) \in Values
  BY <1>1 DEF Values
<1>4. Written(u) = [k \in K |-> v(k)]
  BY DEF Written
<1>5. v(<<u.session, "sso_start_url">>) = u.url /\ <<u.session, "sso_start_url">> \in K
  OBVIOUS
<1> HIDE DEF K, v
<1> QED
  BY <1>2, <1>3, <1>4, <1>5 DEF IsFile

LEMMA AppliedFacts ==
    ASSUME NEW u \in Updates, NEW file, IsFile(file)
    PROVE  /\ IsFile(Applied(u, file))
           /\ DOMAIN Applied(u, file) = (DOMAIN file \ Removed(u)) \cup DOMAIN Written(u)
           /\ \A k \in DOMAIN Applied(u, file) :
                  Applied(u, file)[k] = IF k \in DOMAIN Written(u) THEN Written(u)[k] ELSE file[k]
<1> DEFINE kept == [k \in DOMAIN file \ Removed(u) |-> file[k]]
<1>1. IsFile(kept) /\ DOMAIN kept = DOMAIN file \ Removed(u)
      /\ \A k \in DOMAIN kept : kept[k] = file[k]
  BY DEF IsFile
<1>2. Applied(u, file) = Merge(kept, Written(u))
  BY DEF Applied
<1> DEFINE set == Written(u)
<1>3. IsFile(set)
  BY WrittenFacts
<1> HIDE DEF kept, set
<1>4. /\ IsFile(Merge(kept, set)) /\ DOMAIN Merge(kept, set) = DOMAIN kept \cup DOMAIN set
      /\ \A k \in DOMAIN set : Merge(kept, set)[k] = set[k]
      /\ \A k \in DOMAIN kept \ DOMAIN set : Merge(kept, set)[k] = kept[k]
  BY <1>1, <1>3, MergeFacts
<1>5. \A k \in DOMAIN Merge(kept, set) :
          Merge(kept, set)[k] = IF k \in DOMAIN set THEN set[k] ELSE file[k]
  BY <1>1, <1>4
<1> QED
  BY <1>1, <1>2, <1>4, <1>5 DEF set

LEMMA UnmergedFiles ==
    ASSUME NEW merged, IsFile(merged), NEW config, NEW credentials
    PROVE  /\ IsFile(UnmergedConfig(merged, config, credentials))
           /\ IsFile(UnmergedCredentials(merged, config, credentials))
  BY DEF IsFile, UnmergedConfig, UnmergedCredentials

(***************************************************************************)
(* Types.                                                                  *)
(***************************************************************************)
FilesOK(files) ==
    DOMAIN files = FileNames /\ \A f \in FileNames : files[f] = Missing \/ IsFile(files[f])

CallOK(r) ==
    /\ DOMAIN r = {"at", "update", "merged", "new"}
    /\ r.at \in Awaits
    /\ r.at # "idle" => r.update \in Updates
    /\ IsFile(r.merged)
    /\ DOMAIN r.new = FileNames
    /\ \A f \in FileNames : IsFile(r.new[f])

CallsOK == DOMAIN call = Calls /\ \A c \in Calls : CallOK(call[c])

RestOK ==
    /\ saves \in 0..MaxSaves /\ others \in 0..MaxOthers
    /\ IsFile(wanted) /\ overlapped \in BOOLEAN /\ broken \in {"no", "now", "later"}

LEMMA TypeParts == TypeOK <=> FilesOK(disk) /\ FilesOK(backup) /\ CallsOK /\ RestOK
  BY Zenon DEF TypeOK, FilesOK, CallsOK, CallOK, RestOK

LEMMA TypePartsNext ==
    ASSUME FilesOK(disk'), FilesOK(backup'), CallsOK', RestOK' PROVE TypeOK'
  BY Zenon DEF TypeOK, FilesOK, CallsOK, CallOK, RestOK

LEMMA FileStored ==
    ASSUME NEW files, FilesOK(files), NEW f \in FileNames, NEW file, file = Missing \/ IsFile(file)
    PROVE  FilesOK([files EXCEPT ![f] = file])
  BY DEF FilesOK

LEMMA IdleOK == CallOK(Idle)
  BY EmptyIsFile DEF CallOK, Idle, Awaits, FileNames

LEMMA CallReplaced ==
    ASSUME CallsOK, NEW c \in Calls, NEW r, CallOK(r), call' = [call EXCEPT ![c] = r]
    PROVE  CallsOK'
  BY Zenon DEF CallsOK

LEMMA CallMoved ==
    ASSUME CallsOK, NEW c \in Calls, call[c].at # "idle", NEW at \in Awaits, Become(c, at)
    PROVE  CallsOK'
<1> DEFINE r == [call[c] EXCEPT !.at = at]
<1>1. call' = [call EXCEPT ![c] = r]
  BY DEF Become
<1>2. CallOK(call[c])
  BY DEF CallsOK
<1>3. DOMAIN r = {"at", "update", "merged", "new"} /\ r.at = at /\ r.update = call[c].update
      /\ r.merged = call[c].merged /\ r.new = call[c].new
  BY <1>2 DEF CallOK
<1> HIDE DEF r
<1>4. CallOK(r)
  BY <1>2, <1>3 DEF CallOK
<1> QED
  BY <1>1, <1>4, CallReplaced, Zenon

LEMMA BeginAwaits ==
    /\ Begin("config") \in {"writeConfig", "moveConfig"}
    /\ Begin("config") = "writeConfig" <=> disk["config"] = Missing
    /\ Begin("credentials") \in {"writeCredentials", "moveCredentials"}
    /\ Begin("credentials") = "writeCredentials" <=> disk["credentials"] = Missing
  BY DEF Begin

LEMMA ReadIsFile ==
    ASSUME FilesOK(disk)
    PROVE  IsFile(Read("config")) /\ IsFile(Read("credentials")) /\ IsFile(Known)
<1>1. IsFile(Read("config")) /\ IsFile(Read("credentials"))
  BY EmptyIsFile DEF FilesOK, FileNames, Read
<1> QED
  BY <1>1, MergeFacts DEF Known

LEMMA RegionIsFile ==
    ASSUME NEW p \in Profiles
    PROVE  /\ IsFile([k \in {<<p, "region">>} |-> "elsewhere"])
           /\ DOMAIN [k \in {<<p, "region">>} |-> "elsewhere"] = {<<p, "region">>}
  BY DEF IsFile, Settings, Values

\* What a finished call was to leave is its update applied to what was there.
LEMMA WantedApplied ==
    ASSUME NEW c \in Calls, WriteCredentials(c), CallOK(call[c]), IsFile(wanted)
    PROVE  wanted' = Applied(call[c].update, wanted) /\ IsFile(wanted')
<1> DEFINE u == call[c].update
           set == Written(u)
           new == [k \in (DOMAIN wanted \ Removed(u)) \cup DOMAIN set |->
                      IF k \in DOMAIN set THEN set[k] ELSE wanted[k]]
<1>1. u \in Updates
  BY DEF WriteCredentials, CallOK
<1>2. wanted' = new
  BY DEF WriteCredentials
<1>3. /\ IsFile(Applied(u, wanted))
      /\ DOMAIN Applied(u, wanted) = (DOMAIN wanted \ Removed(u)) \cup DOMAIN set
      /\ \A k \in DOMAIN Applied(u, wanted) :
             Applied(u, wanted)[k] = IF k \in DOMAIN set THEN set[k] ELSE wanted[k]
  BY <1>1, AppliedFacts
<1> HIDE DEF u, set
<1>4. DOMAIN new = DOMAIN Applied(u, wanted) /\ \A k \in DOMAIN new : new[k] = Applied(u, wanted)[k]
  BY <1>3
<1>5. IsFile(new)
  <2>1. \A k \in DOMAIN Applied(u, wanted) : Applied(u, wanted)[k] \in Values
    BY <1>3 DEF IsFile
  <2>2. \A k \in DOMAIN new : new[k] \in Values
    BY <1>4, <2>1
  <2> QED
    BY <1>3, <1>4, <2>2 DEF IsFile
<1> HIDE DEF new
<1>6. new = Applied(u, wanted)
  BY <1>3, <1>4, <1>5, FileEquality
<1> QED
  BY <1>2, <1>3, <1>6 DEF u

LEMMA TypeInitially == Init => TypeOK
<1> SUFFICES ASSUME Init PROVE TypeOK
  OBVIOUS
<1>1. PICK p \in Profiles, s \in Sessions, u \in Urls, inCredentials \in BOOLEAN :
        disk = [config |-> [k \in {<<p, "sso_session">>, <<p, "region">>,
                                   <<p, "aws_secret_access_key">>, <<s, "sso_start_url">>} |->
                               CASE k[2] = "sso_session" -> s
                                 [] k[2] = "region" -> "here"
                                 [] k[2] = "aws_secret_access_key" -> "key"
                                 [] k[2] = "sso_start_url" -> u],
                credentials |-> IF inCredentials THEN [k \in {<<p, "region">>} |-> "there"]
                                ELSE Missing]
  BY Zenon DEF Init
<1> DEFINE K == {<<p, "sso_session">>, <<p, "region">>, <<p, "aws_secret_access_key">>,
                 <<s, "sso_start_url">>}
           v(k) == CASE k[2] = "sso_session" -> s
                     [] k[2] = "region" -> "here"
                     [] k[2] = "aws_secret_access_key" -> "key"
                     [] k[2] = "sso_start_url" -> u
           config == [k \in K |-> v(k)]
           credentials == [k \in {<<p, "region">>} |-> "there"]
<1>2. K \subseteq Settings /\ \A k \in K : v(k) \in Values
  BY DEF Settings, Values
<1>3. IsFile(credentials)
  BY DEF IsFile, Settings, Values
<1>4. disk = [config |-> config, credentials |-> IF inCredentials THEN credentials ELSE Missing]
  BY <1>1
<1> HIDE DEF K, v, credentials
<1>5. IsFile(config)
  BY <1>2 DEF IsFile
<1> HIDE DEF config
<1>6. FilesOK(disk)
  BY <1>3, <1>4, <1>5 DEF FilesOK, FileNames
<1>7. FilesOK(backup)
  BY DEF Init, FilesOK
<1>8. CallsOK
  BY IdleOK DEF Init, CallsOK
<1>9. RestOK
  <2>1. saves = 0 /\ others = 0 /\ wanted = Known /\ overlapped = FALSE /\ broken = "no"
    BY Zenon DEF Init
  <2>2. IsFile(wanted)
    BY <1>6, <2>1, ReadIsFile
  <2>3. saves \in 0..MaxSaves /\ others \in 0..MaxOthers
    BY <2>1, StoreAssumption
  <2> QED
    BY <2>1, <2>2, <2>3, Zenon DEF RestOK
<1> QED
  BY <1>6, <1>7, <1>8, <1>9, TypeParts

LEMMA TypeInductive == TypeOK /\ [Next]_vars => TypeOK'
<1> SUFFICES ASSUME TypeOK, [Next]_vars PROVE TypeOK'
  OBVIOUS
<1>1. FilesOK(disk) /\ FilesOK(backup) /\ CallsOK /\ RestOK
  BY TypeParts
<1>2. IsFile(Known) /\ IsFile(Read("config")) /\ IsFile(Read("credentials"))
  BY <1>1, ReadIsFile
<1>3. CASE UNCHANGED vars
  BY <1>3 DEF vars, ghosts, TypeOK
<1>4. ASSUME NEW c \in Calls, UpdateProfile(c) PROVE TypeOK'
  <2>1. PICK u \in Requests : call' = [call EXCEPT ![c] = [Idle EXCEPT !.at = "options", !.update = u]]
    BY <1>4, Zenon DEF UpdateProfile
  <2>2. CallOK([Idle EXCEPT !.at = "options", !.update = u])
    BY EmptyIsFile, StoreAssumption DEF CallOK, Idle, Awaits, FileNames
  <2>3. CallsOK'
    BY <1>1, <2>1, <2>2, CallReplaced, Zenon
  <2>4. RestOK'
    BY <1>1, <1>4, StoreAssumption DEF UpdateProfile, RestOK
  <2> QED
    BY <1>1, <1>4, <2>3, <2>4, TypePartsNext DEF UpdateProfile
<1>5. ASSUME NEW c \in Calls, EnforceOptions(c) PROVE TypeOK'
  <2>1. CallsOK'
    BY <1>1, <1>5, CallMoved, CallReplaced, IdleOK DEF EnforceOptions, Awaits
  <2> QED
    BY <1>1, <1>5, <2>1, TypePartsNext DEF EnforceOptions, RestOK, ghosts
<1>6. ASSUME NEW c \in Calls, MergeFiles(c) PROVE TypeOK'
  <2> DEFINE m == Applied(call[c].update, Known)
             r == [call[c] EXCEPT !.at = "unmerging", !.merged = m]
  <2>1. call' = [call EXCEPT ![c] = r]
    BY <1>6, Zenon DEF MergeFiles
  <2>2. IsFile(m)
    BY <1>1, <1>2, <1>6, AppliedFacts DEF MergeFiles, CallsOK, CallOK
  <2> HIDE DEF m
  <2>3. CallOK(r)
    BY <1>1, <1>6, <2>2 DEF MergeFiles, CallsOK, CallOK, Awaits
  <2>4. CallsOK'
    BY <1>1, <2>1, <2>3, CallReplaced, Zenon
  <2> QED
    BY <1>1, <1>6, <2>4, TypePartsNext DEF MergeFiles, RestOK, ghosts
<1>7. ASSUME NEW c \in Calls, UnmergeFiles(c) PROVE TypeOK'
  <2> DEFINE m == call[c].merged
             config == UnmergedConfig(m, Read("config"), Read("credentials"))
             credentials == UnmergedCredentials(m, Read("config"), Read("credentials"))
             at == Begin("config")
             r == [call[c] EXCEPT !.at = at,
                                  !.new = [config |-> config, credentials |-> credentials]]
  <2>1. call' = [call EXCEPT ![c] = r]
    BY <1>7, Zenon DEF UnmergeFiles
  <2>2. IsFile(config) /\ IsFile(credentials)
    BY <1>1, UnmergedFiles DEF CallsOK, CallOK
  <2>3. at \in Awaits
    BY BeginAwaits DEF Awaits
  <2> HIDE DEF config, credentials, at
  <2>4. CallOK(r)
    BY <1>1, <1>7, <2>2, <2>3 DEF UnmergeFiles, CallsOK, CallOK, FileNames
  <2>5. CallsOK'
    BY <1>1, <2>1, <2>4, CallReplaced, Zenon
  <2> QED
    BY <1>1, <1>7, <2>5, TypePartsNext DEF UnmergeFiles, RestOK, ghosts
<1>8. ASSUME NEW c \in Calls, NEW f \in FileNames, MoveFile(c, f) PROVE TypeOK'
  <2>1. FilesOK(disk') /\ FilesOK(backup')
    BY <1>1, <1>8, FileStored DEF MoveFile, FilesOK
  <2>2. CallsOK'
    <3>1. call[c].at # "idle"
      BY <1>8 DEF MoveFile, FileNames
    <3>2. [config |-> "writeConfig", credentials |-> "writeCredentials"][f] \in Awaits
      BY DEF FileNames, Awaits
    <3> QED
      BY <1>1, <1>8, <3>1, <3>2, CallMoved DEF MoveFile
  <2> QED
    BY <1>1, <1>8, <2>1, <2>2, TypePartsNext DEF MoveFile, RestOK, ghosts
<1>9. ASSUME NEW c \in Calls, WriteConfig(c) PROVE TypeOK'
  <2>1. FilesOK(disk')
    BY <1>1, <1>9, FileStored DEF WriteConfig, CallsOK, CallOK, FileNames
  <2>2. CallsOK'
    <3>1. Begin("credentials") \in Awaits
      BY BeginAwaits DEF Awaits
    <3> QED
      BY <1>1, <1>9, <3>1, CallMoved DEF WriteConfig
  <2> QED
    BY <1>1, <1>9, <2>1, <2>2, TypePartsNext DEF WriteConfig, RestOK, ghosts
<1>10. ASSUME NEW c \in Calls, WriteCredentials(c) PROVE TypeOK'
  <2>1. FilesOK(disk')
    BY <1>1, <1>10, FileStored DEF WriteCredentials, CallsOK, CallOK, FileNames
  <2>2. CallsOK'
    BY <1>1, <1>10, CallReplaced, IdleOK DEF WriteCredentials
  <2>3. IsFile(wanted')
    BY <1>1, <1>10, WantedApplied DEF CallsOK, RestOK
  <2> QED
    BY <1>1, <1>10, <2>1, <2>2, <2>3, TypePartsNext DEF WriteCredentials, RestOK
<1>11. ASSUME NEW c \in Calls, BreakOff(c) PROVE TypeOK'
  <2>1. FilesOK(disk')
    BY <1>1, <1>11, FileStored, EmptyIsFile DEF BreakOff, FileNames
  <2>2. CallsOK'
    BY <1>1, <1>11, CallReplaced, IdleOK DEF BreakOff
  <2>3. RestOK'
    BY <1>1, <1>11 DEF BreakOff, RestOK
  <2> QED
    BY <1>1, <1>11, <2>1, <2>2, <2>3, TypePartsNext DEF BreakOff
<1>12. CASE OtherWrites
  <2>1. PICK p \in Profiles :
            /\ disk' = [disk EXCEPT !["config"] =
                           Merge(@, [k \in {<<p, "region">>} |-> "elsewhere"])]
            /\ wanted' = IF <<p, "region">> \in DOMAIN Read("credentials") THEN wanted
                         ELSE Merge(wanted, [k \in {<<p, "region">>} |-> "elsewhere"])
    BY <1>12, Zenon DEF OtherWrites
  <2> DEFINE written == [k \in {<<p, "region">>} |-> "elsewhere"]
  <2>2. IsFile(written)
    BY RegionIsFile
  <2> HIDE DEF written
  <2>3. IsFile(disk["config"])
    BY <1>1, <1>12 DEF OtherWrites, FilesOK, FileNames
  <2>4. FilesOK(disk')
    <3>1. IsFile(Merge(disk["config"], written))
      BY <2>2, <2>3, MergeFacts
    <3>2. disk' = [disk EXCEPT !["config"] = Merge(disk["config"], written)]
      BY <2>1, Zenon DEF written
    <3> QED
      BY <1>1, <3>1, <3>2, FileStored DEF FileNames
  <2>5. RestOK'
    <3>1. IsFile(Merge(wanted, written))
      BY <1>1, <2>2, MergeFacts DEF RestOK
    <3>2. IsFile(wanted')
      BY <1>1, <2>1, <3>1 DEF written, RestOK
    <3> QED
      BY <1>1, <1>12, <3>2, StoreAssumption DEF OtherWrites, RestOK
  <2>6. CallsOK'
    BY <1>1, <1>12 DEF OtherWrites, CallsOK
  <2> QED
    BY <1>1, <1>12, <2>4, <2>5, <2>6, TypePartsNext DEF OtherWrites
<1> QED
  BY <1>3, <1>4, <1>5, <1>6, <1>7, <1>8, <1>9, <1>10, <1>11, <1>12 DEF Next, Step

\* Whatever calls, other processes and broken saves do, the files, their backups and the suspended
\* calls hold what their types say.
THEOREM TypeCorrect == Spec => []TypeOK
  BY TypeInitially, TypeInductive, PTL DEF Spec

(***************************************************************************)
(* A call that meets nobody.  Stage says, for every await, what a call     *)
(* suspended there has done to the files: what it has read is current, it  *)
(* holds its update applied to it, and the settings of a file that it has  *)
(* taken away are in a backup or in the other file.                        *)
(***************************************************************************)
Says(file, k, w) == file # Missing /\ k \in DOMAIN file /\ file[k] = w[k]

InFiles(files, w) == \A k \in DOMAIN w : \E file \in files : Says(file, k, w)

\* No setting of the credentials file is out of date.
CredentialsSay == \A k \in DOMAIN Read("credentials") \cap DOMAIN wanted :
                      Says(disk["credentials"], k, wanted)

\* What enforceOptions checked holds of the settings as they are.
Kept(u, w) ==
    LET url == <<u.session, "sso_start_url">>
    IN  /\ ~u.updateSharedSsoSession
        /\ \E p \in Profiles \ {u.profile} : <<p, "sso_session">> \in DOMAIN w
                                             /\ w[<<p, "sso_session">>] = u.session
        /\ url \in DOMAIN w
        => w[url] = u.url

Stage(r) ==
    /\ r.at \in {"options", "merging", "unmerging", "moveConfig"} => Known = wanted
    /\ r.at # "options" => Kept(r.update, wanted)
    /\ r.at \notin {"options", "merging"} => r.merged = Applied(r.update, wanted)
    /\ r.at \in {"writeConfig", "moveCredentials"} =>
           InFiles({backup["config"], disk["credentials"]}, wanted)
    /\ r.at = "writeCredentials" => InFiles({backup["config"], backup["credentials"]}, wanted)
    /\ r.at \in {"moveCredentials", "writeCredentials"} => disk["config"] = r.new["config"]
    /\ r.at = "writeCredentials" => disk["credentials"] = Missing

AloneInv ==
    /\ \A c, d \in Busy : c = d
    /\ broken = "now" => Busy = {}
    /\ broken = "now" =>
           InFiles({disk["config"], disk["credentials"], backup["config"], backup["credentials"]}, wanted)
    /\ broken # "later" => CredentialsSay
    /\ broken = "no" /\ Busy = {} => Known = wanted
    /\ broken = "no" => \A c \in Busy : Stage(call[c])

Alone == ~overlapped => AloneInv

LEMMA MoreFiles ==
    ASSUME NEW F, NEW G, F \subseteq G, NEW w, InFiles(F, w) PROVE InFiles(G, w)
  BY Zenon DEF InFiles

\* When the files say what is wanted, each setting is in the file that it is read from.
LEMMA KnownInFiles ==
    ASSUME FilesOK(disk), Known = wanted
    PROVE  CredentialsSay /\ InFiles({disk["config"], disk["credentials"]}, wanted)
<1> DEFINE config == Read("config")
           credentials == Read("credentials")
<1>1. IsFile(config) /\ IsFile(credentials)
  BY ReadIsFile
<1>2. /\ DOMAIN config # {} => disk["config"] # Missing /\ config = disk["config"]
      /\ DOMAIN credentials # {} => disk["credentials"] # Missing /\ credentials = disk["credentials"]
  BY EmptyIsFile DEF Read
<1>3. wanted = Merge(config, credentials)
  BY DEF Known
<1> HIDE DEF config, credentials
<1>4. /\ DOMAIN wanted = DOMAIN config \cup DOMAIN credentials
      /\ \A k \in DOMAIN credentials : wanted[k] = credentials[k]
      /\ \A k \in DOMAIN config \ DOMAIN credentials : wanted[k] = config[k]
  <2> DEFINE known == Merge(config, credentials)
  <2>1. /\ DOMAIN known = DOMAIN config \cup DOMAIN credentials
        /\ \A k \in DOMAIN credentials : known[k] = credentials[k]
        /\ \A k \in DOMAIN config \ DOMAIN credentials : known[k] = config[k]
    BY <1>1, MergeFacts
  <2> QED
    BY <1>3, <2>1, Zenon
<1>5. \A k \in DOMAIN credentials : Says(disk["credentials"], k, wanted)
  BY <1>2, <1>4 DEF Says
<1>6. \A k \in DOMAIN config \ DOMAIN credentials : Says(disk["config"], k, wanted)
  BY <1>2, <1>4 DEF Says
<1>7. CredentialsSay
  BY <1>5 DEF CredentialsSay, credentials
<1>8. InFiles({disk["config"], disk["credentials"]}, wanted)
  BY <1>4, <1>5, <1>6 DEF InFiles
<1> QED
  BY <1>7, <1>8

\* The call in progress is the only one, before and after its step.
LEMMA StillAlone ==
    ASSUME AloneInv, CallsOK, NEW c \in Calls, call[c].at # "idle",
           NEW r, call' = [call EXCEPT ![c] = r]
    PROVE  /\ call'[c] = r
           /\ Busy' = IF r.at = "idle" THEN {} ELSE {c}
           /\ broken # "now"
           /\ broken = "no" => Stage(call[c])
<1>1. c \in Busy
  BY DEF Busy
<1>2. \A d \in Calls : d # c => call[d].at = "idle"
  BY <1>1 DEF AloneInv, Busy
<1>3. call'[c] = r /\ \A d \in Calls : d # c => call'[d] = call[d]
  BY DEF CallsOK
<1>4. Busy' = IF r.at = "idle" THEN {} ELSE {c}
  BY <1>2, <1>3 DEF Busy
<1> QED
  BY <1>1, <1>3, <1>4 DEF AloneInv

LEMMA Continues ==
    ASSUME NEW c, Busy' = {c}, broken' # "now", broken' # "later" => CredentialsSay',
           broken' = "no" => Stage(call[c])'
    PROVE  AloneInv'
  BY DEF AloneInv

LEMMA Ends ==
    ASSUME Busy' = {}, broken' # "later" => CredentialsSay', broken' = "no" => Known' = wanted',
           broken' = "now" => InFiles({disk["config"], disk["credentials"],
                                       backup["config"], backup["credentials"]}, wanted)'
    PROVE  AloneInv'
  BY DEF AloneInv

LEMMA AloneInitially == Init => Alone
<1> SUFFICES ASSUME Init PROVE AloneInv
  BY DEF Alone
<1>1. FilesOK(disk)
  BY TypeInitially, TypeParts
<1>2. Known = wanted /\ broken = "no"
  BY Zenon DEF Init
<1>3. Busy = {}
  BY DEF Init, Busy, Idle
<1> QED
  BY <1>1, <1>2, <1>3, KnownInFiles DEF AloneInv

LEMMA AloneUpdate ==
    ASSUME AloneInv, TypeOK, NEW c \in Calls, UpdateProfile(c), ~overlapped' PROVE AloneInv'
<1>1. PICK u \in Requests : call' = [call EXCEPT ![c] = [Idle EXCEPT !.at = "options", !.update = u]]
  BY Zenon DEF UpdateProfile
<1>2. Busy = {}
  BY DEF UpdateProfile
<1>3. DOMAIN call = Calls
  BY DEF TypeOK
<1>4. call'[c].at = "options" /\ Busy' = {c}
  BY <1>1, <1>2, <1>3 DEF Busy, Idle
<1>5. disk' = disk /\ wanted' = wanted /\ Known' = Known /\ CredentialsSay' = CredentialsSay
  BY DEF UpdateProfile, Known, Read, CredentialsSay
<1>6. broken' # "now" /\ (broken' # "later" => broken = "no")
  BY DEF UpdateProfile, TypeOK
<1>7. broken = "no" => CredentialsSay /\ Known = wanted
  BY <1>2 DEF AloneInv
<1>8. broken' = "no" => Stage(call[c])'
  BY <1>4, <1>5, <1>6, <1>7 DEF Stage
<1> QED
  BY <1>4, <1>5, <1>6, <1>7, <1>8, Continues

\* The options are enforced on the settings as they are.
LEMMA AllowedKept ==
    ASSUME NEW u, Known = wanted, Allowed(u) PROVE Kept(u, wanted)
  BY DEF Kept, Allowed, isSharedSsoSession, willUpdateExistingSsoSession, hasSsoSession

LEMMA AloneEnforce ==
    ASSUME AloneInv, TypeOK, NEW c \in Calls, EnforceOptions(c) PROVE AloneInv'
<1>1. CallsOK /\ FilesOK(disk)
  BY TypeParts
<1>2. call[c].at = "options"
  BY DEF EnforceOptions
<1>3. /\ disk' = disk /\ backup' = backup /\ wanted' = wanted /\ broken' = broken /\ Known' = Known
      /\ CredentialsSay' = CredentialsSay
  BY DEF EnforceOptions, ghosts, Known, Read, CredentialsSay
<1>4. broken # "later" => CredentialsSay
  BY DEF AloneInv
<1>5. CASE Allowed(call[c].update)
  <2> DEFINE r == [call[c] EXCEPT !.at = "merging"]
  <2>1. call' = [call EXCEPT ![c] = r]
    BY <1>5 DEF EnforceOptions, Become
  <2>2. r.at = "merging" /\ r.update = call[c].update
    BY <1>1 DEF CallsOK, CallOK
  <2> HIDE DEF r
  <2>3. call'[c] = r /\ Busy' = {c} /\ broken # "now" /\ (broken = "no" => Stage(call[c]))
    BY <1>1, <1>2, <2>1, <2>2, StillAlone
  <2>4. broken = "no" => Known = wanted /\ Kept(call[c].update, wanted)
    BY <1>2, <1>5, <2>3, AllowedKept DEF Stage
  <2>5. broken' = "no" => Stage(call[c])'
    BY <1>3, <2>2, <2>3, <2>4 DEF Stage
  <2> QED
    BY <1>3, <1>4, <2>3, <2>5, Continues
<1>6. CASE ~Allowed(call[c].update)
  <2>1. call' = [call EXCEPT ![c] = Idle]
    BY <1>6 DEF EnforceOptions
  <2>2. Idle.at = "idle"
    BY DEF Idle
  <2>3. Busy' = {} /\ broken # "now" /\ (broken = "no" => Stage(call[c]))
    BY <1>1, <1>2, <2>1, <2>2, StillAlone
  <2>4. broken = "no" => Known = wanted
    BY <1>2, <2>3 DEF Stage
  <2> QED
    BY <1>3, <1>4, <2>3, <2>4, Ends
<1> QED
  BY <1>5, <1>6

LEMMA AloneMerge ==
    ASSUME AloneInv, TypeOK, NEW c \in Calls, MergeFiles(c) PROVE AloneInv'
<1> DEFINE r == [call[c] EXCEPT !.at = "unmerging", !.merged = Applied(call[c].update, Known)]
<1>1. CallsOK /\ FilesOK(disk)
  BY TypeParts
<1>2. call[c].at = "merging" /\ call' = [call EXCEPT ![c] = r]
  BY Zenon DEF MergeFiles
<1>3. r.at = "unmerging" /\ r.update = call[c].update /\ r.merged = Applied(call[c].update, Known)
  BY <1>1 DEF CallsOK, CallOK
<1>4. /\ disk' = disk /\ backup' = backup /\ wanted' = wanted /\ broken' = broken /\ Known' = Known
      /\ CredentialsSay' = CredentialsSay
  BY DEF MergeFiles, ghosts, Known, Read, CredentialsSay
<1> HIDE DEF r
<1>5. call'[c] = r /\ Busy' = {c} /\ broken # "now" /\ (broken = "no" => Stage(call[c]))
  BY <1>1, <1>2, <1>3, StillAlone
<1>6. broken = "no" => Known = wanted /\ Kept(call[c].update, wanted)
  BY <1>2, <1>5 DEF Stage
<1>7. broken' = "no" => Stage(call[c])'
  BY <1>3, <1>4, <1>5, <1>6 DEF Stage
<1>8. broken # "later" => CredentialsSay
  BY DEF AloneInv
<1> QED
  BY <1>4, <1>5, <1>7, <1>8, Continues

LEMMA AloneUnmerge ==
    ASSUME AloneInv, TypeOK, NEW c \in Calls, UnmergeFiles(c) PROVE AloneInv'
<1> DEFINE m == call[c].merged
           new == [config |-> UnmergedConfig(m, Read("config"), Read("credentials")),
                   credentials |-> UnmergedCredentials(m, Read("config"), Read("credentials"))]
           r == [call[c] EXCEPT !.at = Begin("config"), !.new = new]
<1>1. CallsOK /\ FilesOK(disk)
  BY TypeParts
<1>2. call[c].at = "unmerging" /\ call' = [call EXCEPT ![c] = r]
  BY Zenon DEF UnmergeFiles
<1>3. r.at = Begin("config") /\ r.update = call[c].update /\ r.merged = call[c].merged
  BY <1>1 DEF CallsOK, CallOK
<1>4. /\ disk' = disk /\ backup' = backup /\ wanted' = wanted /\ broken' = broken /\ Known' = Known
      /\ CredentialsSay' = CredentialsSay
  BY DEF UnmergeFiles, ghosts, Known, Read, CredentialsSay
<1> HIDE DEF r
<1>5. r.at # "idle"
  BY <1>3, BeginAwaits
<1>6. call'[c] = r /\ Busy' = {c} /\ broken # "now" /\ (broken = "no" => Stage(call[c]))
  BY <1>1, <1>2, <1>5, StillAlone
<1>7. broken = "no" => /\ Known = wanted /\ Kept(call[c].update, wanted)
                       /\ call[c].merged = Applied(call[c].update, wanted)
  BY <1>2, <1>6 DEF Stage
<1>8. broken = "no" => InFiles({disk["config"], disk["credentials"]}, wanted)
  BY <1>1, <1>7, KnownInFiles
<1>9. broken = "no" /\ r.at = "writeConfig" => InFiles({backup["config"], disk["credentials"]}, wanted)
  <2>1. r.at = "writeConfig" => disk["config"] = Missing
    BY <1>3, BeginAwaits
  <2> QED
    BY <1>8, <2>1 DEF InFiles, Says
<1>10. broken' = "no" => Stage(call[c])'
  BY <1>3, <1>4, <1>6, <1>7, <1>9, BeginAwaits DEF Stage
<1>11. broken # "later" => CredentialsSay
  BY DEF AloneInv
<1> QED
  BY <1>4, <1>6, <1>10, <1>11, Continues

LEMMA AloneMoveConfig ==
    ASSUME AloneInv, TypeOK, NEW c \in Calls, MoveFile(c, "config") PROVE AloneInv'
<1> DEFINE r == [call[c] EXCEPT !.at = "writeConfig"]
<1>1. CallsOK /\ FilesOK(disk) /\ FilesOK(backup)
  BY TypeParts
<1>2. call[c].at = "moveConfig" /\ call' = [call EXCEPT ![c] = r]
  BY DEF MoveFile, Become
<1>3. r.at = "writeConfig" /\ r.update = call[c].update /\ r.merged = call[c].merged
  BY <1>1 DEF CallsOK, CallOK
<1>4. /\ disk'["credentials"] = disk["credentials"] /\ backup'["config"] = disk["config"]
      /\ wanted' = wanted /\ broken' = broken
  BY <1>1 DEF MoveFile, ghosts, FilesOK, FileNames
<1>5. CredentialsSay' = CredentialsSay
  BY <1>4 DEF Read, CredentialsSay
<1> HIDE DEF r
<1>6. call'[c] = r /\ Busy' = {c} /\ broken # "now" /\ (broken = "no" => Stage(call[c]))
  BY <1>1, <1>2, <1>3, StillAlone
<1>7. broken = "no" => /\ Known = wanted /\ Kept(call[c].update, wanted)
                       /\ call[c].merged = Applied(call[c].update, wanted)
  BY <1>2, <1>6 DEF Stage
<1>8. broken = "no" => InFiles({disk["config"], disk["credentials"]}, wanted)
  BY <1>1, <1>7, KnownInFiles
<1>9. broken' = "no" => Stage(call[c])'
  BY <1>3, <1>4, <1>6, <1>7, <1>8 DEF Stage
<1>10. broken # "later" => CredentialsSay
  BY DEF AloneInv
<1> QED
  BY <1>4, <1>5, <1>6, <1>9, <1>10, Continues

LEMMA AloneMoveCredentials ==
    ASSUME AloneInv, TypeOK, NEW c \in Calls, MoveFile(c, "credentials") PROVE AloneInv'
<1> DEFINE r == [call[c] EXCEPT !.at = "writeCredentials"]
<1>1. CallsOK /\ FilesOK(disk) /\ FilesOK(backup)
  BY TypeParts
<1>2. call[c].at = "moveCredentials" /\ call' = [call EXCEPT ![c] = r]
  BY DEF MoveFile, Become
<1>3. r.at = "writeCredentials" /\ r.update = call[c].update /\ r.merged = call[c].merged
      /\ r.new = call[c].new
  BY <1>1 DEF CallsOK, CallOK
<1>4. /\ disk'["config"] = disk["config"] /\ disk'["credentials"] = Missing
      /\ backup'["config"] = backup["config"] /\ backup'["credentials"] = disk["credentials"]
      /\ wanted' = wanted /\ broken' = broken
  BY <1>1 DEF MoveFile, ghosts, FilesOK, FileNames
<1>5. CredentialsSay'
  BY <1>4, EmptyIsFile DEF Read, CredentialsSay
<1> HIDE DEF r
<1>6. call'[c] = r /\ Busy' = {c} /\ broken # "now" /\ (broken = "no" => Stage(call[c]))
  BY <1>1, <1>2, <1>3, StillAlone
<1>7. broken = "no" => /\ InFiles({backup["config"], disk["credentials"]}, wanted)
                       /\ Kept(call[c].update, wanted)
                       /\ call[c].merged = Applied(call[c].update, wanted)
                       /\ disk["config"] = call[c].new["config"]
  BY <1>2, <1>6 DEF Stage
<1>8. broken' = "no" => Stage(call[c])'
  BY <1>3, <1>4, <1>6, <1>7 DEF Stage
<1> QED
  BY <1>4, <1>5, <1>6, <1>8, Continues

LEMMA AloneWriteConfig ==
    ASSUME AloneInv, TypeOK, NEW c \in Calls, WriteConfig(c) PROVE AloneInv'
<1> DEFINE r == [call[c] EXCEPT !.at = Begin("credentials")]
<1>1. CallsOK /\ FilesOK(disk)
  BY TypeParts
<1>2. call[c].at = "writeConfig" /\ call' = [call EXCEPT ![c] = r]
  BY DEF WriteConfig, Become
<1>3. r.at = Begin("credentials") /\ r.update = call[c].update /\ r.merged = call[c].merged
      /\ r.new = call[c].new
  BY <1>1 DEF CallsOK, CallOK
<1>4. /\ disk'["config"] = call[c].new["config"] /\ disk'["credentials"] = disk["credentials"]
      /\ backup' = backup /\ wanted' = wanted /\ broken' = broken
  BY <1>1 DEF WriteConfig, ghosts, FilesOK, FileNames
<1>5. CredentialsSay' = CredentialsSay
  BY <1>4 DEF Read, CredentialsSay
<1> HIDE DEF r
<1>6. r.at # "idle"
  BY <1>3, BeginAwaits
<1>7. call'[c] = r /\ Busy' = {c} /\ broken # "now" /\ (broken = "no" => Stage(call[c]))
  BY <1>1, <1>2, <1>6, StillAlone
<1>8. broken = "no" => /\ InFiles({backup["config"], disk["credentials"]}, wanted)
                       /\ Kept(call[c].update, wanted)
                       /\ call[c].merged = Applied(call[c].update, wanted)
  BY <1>2, <1>7 DEF Stage
<1>9. broken = "no" /\ disk["credentials"] = Missing =>
          InFiles({backup["config"], backup["credentials"]}, wanted)
  BY <1>8 DEF InFiles, Says
<1>10. broken' = "no" => Stage(call[c])'
  BY <1>3, <1>4, <1>7, <1>8, <1>9, BeginAwaits DEF Stage
<1>11. broken # "later" => CredentialsSay
  BY DEF AloneInv
<1> QED
  BY <1>4, <1>5, <1>7, <1>10, <1>11, Continues

\* The last write: the files say what the update leaves of the settings as they were.
LEMMA AloneWriteCredentials ==
    ASSUME AloneInv, TypeOK, IInv, NEW c \in Calls, WriteCredentials(c) PROVE AloneInv'
<1> DEFINE new == call[c].new
<1>1. CallsOK /\ FilesOK(disk) /\ RestOK
  BY TypeParts
<1>2. call[c].at = "writeCredentials" /\ call' = [call EXCEPT ![c] = Idle] /\ Idle.at = "idle"
  BY DEF WriteCredentials, Idle
<1>3. Busy' = {} /\ broken # "now" /\ (broken = "no" => Stage(call[c]))
  BY <1>1, <1>2, StillAlone
<1>4. /\ disk'["config"] = disk["config"] /\ disk'["credentials"] = new["credentials"]
      /\ broken' = broken
  BY <1>1 DEF WriteCredentials, FilesOK, FileNames
<1>5. IsFile(new["config"]) /\ IsFile(new["credentials"])
  BY <1>1 DEF CallsOK, CallOK, FileNames
<1>6. new["config"] # Missing /\ new["credentials"] # Missing
  BY <1>5, FileExists
<1>7. Merge(new["config"], new["credentials"]) = call[c].merged
  BY <1>2 DEF IInv, Faithful
<1>8. wanted' = Applied(call[c].update, wanted)
  BY <1>1, WantedApplied DEF CallsOK, RestOK
<1> HIDE DEF new
<1>9. broken = "no" => call[c].merged = Applied(call[c].update, wanted) /\ disk["config"] = new["config"]
  BY <1>2, <1>3 DEF Stage, new
<1>10. broken = "no" => Known' = wanted'
  BY <1>4, <1>6, <1>7, <1>8, <1>9 DEF Known, Read
<1>11. FilesOK(disk)'
  <2>1. FilesOK([disk EXCEPT !["credentials"] = new["credentials"]])
    BY <1>1, <1>5, FileStored DEF FileNames
  <2> QED
    BY <2>1 DEF WriteCredentials, new
<1>12. (FilesOK(disk) /\ Known = wanted => CredentialsSay)'
  BY KnownInFiles, PTL
<1>13. broken' \in {"no", "later"}
  BY <1>1, <1>3, <1>4 DEF RestOK
<1> QED
  BY <1>3, <1>4, <1>10, <1>11, <1>12, <1>13, Ends

\* Wherever a save breaks off, what it has taken away is in a backup or in the other file.
LEMMA AloneBreakOff ==
    ASSUME AloneInv, TypeOK, NEW c \in Calls, BreakOff(c) PROVE AloneInv'
<1> DEFINE at == call[c].at
           all == {disk'["config"], disk'["credentials"], backup["config"], backup["credentials"]}
<1>1. CallsOK /\ FilesOK(disk) /\ RestOK
  BY TypeParts
<1>2. at # "idle" /\ at \in Awaits /\ call' = [call EXCEPT ![c] = Idle] /\ Idle.at = "idle"
  BY <1>1 DEF BreakOff, Idle, CallsOK, CallOK
<1>3. Busy' = {} /\ broken # "now" /\ (broken = "no" => Stage(call[c]))
  BY <1>1, <1>2, StillAlone
<1>4. /\ backup' = backup /\ wanted' = wanted
      /\ broken' = IF broken = "no" /\ at \notin {"options", "merging", "unmerging"}
                   THEN "now" ELSE broken
  BY DEF BreakOff
<1>5. \/ disk' = disk
      \/ at = "writeConfig" /\ disk'["credentials"] = disk["credentials"]
      \/ at = "writeCredentials" /\ disk'["credentials"] = EmptyFile
  BY <1>1 DEF BreakOff, FilesOK, FileNames
<1> HIDE DEF at
<1>6. broken # "later" => CredentialsSay
  BY DEF AloneInv
<1>7. broken' # "later" => CredentialsSay'
  <2>1. broken' # "later" => broken # "later"
    BY <1>4
  <2>2. CASE disk'["credentials"] = disk["credentials"]
    <3>1. CredentialsSay' = CredentialsSay
      BY <1>4, <2>2 DEF CredentialsSay, Read
    <3> QED
      BY <1>6, <2>1, <3>1
  <2>3. CASE disk'["credentials"] = EmptyFile
    BY <2>3, EmptyIsFile DEF CredentialsSay, Read
  <2> QED
    BY <1>5, <2>2, <2>3
<1>8. broken' = "no" => Known' = wanted'
  <2>1. broken' = "no" => broken = "no" /\ at \in {"options", "merging", "unmerging"}
    BY <1>4
  <2>2. broken' = "no" => Known = wanted
    BY <1>3, <2>1 DEF Stage, at
  <2> QED
    BY <1>4, <1>5, <2>1, <2>2 DEF Known, Read
<1>9. broken' = "now" => InFiles(all, wanted)
  <2> SUFFICES ASSUME broken' = "now" PROVE InFiles(all, wanted)
    OBVIOUS
  <2>1. broken = "no" /\ at \in {"moveConfig", "writeConfig", "moveCredentials", "writeCredentials"}
    BY <1>2, <1>3, <1>4 DEF Awaits
  <2>2. CASE at = "moveConfig"
    <3>1. Known = wanted
      BY <1>3, <2>1, <2>2 DEF Stage, at
    <3>2. InFiles({disk["config"], disk["credentials"]}, wanted)
      BY <1>1, <3>1, KnownInFiles
    <3>3. {disk["config"], disk["credentials"]} \subseteq all
      BY <1>5, <2>2
    <3> QED
      BY <3>2, <3>3, MoreFiles
  <2>3. CASE at \in {"writeConfig", "moveCredentials"}
    <3>1. InFiles({backup["config"], disk["credentials"]}, wanted)
      BY <1>3, <2>1, <2>3 DEF Stage, at
    <3>2. {backup["config"], disk["credentials"]} \subseteq all
      BY <1>5, <2>3
    <3> QED
      BY <3>1, <3>2, MoreFiles
  <2>4. CASE at = "writeCredentials"
    <3>1. InFiles({backup["config"], backup["credentials"]}, wanted)
      BY <1>3, <2>1, <2>4 DEF Stage, at
    <3>2. {backup["config"], backup["credentials"]} \subseteq all
      OBVIOUS
    <3> QED
      BY <3>1, <3>2, MoreFiles
  <2> QED
    BY <2>1, <2>2, <2>3, <2>4
<1>10. broken' = "now" => InFiles({disk["config"], disk["credentials"],
                                   backup["config"], backup["credentials"]}, wanted)'
  BY <1>4, <1>9
<1> QED
  BY <1>3, <1>7, <1>8, <1>10, Ends

\* Another process writes while no call is in progress.
LEMMA AloneOther ==
    ASSUME AloneInv, TypeOK, OtherWrites, ~overlapped' PROVE AloneInv'
<1>1. FilesOK(disk) /\ RestOK /\ IsFile(Read("credentials"))
  BY TypeParts, ReadIsFile
<1>2. PICK p \in Profiles :
          /\ disk' = [disk EXCEPT !["config"] = Merge(@, [k \in {<<p, "region">>} |-> "elsewhere"])]
          /\ wanted' = IF <<p, "region">> \in DOMAIN Read("credentials") THEN wanted
                       ELSE Merge(wanted, [k \in {<<p, "region">>} |-> "elsewhere"])
  BY Zenon DEF OtherWrites
<1> DEFINE region == <<p, "region">>
           written == [k \in {region} |-> "elsewhere"]
           config == disk["config"]
           hidden == region \in DOMAIN Read("credentials")
<1>3. IsFile(written) /\ DOMAIN written = {region}
  BY RegionIsFile
<1>4. config # Missing /\ IsFile(config) /\ IsFile(wanted)
  BY <1>1 DEF OtherWrites, FilesOK, FileNames, RestOK
<1>5. Busy = {} /\ Busy' = {} /\ backup' = backup /\ broken' = broken
  BY DEF OtherWrites, Busy
<1>6. /\ disk'["config"] = Merge(config, written)
      /\ disk'["credentials"] = disk["credentials"]
      /\ hidden => wanted' = wanted
      /\ ~hidden => wanted' = Merge(wanted, written)
  <2>1. disk' = [disk EXCEPT !["config"] = Merge(config, written)]
    BY <1>2, Zenon
  <2>2. wanted' = IF hidden THEN wanted ELSE Merge(wanted, written)
    BY <1>2, Zenon
  <2> HIDE DEF written, config, hidden
  <2> QED
    BY <1>1, <2>1, <2>2 DEF FilesOK, FileNames
<1> HIDE DEF written, config, hidden, region
<1>7. /\ IsFile(Merge(config, written)) /\ DOMAIN Merge(config, written) = DOMAIN config \cup {region}
      /\ Merge(config, written)[region] = written[region]
      /\ \A k \in DOMAIN config \ {region} : Merge(config, written)[k] = config[k]
  <2>1. /\ IsFile(Merge(config, written))
        /\ DOMAIN Merge(config, written) = DOMAIN config \cup DOMAIN written
        /\ \A k \in DOMAIN written : Merge(config, written)[k] = written[k]
        /\ \A k \in DOMAIN config \ DOMAIN written : Merge(config, written)[k] = config[k]
    BY <1>3, <1>4, MergeFacts
  <2> QED
    BY <1>3, <2>1
<1>8. /\ IsFile(Merge(wanted, written)) /\ DOMAIN Merge(wanted, written) = DOMAIN wanted \cup {region}
      /\ Merge(wanted, written)[region] = written[region]
      /\ \A k \in DOMAIN wanted \ {region} : Merge(wanted, written)[k] = wanted[k]
  <2>1. /\ IsFile(Merge(wanted, written))
        /\ DOMAIN Merge(wanted, written) = DOMAIN wanted \cup DOMAIN written
        /\ \A k \in DOMAIN written : Merge(wanted, written)[k] = written[k]
        /\ \A k \in DOMAIN wanted \ DOMAIN written : Merge(wanted, written)[k] = wanted[k]
    BY <1>3, <1>4, MergeFacts
  <2> QED
    BY <1>3, <2>1
<1>9. Merge(config, written) # Missing
  BY <1>7, FileExists
<1>10. Read("credentials")' = Read("credentials")
  BY <1>6 DEF Read
<1>11. \A k \in DOMAIN wanted : hidden \/ k # region => k \in DOMAIN wanted' /\ wanted'[k] = wanted[k]
  BY <1>6, <1>8
<1>12. DOMAIN wanted' \subseteq DOMAIN wanted \cup {region} /\ (hidden => DOMAIN wanted' = DOMAIN wanted)
  BY <1>6, <1>8
<1>13. broken' # "later" => CredentialsSay'
  <2>1. broken' # "later" => CredentialsSay
    BY <1>5 DEF AloneInv
  <2>2. \A k \in DOMAIN Read("credentials") \cap DOMAIN wanted' :
            k \in DOMAIN wanted /\ wanted'[k] = wanted[k]
    BY <1>11, <1>12 DEF hidden
  <2> QED
    BY <1>6, <1>10, <2>1, <2>2 DEF CredentialsSay, Says
<1>14. broken' = "no" => Known' = wanted'
  <2> SUFFICES ASSUME broken' = "no" PROVE Known' = wanted'
    OBVIOUS
  <2> DEFINE credentials == Read("credentials")
             new == Merge(config, written)
  <2>1. wanted = Merge(config, credentials)
    BY <1>4, <1>5 DEF AloneInv, Known, Read, config
  <2>2. Known' = Merge(new, credentials)
    BY <1>6, <1>9, <1>10 DEF Known, Read
  <2>3. IsFile(credentials) /\ IsFile(config) /\ IsFile(new)
    BY <1>1, <1>4, <1>7
  <2>4. DOMAIN new = DOMAIN config \cup {region} /\ new[region] = written[region]
        /\ \A k \in DOMAIN config \ {region} : new[k] = config[k]
    BY <1>7
  <2> DEFINE known == Merge(new, credentials)
             old == Merge(config, credentials)
  <2> HIDE DEF credentials, new
  <2>5. /\ IsFile(known) /\ DOMAIN known = DOMAIN new \cup DOMAIN credentials
        /\ \A k \in DOMAIN credentials : known[k] = credentials[k]
        /\ \A k \in DOMAIN new \ DOMAIN credentials : known[k] = new[k]
    BY <2>3, MergeFacts
  <2>6. /\ DOMAIN old = DOMAIN config \cup DOMAIN credentials
        /\ \A k \in DOMAIN credentials : old[k] = credentials[k]
        /\ \A k \in DOMAIN config \ DOMAIN credentials : old[k] = config[k]
    BY <2>3, MergeFacts
  <2> HIDE DEF known, old
  <2>7. wanted = old
    BY <2>1 DEF old
  <2>8. CASE hidden
    <3>1. region \in DOMAIN credentials
      BY <2>8 DEF hidden, credentials
    <3>2. DOMAIN known = DOMAIN wanted
      BY <2>4, <2>5, <2>6, <2>7, <3>1
    <3>3. \A k \in DOMAIN known : known[k] = wanted[k]
      BY <2>4, <2>5, <2>6, <2>7, <3>1
    <3>4. known = wanted
      BY <1>4, <2>5, <3>2, <3>3, FileEquality
    <3> QED
      BY <1>6, <2>2, <2>8, <3>4 DEF known
  <2>9. CASE ~hidden
    <3> DEFINE next == Merge(wanted, written)
    <3>1. region \notin DOMAIN credentials
      BY <2>9 DEF hidden, credentials
    <3>2. /\ IsFile(next) /\ DOMAIN next = DOMAIN wanted \cup {region}
          /\ next[region] = written[region]
          /\ \A k \in DOMAIN wanted \ {region} : next[k] = wanted[k]
      BY <1>8
    <3> HIDE DEF next
    <3>3. DOMAIN known = DOMAIN next
      BY <2>4, <2>5, <2>6, <2>7, <3>2
    <3>4. \A k \in DOMAIN known : known[k] = next[k]
      BY <2>4, <2>5, <2>6, <2>7, <3>1, <3>2
    <3>5. known = next
      BY <2>5, <3>2, <3>3, <3>4, FileEquality
    <3> QED
      BY <1>6, <2>2, <2>9, <3>5 DEF known, next
  <2> QED
    BY <2>8, <2>9
<1>15. broken' = "now" => InFiles({disk["config"], disk["credentials"],
                                   backup["config"], backup["credentials"]}, wanted)'
  <2> SUFFICES ASSUME broken' = "now", NEW k \in DOMAIN wanted'
               PROVE  \E file \in {disk'["config"], disk'["credentials"],
                                   backup["config"], backup["credentials"]} : Says(file, k, wanted')
    BY <1>5 DEF InFiles
  <2>1. CASE ~hidden /\ k = region
    BY <1>6, <1>7, <1>8, <1>9, <2>1 DEF Says
  <2>2. CASE hidden /\ k = region
    <3>1. k \in DOMAIN Read("credentials") \cap DOMAIN wanted'
      BY <2>2 DEF hidden
    <3>2. Says(disk["credentials"], k, wanted)'
      BY <1>10, <1>13, <3>1 DEF CredentialsSay
    <3> QED
      BY <3>2
  <2>3. CASE k # region
    <3>1. k \in DOMAIN wanted /\ wanted'[k] = wanted[k]
      BY <1>11, <1>12, <2>3
    <3>2. PICK file \in {config, disk["credentials"], backup["config"], backup["credentials"]} :
              Says(file, k, wanted)
      BY <1>5, <3>1 DEF AloneInv, InFiles, config
    <3>3. CASE file = config
      BY <1>6, <1>7, <1>9, <2>3, <3>1, <3>2, <3>3 DEF Says
    <3>4. CASE file # config
      BY <1>6, <3>1, <3>2, <3>4 DEF Says
    <3> QED
      BY <3>3, <3>4
  <2> QED
    BY <2>1, <2>2, <2>3
<1> QED
  BY <1>5, <1>13, <1>14, <1>15, Ends

LEMMA AloneInductive == TypeOK /\ IInv /\ Alone /\ [Next]_vars => Alone'
<1> SUFFICES ASSUME TypeOK, IInv, Alone, [Next]_vars, ~overlapped' PROVE AloneInv'
  BY DEF Alone
<1>1. ~overlapped
  BY DEF Next, vars, ghosts, OtherWrites, UpdateProfile, Step, EnforceOptions, MergeFiles,
         UnmergeFiles, MoveFile, WriteConfig, WriteCredentials, BreakOff
<1>2. AloneInv
  BY <1>1 DEF Alone
<1>3. CASE UNCHANGED vars
  <2>1. disk' = disk /\ backup' = backup /\ call' = call /\ wanted' = wanted /\ broken' = broken
    BY <1>3 DEF vars, ghosts
  <2>2. Known' = Known /\ Busy' = Busy /\ CredentialsSay' = CredentialsSay
    BY <2>1 DEF Known, Read, Busy, CredentialsSay
  <2> QED
    BY <1>2, <2>1, <2>2 DEF AloneInv, Stage
<1>4. CASE OtherWrites
  BY <1>2, <1>4, AloneOther
<1>5. ASSUME NEW c \in Calls, UpdateProfile(c) PROVE AloneInv'
  BY <1>2, <1>5, AloneUpdate
<1>6. ASSUME NEW c \in Calls, Step(c) PROVE AloneInv'
  <2>1. ASSUME NEW f \in FileNames, MoveFile(c, f) PROVE AloneInv'
    BY <1>2, <2>1, AloneMoveConfig, AloneMoveCredentials DEF FileNames
  <2> QED
    BY <1>2, <1>6, <2>1, AloneEnforce, AloneMerge, AloneUnmerge, AloneWriteConfig,
       AloneWriteCredentials, AloneBreakOff DEF Step
<1> QED
  BY <1>3, <1>4, <1>5, <1>6 DEF Next

StoreInv == TypeOK /\ IInv /\ Alone

\* The inductive invariant behind the three theorems that follow.
THEOREM StoreInvariance == Spec => []StoreInv
<1>1. Init => StoreInv
  BY TypeInitially, Initially, AloneInitially DEF StoreInv
<1>2. StoreInv /\ [Next]_vars => StoreInv'
  BY TypeInductive, Inductive, AloneInductive DEF StoreInv
<1> QED
  BY <1>1, <1>2, PTL DEF Spec

\* updateProfile preserves what it is not passed: when no call is in progress and none broke off,
\* the files say what the updates and the other processes wrote, in their order, unless a call met
\* another one or another process.
THEOREM RestPreserved == Spec => []PreservesTheRestAlone
<1>1. StoreInv => PreservesTheRestAlone
  BY DEF StoreInv, Alone, AloneInv, PreservesTheRestAlone, PreservesTheRest
<1> QED
  BY <1>1, StoreInvariance, PTL

\* saveSharedConfigFile's backups suffice: at every await of a call, and wherever it broke off, each
\* setting is in one of the two files or in their backups, until the next save.
THEOREM SettingsRecoverable == Spec => []Recoverable
<1>1. StoreInv => Recoverable
  <2> SUFFICES ASSUME StoreInv, ~overlapped, broken # "later"
               PROVE  InFiles({disk["config"], disk["credentials"],
                               backup["config"], backup["credentials"]}, wanted)
    BY DEF Recoverable, InFiles, Says, FileNames
  <2> DEFINE all == {disk["config"], disk["credentials"], backup["config"], backup["credentials"]}
  <2>1. AloneInv /\ FilesOK(disk) /\ CallsOK /\ RestOK
    BY TypeParts DEF StoreInv, Alone
  <2>2. ASSUME NEW F, F \subseteq all, InFiles(F, wanted) PROVE InFiles(all, wanted)
    BY <2>2, MoreFiles
  <2>3. Known = wanted => InFiles(all, wanted)
    <3>1. {disk["config"], disk["credentials"]} \subseteq all
      OBVIOUS
    <3> QED
      BY <2>1, <2>2, <3>1, KnownInFiles
  <2>4. CASE broken = "now"
    BY <2>1, <2>4 DEF AloneInv
  <2>5. CASE broken = "no" /\ Busy = {}
    BY <2>1, <2>3, <2>5 DEF AloneInv
  <2>6. ASSUME broken = "no", NEW c \in Busy PROVE InFiles(all, wanted)
    <3>1. Stage(call[c]) /\ call[c].at \in Awaits \ {"idle"}
      BY <2>1, <2>6 DEF AloneInv, Busy, CallsOK, CallOK
    <3>2. CASE call[c].at \in {"options", "merging", "unmerging", "moveConfig"}
      BY <2>3, <3>1, <3>2 DEF Stage
    <3>3. CASE call[c].at \in {"writeConfig", "moveCredentials"}
      <4>1. InFiles({backup["config"], disk["credentials"]}, wanted)
        BY <3>1, <3>3 DEF Stage
      <4>2. {backup["config"], disk["credentials"]} \subseteq all
        OBVIOUS
      <4> QED
        BY <2>2, <4>1, <4>2
    <3>4. CASE call[c].at = "writeCredentials"
      <4>1. InFiles({backup["config"], backup["credentials"]}, wanted)
        BY <3>1, <3>4 DEF Stage
      <4>2. {backup["config"], backup["credentials"]} \subseteq all
        OBVIOUS
      <4> QED
        BY <2>2, <4>1, <4>2
    <3> QED
      BY <3>1, <3>2, <3>3, <3>4 DEF Awaits
  <2> QED
    BY <2>1, <2>4, <2>5, <2>6 DEF RestOK
<1> QED
  BY <1>1, StoreInvariance, PTL

\* enforceOptions is enough for a call that meets nobody: between its check and its last write the
\* session that another profile uses cannot change, so the write leaves its URL as it was.
THEOREM SharedSessionsKept == Spec => SharedSessionIsKept
<1>1. ASSUME StoreInv, NEW c \in Calls, WriteCredentials(c), ~overlapped, broken = "no",
             ~call[c].update.updateSharedSsoSession,
             \E p \in Profiles \ {call[c].update.profile} :
                 <<p, "sso_session">> \in DOMAIN wanted
                 /\ wanted[<<p, "sso_session">>] = call[c].update.session,
             <<call[c].update.session, "sso_start_url">> \in DOMAIN wanted
      PROVE  wanted'[<<call[c].update.session, "sso_start_url">>]
                 = wanted[<<call[c].update.session, "sso_start_url">>]
  <2> DEFINE u == call[c].update
             url == <<u.session, "sso_start_url">>
  <2>1. AloneInv /\ CallsOK /\ RestOK
    BY <1>1, TypeParts DEF StoreInv, Alone
  <2>2. call[c].at = "writeCredentials"
    BY <1>1 DEF WriteCredentials
  <2>3. Kept(u, wanted)
    BY <1>1, <2>1, <2>2 DEF AloneInv, Busy, Stage
  <2>4. wanted[url] = u.url
    BY <1>1, <2>3 DEF Kept
  <2>5. u \in Updates
    BY <2>1, <2>2 DEF CallsOK, CallOK
  <2>6. wanted' = Applied(u, wanted) /\ IsFile(wanted)
    BY <1>1, <2>1, WantedApplied DEF CallsOK, RestOK
  <2>7. url \in DOMAIN Written(u) /\ Written(u)[url] = u.url
    BY <2>5, WrittenFacts
  <2> HIDE DEF u, url
  <2>8. Applied(u, wanted)[url] = u.url
    BY <2>5, <2>6, <2>7, AppliedFacts
  <2> QED
    BY <2>4, <2>6, <2>8 DEF u, url
<1>2. StoreInv /\ [Next]_vars =>
        [\A c \in Calls :
            LET u == call[c].update
                url == <<u.session, "sso_start_url">>
            IN  WriteCredentials(c) /\ ~overlapped /\ broken = "no" /\ ~u.updateSharedSsoSession
                /\ (\E p \in Profiles \ {u.profile} :
                        <<p, "sso_session">> \in DOMAIN wanted
                        /\ wanted[<<p, "sso_session">>] = u.session)
                /\ url \in DOMAIN wanted
                => wanted'[url] = wanted[url]]_vars
  BY <1>1, Zenon
<1> QED
  BY <1>2, StoreInvariance, PTL DEF Spec, SharedSessionIsKept
=============================================================================
