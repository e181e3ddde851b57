# A verification development for the AWS language servers

TLA+ models of the parts of this repository that keep state across asynchronous
calls, TLC runs that check them on small instances, and TLAPS proofs of their main
properties for every value of the constants.  `PROJECT.json` lists components, runs,
the source lines of every definition, findings, hazards and theorems.

Everything here runs in Node.js: what the code does between two `await`s is one
atomic step, and other handlers, timers and callbacks run at the `await`s.  In every
module an action is such a stretch of code, and a suspended call is a record that
says which `await` it is at and which values it has read before.

## 1. Inventory

| Part (`src/...`) | State | Operations | What is hard | Module |
|---|---|---|---|---|
| `server/aws-lsp-identity`: SSO token cache, auto-refresh, token requests | token file, registration file, `lastRefreshMillis`, `timeouts` | get, login, refresh, invalidate, watch, unwatch | overlapping refreshes, timers, files shared with other processes | `SsoToken` |
| identity: device code flow | polling loop, progress bar, deadlines | start, show, poll, slow down, cancel | expiry, latency and cancellation race | `DeviceCodePromise`, `DeviceCodeFlow` |
| identity: authorization code flow | local web server, one promise | start, redirect, cancel, exchange | redirects and cancellation settle the same promise | `PkceFlow` |
| identity: profiles | `~/.aws/config`, `~/.aws/credentials`, backups | update profile | three reads and four file operations without a lock, crashes between them | `SharedConfig`, `ProfileStore` |
| `server/aws-lsp-codewhisperer/src/shared`: Amazon Q service manager | state, connection, profile, region, two clients, notifier, listeners | credentials stored or deleted, profile selected, client requested | long sequences of legal events | `QServiceManager` |
| Amazon Q configuration | cached settings, in-progress flag | change, read two sections, notify | edits between reads, failed reads, dropped notifications | `QConfiguration` |
| inline suggestions: sessions | sessions, log, decisions | create, activate, close, discard, results, report | report flag set after an `await` | `InlineSessions` |
| inline suggestions: completions and edits | single-flight flag, suspended requests | request, page, response, error, results | session read before an `await` and used after it | `InlineCompletion`, `EditCompletion` |
| `agenticChat`: prompts of a tab | suspended prompts, current prompt, abort controller, deferred approvals, history | prompt, request, stream, tool use, approval, click, cancel, compact, `/clear` | a new prompt, a cancellation and a click settle the same promises; the history is read and written around the requests of several prompts | `AgenticChat`, `ChatHistory` |
| `agenticChat/tools/mcp`: one MCP server | eight maps about a server, its mutex, the agent's tools | add, edit, delete, enable, disable, refresh, MCP off and on | only the initialisation is exclusive; everything else interleaves at its `await`s | `McpManager` |
| `workspaceContext`: remote workspace | opt-in, three kinds of intervals, WebSocket clients, promise of the id | monitor, create, poll, connect, reconnect, opt out | asynchronous callbacks of intervals outlive the interval | `WebSocketClient`, `RemoteWorkspace` |
| ATX service manager, polling of transformation and scan jobs, result stream and tabs of the chat | see `PROJECT.json` | | caches filled over an `await`, polling loops | not modelled yet |
| generated clients and parsers, file format servers, sample clients, chat UI | | | thin, generated or user interface | not modelled |

The models stand for about 7,700 lines in 41 source files, a tenth of the repository's
roughly 80,000 lines outside its tests and its generated code.

## 2. Modules

- **`SsoToken`** One session's token.  `call[c]` is a request (`GetSsoToken`,
  `InvalidateSsoToken`) or a timer callback (`TimerFires`) with the `await` it waits at
  (`ReadToken`, `ReadRegistration`, `RegisterClient`, `CreateToken`, `WriteToken`,
  `Flow`, `LoginWrite`, `Unlink`).  `OtherWrites` and `OtherRemoves` are other programs
  that use the token file.
- **`AuthorizationFlow`** What a flow promises to the token request: it ends once,
  with a token only after a grant.  `DeviceCodeFlow` and `PkceFlow` are shown to
  implement it through a refinement mapping.
- **`DeviceCodePromise`** The device code flow as its client and the service see it (the
  clock `time`, the polls, the grant, the progress bar) with the properties stated over
  that, and the refinement mapping.  **`DeviceCodeFlow`** extends it with the deadline,
  the cancellation and the actions.
- **`SharedConfig`, `ProfileStore`** Files as functions from settings to values, their
  merge (external: the Smithy loader) and `unmergeConfigFiles`, then `updateProfile`
  from `await` to `await`.  `BreakOff` ends a call at any `await`: an error of the file
  system or the end of the server, with an empty file if it was writing.  Reading a
  file only for its comments and moving it are one step.
- **`QServiceManager`** One record for the singleton's fields, every helper an operator
  from record to record under the name it has in the code.
- **`QConfiguration`** extends it with `handleDidChangeConfiguration`, the client's
  settings and the ordered connection between them.
- **`InlineSessions`** The session manager and the telemetry as operators, used by
  **`InlineCompletion`** and **`EditCompletion`**, the two request handlers.
- **`ChatHistory`** The messages of a tab and what `chatDb.ts` makes of them for a
  request: leading messages are dropped, a missing answer is added, tool results are
  matched with the tool uses before them.
- **`AgenticChat`** extends it with the prompts of one tab.  `call[p]` is a call of
  `onChatPrompt` with the `await` it is at: the previous prompt's approvals are
  invalidated, the context is gathered, then requests, their streams, tool uses,
  approvals and runs alternate, or the history is compacted.  A tool use is named by its
  prompt and a number.  `overlapped` is a ghost that records the cases in which the
  history is known to break (section 5).
- **`McpManager`** One MCP server.  `task[t]` is an operation started from the server list
  or by the profile monitor; `queue` is the server's mutex; `live` are the connections
  that nobody has closed.  `late` (timed out, arrived later) and `lost` (left the map of
  clients without being closed) mark the stray ones; `broken` that the client in the map
  was closed with an error that nobody caught, so that it is still there.  Files that
  cannot be written and closes that are rejected end an operation where the code lets
  them.  Of the statuses the model keeps what the code asks for: `ENABLED`, an error, or
  any other.
- **`WebSocketClient`** The WebSocket clients of the workspace context server, and what
  replaces, resets or destroys the current one.  A socket connects, is refused, opens,
  closes or waits to reconnect.
- **`RemoteWorkspace`** extends it with the workspace context server: workflow, continuous
  check, polling for the first connection and opt-out monitor.  An upload ends at
  a time of its own, and the service answers with its state at the time of the answer.
- `MC*` modules give the instances; `*Proofs` modules hold the theorems.  Operators
  marked `Mutant` are plausible mistakes in the code.  Each replaces one definition and
  makes one property fail, which shows that the property depends on the code.

Assumptions: a rejected `close` of the MCP client has an error that is
shown, not one of the interrupted connections that `handleError` passes over
(`mcpManager.ts:1797`); a server that listens has an address, so that the constructor of
`AuthorizationServer` does not throw (`authorizationServer.ts:37`); the opt-out monitor has
one call in flight per interval.  `UpdateConfiguration` is what follows the answer to
`getConfiguration`: nothing read before that `await` is used after it, so its answers may
be applied at any time.

Left out by abstraction: the contents of tokens, suggestions and requests, logging and
metrics, the wording of messages, the text layout of the config files, the numerical
triggers of suggestions (a free choice), the contents of prompts and of tool runs, the
blocks of the chat's user interface, the messages queued for a workspace.  Removal of whole sections by
`SharedConfigProfileStore.save` is left out: `updateProfile` refuses a profile or an
sso-session without settings (`profileService.ts:102`, `:112`).

## 3. Runs

| Run | Shows |
|---|---|
| `sso_token` | refreshes of a valid token are a cooldown apart (`SpacedRefreshes`), an invalidated token returns only through a refresh that had read it (`RevivalNeedsOverlap`), the handle kept is a live timer (`HandleIsLive`) |
| `device_code` | polls are spaced, a confirmation in time is honoured, the flow is an authorization flow and ends |
| `pkce` | the authorization code flow is an authorization flow, and a cancelled one ends and closes its port |
| `profiles` | the files written say what was merged; calls that met nobody preserve the rest; a save that breaks off leaves everything in a file or a backup; a shared sso-session is changed only on request |
| `profiles_overlap` (violation) | two overlapping updates undo each other |
| `q_service_manager` | the clients agree with each other, the profile, the region, the settings and the connection; no client is dropped without aborting its requests; a switch of regions is heard |
| `q_configuration` | unless a change was missed, cache and listeners are current; every change that is handled ends |
| `completions` | no session is left requesting, each decision is reported once and is final, only the current session is active, suggestions are of an active session, the flag is released |
| `edits` | although requests may overlap, a decision is reported at most once and is final, a request that ran alone offers edits of an active session, the flag is released |
| `agentic_chat` | what is sent of the history alternates and pairs tool uses with results, outside the cases of section 5 (`HistoryPaired`); every pending approval has a prompt that waits for it and a handler that can settle it (`WaitersAreReachable`); no tool runs after a rejection, a cancellation or a newer prompt came first (`OnlyApprovedRun`) |
| `mcp_servers` | one connection to a server that some map knows of (`OneConnection`); at rest the client is open and the tools are its own, unless its close was rejected (`SettledClient`); the agent has no tools of a server that is switched off (`NoToolsWhenOff`) |
| `remote_workspace` | one socket at a time (`OneSocket`); whoever stays eligible and active is connected in the end, outside two cases of section 5, and folders that wait for the id go on (`ConnectedInTheEnd`, `FoldersProceed`) |

Type invariants are proved (section 4) for `SsoToken`, `DeviceCodeFlow`, `ProfileStore`,
`QServiceManager`, `InlineCompletion`, `AgenticChat` and `RemoteWorkspace`; the `TypeOK` of
the other modules documents their state and holds on the instances of their runs.  `ProgressIsClosed` and
`NotifiesAfterSignOut` are proved and in no run.

**Bounds.**  Two suspended calls (two timers) are what an overlap needs; the theorems of
section 4 hold for any number.  `SsoToken`: windows of one and two units, a token that
lives three, a clock of four readings and one removal, so that a token is refreshed
early, late and after it expired.  The jitter is zero in the run and arbitrary in the
proofs.  `DeviceCodeFlow`: an expiry of nine intervals, with latency and slow-downs.
`QServiceManager`: two identities and four profiles, two of one region, one of another
and one of a region without an endpoint; no bound on the number of events.  Both runs
have a client that supports developer profiles; the other kind is covered by the proofs,
which hold for both values of `ProfileSupport`.
`QConfiguration`: two edits.  `InlineCompletion`, `EditCompletion`: three sessions with
a log of one besides the newest, so that sessions leave the log.  `ProfileStore`: two
profiles that share one sso-session, two updates, and one write of another program in
`profiles`.  `AgenticChat`: two prompts, three requests, two tool uses and one incident
(a failure, a cancellation or a `/clear`), so that an older prompt waits for an approval or
runs a tool while the next one starts.  `McpManager`: two operations at a time, started
again and again, and two connections; one is used again once nothing refers to it
(1,544,991 states).  `RemoteWorkspace`: three clients, one poll with one call at a time, two
opt-out timers (an old one outlives a restart of the monitor), one reconnection, and two
disturbances by the user, the service or the network (124,998 states).  The properties hold
as well with two calls of the same poll in flight (`MaxCalls = 2`, 207,505 states), and the
theorems for any number.  With two clients only, the bound and not the code would keep a
user from being connected.  `MCRequests` tries the options that forbid to create a section with one kind of
update only.  Symmetry is used in the runs without liveness only.

**Deadlock** is not checked where a system may stop: sessions, prompts, saves and flows
end, and the bounds on their number leave nothing to do.  In `McpManager` an
initialisation waits when both connections of the bound are taken.  In `RemoteWorkspace`
all timers stop once the service has said that the feature is disabled.

**Fairness.**  Only awaited operations are fair: files, the document store and service
calls answer or fail, timers fire, the event loop runs what is due.  For timers and the
event loop this is what Node.js does.  For service calls it is an assumption about the
environment that the code does not enforce: the clients of the inline suggestions and
of SSO OIDC are built without a request timeout (`sso/utils.ts:21`; only
`streamingClientService.ts:120` sets one).  So `HandlerReleased`, `FlowEnds` and
`CancelledFlowEnds`, `ConnectedInTheEnd` and `FoldersProceed` say that no path of the code keeps the flag, the flow or the folders although
every call has settled.  They do not say what happens when a call never settles.
`DeviceCodeFlow` assumes more, a bound `MaxLatency` on its service calls, and
`ConfirmedInTimeIsHonoured` names that bound; the module's theorems are about behaviours that
respect it.

| Specification | Weakly fair |
|---|---|
| `FairConfigSpec` | the client's answers, the server's handlers, the listeners' end |
| `FairSpec` of `InlineCompletion`, `EditCompletion` | the next step of each suspended call |
| `FairSpec` of `DeviceCodeFlow` | time, the start, the timers, the service's answers |
| `FairSpec` of `PkceFlow` | the start, the listener of the cancellation, the resumptions, the exchange |
| `Spec` of `RemoteWorkspace` | the timers, the answers of the service and the end of an upload, the sockets' progress without faults, the provisioning of a workspace that was created |

The client is fair only in answering `workspace/configuration`.  Nothing is assumed of
users, browsers, clients' further requests or other programs.

## 4. Proofs

TLAPS checks all theorems.  Each proof has an inductive invariant, one step per action,
and a temporal step at the end.  Every invariant and action property that a run checks is
also a theorem, for every value of the constants; `PROJECT.json` has the names.

**Single sign-on** (`SsoProofs`).  `SsoToken`: the type invariant and the three
invariants of `sso_token`, for any calls, timers and windows.  That two refreshes are
apart needs that `lastRefresh` is not older than any of them (`StampInv`), and the claim
about removals that no call has seen a future one (`SeenInv`).  `DeviceCodeFlow`: the
type invariant, `ConfirmedInTimeIsHonoured`, `ProgressIsClosed`, `PollsAreSpaced` and the
refinement, for all durations.  `Places` says which times go with which `await`;
`Confirmed` that a sleeping flow whose user has confirmed began its last poll before the
confirmation.  `PkceFlow`: the refinement; the promise is resolved, and the exchange
reached, only after the grant.

**Amazon Q service manager** (`QServiceManagerProofs`).  The type invariant, five
invariants and the action property about listeners, for any profiles, regions, identities
and settings.  `Sound` ties state, connection, profile, region, clients and notifier
together; each operator of the manager has a lemma that says what it preserves.  The same
module proves `CurrentUnlessMissed` of `QConfiguration`, for any number of edits.  It
needs the protocol of the connection (`Exchange`: at most one answer is under way, and it
is for the section being read) and that what was read so far is the client's unless a
notification is still under way (`Fresh`).

**Profiles** (`ProfileStoreProofs`).  `unmergeConfigFiles` is a right inverse of the
merge for all files, hence every call writes what it merged, however calls overlap.  For
`PreservesTheRestAlone` and `Recoverable` the files alone do not tell: during a save a
setting may be in a backup only.  `StoreInv` says, as long as no two writers have met,
where everything is at each `await` (`Stage`): a call that saves is the only one, what it
merged is what the files said with its update applied, and once it has moved a file the
backups and the file not yet moved hold every setting.
`SharedSessionIsKept` is an action property and follows from the same stages.

**Inline suggestions** (`SessionProofs`, `InlineProofs`, `EditProofs`).  `SessionProofs`
has a lemma for every method of the session manager; the other two are about the
handlers, for any number of requests and sessions and all sizes of the logs.
Completions: `RequestingInFlight`, `ReportedExactlyOnce`, `OnlyCurrentActive`,
`DecisionIsFinal` and `OfferedIsActive`.  `CompletionInv` says that at most one call is
in progress, that it stays with the current session from its first `await` to its last,
and that a session that has not ended has sent nothing.  It also says that no completion
session is ever marked to be discarded when its response comes: the single-flight flag
leaves no request in which `inlineCompletionHandler.ts:103` could find the current
session requesting.  Edits: `ReportedAtMostOnce`, `DecisionIsFinal` and
`OfferedIsActive`.  Requests overlap here, and `EditInv` rests on what still holds: a
session whose response is on its way belongs to one request, is not active, has no
results and has sent nothing, and a request that met no other one finds its session
current and as it left it.

**Agentic chat** (`AgenticChatProofs`).  The type invariant, `WaitersAreReachable`,
`OnlyApprovedRun` and `HistoryPaired`, for any number of prompts, requests and tool uses.
`ToolInv` adds that the tool uses a prompt has yet to process have new numbers (so that
an approval is never that of an older tool use), which tool a suspended prompt is at, and
that its approval is registered exactly while it waits.  `HistInv` is about the history:
it consists of answers without a prompt, then a prompt of the user's own, then prompts
and answers in turn (`Sound`), so that the loops of `ensureValidMessageSequence` drop the
leading answers and nothing else; and the one prompt that may write, the current one
while it is not cancelled, is at an `await` at which its next message fits the last one
stored (`Writer`).  The ghost `overlapped` took its present form from this proof: with
three prompts, a superseded prompt whose input is too long empties the history under the
current one (`agenticChatController.ts:3741`), which two prompts within the bounds of the
run do not show.  TLC has checked the property with three prompts in instances of 7 and
19 million states, too large for a run.

**Connections** (`ConnectionProofs`).  `McpManager`: the three invariants of
`mcp_servers`, for any number of operations and connections.  `ConnInv` says that the
mutex lets one operation set up a connection (`Exclusive`), that there is no client
beside it (`SetUp`), that every open connection is the client, the one being set up or a
stray one (`Known`), and that a closed client or one without its tools has an operation
that will drop it or list them, or was closed with an error (`OpenClient`, `Listing`,
`Broken`, `OwnTools`); `ToolsInv` that tools of a disabled server are about to be taken
back.  `RemoteWorkspace`: the type invariant and `OneSocket`, for any number of clients,
timers, calls in flight and reconnections.  That two sockets are never open is not inductive: a client that is neither current nor dropped
could still be about to connect.  `SocketInv` says that it is closed for good.

**Assumptions** are the named `ASSUME`s on constants: relations between the windows as in
the code, types of durations and bounds, distinct null values, a missing file that is no
file (`MissingAssumption`), a log of decisions with room for one entry (`SizeAssumption`;
the code has room for five).  Every run evaluates those of its module.  For
`DeviceCodeFlow` and `RemoteWorkspace`, which the proof modules instantiate, the theorems
repeat them (`DeviceConstants`, `WorkspaceConstants`).  `DeviceCodeFlow` has
the bounded latency above as well.

**Model-checked only:** the liveness properties (`HandlerReleased` of both handlers,
`ChangesFinish`, `FlowEnds`, `CancelledFlowEnds`, `ConnectedInTheEnd`, `FoldersProceed`),
because fairness and `ENABLED` are out of the prover's reach.  No theorem needs induction
over data: the loops over a history are stated as the number of messages that they drop,
and the merge of files setting by setting.

## 5. Where the code and its texts differ

Checked by a violation run and listed under `findings` in `PROJECT.json`:
`profiles_overlap`.

Seen in the models as well, without a run of their own.  Identity, service manager and
inline suggestions:

- `AmazonQTokenServiceManager.ts:400`: an update to a profile whose ARN does not parse or
  whose region has no endpoint throws after the state was set to
  `PENDING_Q_PROFILE_UPDATE` ("During profile update operation", `:53`), which is not
  set back; requests are refused until another update succeeds or the user signs out.
- `editCompletionHandler.ts:390`: `processSuggestionResponse` is never given a document, so
  the tracker of rejected edits ("to avoid showing similar edits again",
  `rejectedEditTracker.ts:36`) is asked about the URI `''` and filters nothing.
- `authorizationServer.ts:165`: a second `?` is added to the address, so the page
  (`resources/index.html:67`) finds no parameter `error` and says after a failed
  authorization that the permissions were given.
- `ssoTokenAutoRefresher.ts:71`: two overlapping `watch` calls set two timers and keep
  one handle; after `unwatch` ("will not be auto-refreshed", `:86`) the other one fires.
- `ssoTokenAutoRefresher.ts:58`: both comparisons are strict, so exactly at the start of
  the refresh window no timer is set, in the branch commented "Otherwise, expired".
- `ssoTokenAutoRefresher.ts:39`: any failure of a refresh, also of the network, ends the
  automatic refresh as if the token were gone.
- `AmazonQTokenServiceManager.ts:423`: the first selection of a profile changes the
  region without calling the listeners "called when the region changes" (`:751`).
- `AmazonQTokenServiceManager.ts:270`: a connection of the same type returns early,
  whoever it belongs to, so another account inherits the notifier
  (`qDevAccessBlockedNotifier.ts:40` says it gets a fresh notification).
- `BaseAmazonQServiceManager.ts:138`: a change that arrives while another is handled is
  dropped and not read again.
- `inlineCompletionHandler.ts:117`: a page is added to whatever session is current.
- `editCompletionHandler.ts:134`: the flag is tested before an `await` and set after it,
  so two requests run side by side, and edits of a session that is not active are
  returned (`:370`).
- `editCompletionHandler.ts:171`: a failed page closes the previous session, a second
  time if it was closed (its decision is logged twice, `sessionManager.ts:363`), and
  leaves its own session `REQUESTING`.
- `unmergeConfigFiles.ts:78`: a setting of the config file that the credentials file
  hides is overwritten by the hiding value on any save.
- `profileService.ts:169`: two lists of scopes are compared by identity, so an update that
  passes the scopes unchanged counts as a change of the sso-session.
- `unmergeConfigFiles.ts:101`: the comment says that secrets defined in the config file
  stay there; the code moves them.

Agentic chat:

- `agenticChatController.ts:1401`: a compaction replaces the history also when another
  prompt has a request under way, whose answer then follows the summary's; and `/clear`
  between two requests of a prompt leaves a history that begins with an answer or with
  tool results.  `chatDb.ts:661` says that the history "contains alternating sequene of
  userMessage followed by assistantMessages", and `:862` relies on it.  `HistoryPaired`
  excludes these cases through `overlapped`, and the next one.
- `agenticChatController.ts:3741`: an input that is too long clears the history although a
  newer prompt has taken over, which may be between two of its messages.
- After `/clear`, a prompt in the middle of its loop sends its tool results with an empty
  history; the branch commented "Edge case" is not reached, because the validation throws
  before it whenever there is a history.
- `/clear` while a prompt gathers its context: its loop runs without a conversation id, and its
  answers are stored, but not its prompts.
- An approval registered after the listener of a cancellation has run waits until a click or the
  next prompt.
- A prompt whose context takes long becomes the current one after a newer prompt.
- A cancellation aborts the latest request of the session, whichever prompt made it.

MCP servers:

- An initialisation that ends after its server was removed or closed brings the server
  back; it also survives `close(true)`, "keep the instance but close all servers"
  (`toolServer.ts:297`).  The connection of a client that was replaced meanwhile is not
  closed (`lost`).
- A connection that completes after its timeout is not closed (`late`).
- Errors that count as benign leave the status `INITIALIZING` and the tools of the closed
  connection registered; `mcpManager.ts:1797` says that the handling "logs the error,
  updates the status, and emits an event".
- A declined consent during a refresh leaves the old tools registered.
- An addition that finds its server already running marks it as failed and removes it
  from the file while it runs; a server whose addition failed can be enabled although the
  file does not have it.
- `callTool` can meet the state "disconnected(shouldn't happen)" (`mcpManager.ts:855`,
  `:872`): the server is enabled again while the disabling waits for its client to close
  (`:1530`), finds the client still there (`:1535`) and starts none.
- `removeServer` keeps the process id of a server without a client.
- `mcpManager.ts:729`, `:1138`, `:1530`: a close that is rejected is caught by no one near
  it.  The closed client stays in the map, and enabling the server again (`:1535`) finds
  it there and starts none; `SettledClient` excludes this case through `broken`.  A
  removal that fails there or at its save (`mcpUtils.ts:1170`) leaves the server in place.

Remote workspace:

- `workspaceContextServer.ts:326`: `isWorkflowInitialized` is set after the A/B
  evaluation was awaited, whatever happened meanwhile.  If the user has opted or logged
  out by then, it is set with nothing started, which the comment above it (`:304`) is
  meant to prevent.  `ConnectedInTheEnd` excludes this case through `missed`.
- `workspaceContextServer.ts:232`: one failed A/B evaluation counts as an evaluation and
  leaves the user out until the server is restarted.  `ConnectedInTheEnd` is about users
  whose evaluation has put them into the treatment.
- `client.ts:65`: the listener of `unexpected-response` only logs.  With such a listener the
  `ws` library leaves the socket to it, in the state `CONNECTING`, so that
  `establishConnection` (`workspaceFolderManager.ts:332`) takes a refused handshake for an
  attempt in progress, until an idle user or a new workspace resets the client.
  `ConnectedInTheEnd` excludes this case through `Stuck`.
- `workspaceFolderManager.ts:315`: a workspace that is ready without an environment or its
  address makes the check, or the callback of a poll, fail; the next one tries again.
- `client.ts:169`: "Prevent any further reconnection attempts" does not stop a timer that
  is already set (`:92`), and `establishConnection` replaces a client that waits to
  reconnect without destroying it (`dropped`).
- A check or a poll whose answer is due when the user opts out connects or creates a
  workspace after everything was cleared.
- A late answer to the opt-out monitor starts the monitors again after the log-out, and
  may forget the interval of a newer monitor; an error of the network counts as opting in.
- The branches of `waitForInitialConnection` for an opt-out and for a disabled feature
  resolve the promise without stopping their interval.
- A feature found disabled stays so until the next log-in or opt-out.

## 6. Not modelled, and plan

Every component of the repository is in `PROJECT.json` with the reason when it is left out.
Most of the source that no model covers is generated (service clients, ANTLR parsers), user
interface, or input and output without state across an `await` (the tools of the agent,
zip files, adapters of external language services).  Four hazards of the modelled parts
have no property, because the code is exposed to them as section 5 describes
(`ssoTokenAutoRefresher.ts:53`, `inlineCompletionHandler.ts:117`,
`workspaceContextServer.ts:326`, `client.ts:65`).

Next, in this order:

1. ATX service manager, sharing the abstractions of `QServiceManager`; its cache of
   profiles is filled over an `await`.
2. The polling loops of transformation and scan jobs.
3. The result stream and the tabs of the chat; undo of file changes.
4. MCP: servers of a registry, a server that ends by itself, several servers.
5. Liveness of the token requests.  The instance of `sso_token` is too large without
   symmetry; a smaller one does not have the overlaps.
