----------------------------- MODULE AgenticChat -----------------------------
(***************************************************************************)
(* The prompts of one chat tab (agenticChat/agenticChatController.ts) and  *)
(* its session (chat/chatSessionService.ts).  A call of onChatPrompt runs  *)
(* from one await to the next; other prompts, clicks on approval buttons,  *)
(* cancellations and /clear come in between.  call[p] is the call of       *)
(* prompt p:                                                               *)
(*                                                                         *)
(*   at          the await it is suspended at; every prompt is sent once   *)
(*   compact     it compacts the history instead of running the agent loop *)
(*   results     the tool results of its current request                   *)
(*   content     the request's own text is not empty                       *)
(*   conv        the loop was given a conversation id                      *)
(*   aborted     its request to the service was aborted                    *)
(*   tool, last  the tool uses tool..last of the tab are left to process   *)
(*   requested   it made a request                                         *)
(*   incomplete  consecutiveIncompleteToolUses                             *)
(*                                                                         *)
(* The nth tool use of the tab is <<p, n>> when prompt p was asked for it, *)
(* and <<p, 0>> is the offer of p to compact.                              *)
(***************************************************************************)
EXTENDS ChatHistory

CONSTANTS Prompts, NoPrompt,
          MaxRequests,    \* bound on the requests after which a prompt goes on
          MaxTools,       \* bound on the tool uses
          MaxIncomplete,  \* MAX_INCOMPLETE_TOOL_USE_RETRIES
          MaxIncidents    \* bound on failures, cancellations and /clear

ASSUME ChatAssumption ==
    /\ NoPrompt \notin Prompts
    /\ MaxRequests \in Nat /\ MaxTools \in Nat
    /\ MaxIncomplete \in Nat /\ MaxIncidents \in Nat

VARIABLES call,
          token,      \* the cancellation of a prompt: its token and the listener on it
          current,    \* #currentPromptId
          controller, \* the prompt whose request #abortController belongs to
          conversation, \* the session has a #conversationId
          deferred,   \* the keys of #deferredToolExecution
          approval,   \* the promises the keys' handlers settle
          history,    \* the messages of the tab in the database
          ran,        \* tool uses that were run
          overlapped, \* a compaction replaced the history under another prompt's request, or
                      \* it was emptied under a prompt that is midway between two messages
          requests,   \* how many requests there were
          tools,      \* how many tool uses there were
          incidents   \* how many failures, cancellations and /clear there were

session == <<current, controller, conversation>>
pending == <<deferred, approval>>
counts == <<requests, tools, incidents>>
vars == <<call, token, session, pending, history, ran, overlapped, counts>>

Ids == Prompts \X (0..MaxTools)
Offer(p) == <<p, 0>>

Awaits == {"idle", "invalidating", "trigger", "context", "loading", "response", "stream",
           "tool", "approval", "running", "next", "offered", "over"}

Fresh == [at |-> "idle", compact |-> FALSE, results |-> {}, content |-> TRUE, conv |-> FALSE,
          aborted |-> FALSE, tool |-> 0, last |-> 0, requested |-> FALSE, incomplete |-> 0]
Over == [Fresh EXCEPT !.at = "over"]

Init ==
    /\ call = [p \in Prompts |-> Fresh]
    /\ token = [p \in Prompts |-> "live"]
    /\ current = NoPrompt /\ controller = NoPrompt /\ conversation = FALSE
    /\ deferred = {} /\ approval = [id \in Ids |-> "none"]
    /\ history = <<>> /\ ran = {} /\ overlapped = FALSE
    /\ requests = 0 /\ tools = 0 /\ incidents = 0

At(p, at) == call[p].at = at
Waiting(p) == At(p, "approval") \/ At(p, "offered")
ToolAtHand(p) == <<p, call[p].tool>>
WaitsFor(p) == IF At(p, "offered") THEN Offer(p) ELSE ToolAtHand(p)
Await(p, at) == call' = [call EXCEPT ![p].at = at]
Finish(p) == call' = [call EXCEPT ![p] = Over]
Incident == incidents < MaxIncidents /\ incidents' = incidents + 1
Midway(p) == call[p].at \in {"loading", "response", "tool", "approval", "running", "next"}
GoesOn(p) == At(p, "stream") /\ ~call[p].compact /\ requests < MaxRequests

isCancellationRequested(p) == token[p] # "live"
isPromptCanceled(p, cur) == isCancellationRequested(p) \/ cur # p

\* Mutant: a superseded or cancelled prompt still writes to the history.
addMessage_always(p, m) == history' = Append(history, m)

\* A message of prompt p goes into the history unless p was cancelled or superseded.
addMessage(p, m) ==
    history' = IF isPromptCanceled(p, current) THEN history ELSE Append(history, m)

setDeferredToolExecution(id) ==
    /\ deferred' = deferred \cup {id}
    /\ approval' = [approval EXCEPT ![id] = "waiting"]

getAllDeferredCompactMessageIds == {id \in deferred : id[2] = 0}

\* Mutant: the handlers are forgotten without a call.
rejectAll_forgets(reason) == deferred' = {} /\ UNCHANGED approval

\* Every handler rejects its promise, which a promise that is settled ignores; then all the
\* handlers are forgotten.
rejectAllDeferredToolExecutions(reason) ==
    /\ approval' = [id \in Ids |-> IF id \in deferred /\ approval[id] = "waiting"
                                   THEN reason ELSE approval[id]]
    /\ deferred' = {}

\* The session aborts the request that was made last, of whichever prompt.
abortRequest(calls) ==
    IF controller # NoPrompt /\ calls[controller].at \in {"response", "stream"}
    THEN [calls EXCEPT ![controller].aborted = TRUE] ELSE calls

(***************************************************************************)
(* onChatPrompt up to the agent loop                                       *)
(***************************************************************************)
\* The offers to compact are shown as ignored, which takes a message to the client each.  Then
\* whatever the session waits for is rejected.
OnChatPrompt(p) ==
    /\ At(p, "idle")
    /\ \E compact \in BOOLEAN :
        IF getAllDeferredCompactMessageIds = {}
        THEN /\ rejectAllDeferredToolExecutions("ignored")
             /\ call' = [call EXCEPT ![p] = [@ EXCEPT !.at = "trigger", !.compact = compact]]
        ELSE /\ call' = [call EXCEPT ![p] = [@ EXCEPT !.at = "invalidating",
                                                      !.compact = compact]]
             /\ UNCHANGED pending
    /\ UNCHANGED <<token, session, history, ran, overlapped, counts>>

IgnorePending(p) ==
    /\ At(p, "invalidating")
    /\ rejectAllDeferredToolExecutions("ignored")
    /\ Await(p, "trigger")
    /\ UNCHANGED <<token, session, history, ran, overlapped, counts>>

\* With the trigger's context the listener for cancellation is registered.  It is called in a
\* timer of its own when the token is cancelled already.
GotTrigger(p) ==
    /\ At(p, "trigger")
    /\ conversation' = TRUE
    /\ token' = [token EXCEPT ![p] = IF @ = "early" THEN "due" ELSE @]
    /\ Await(p, "context")
    /\ UNCHANGED <<current, controller, pending, history, ran, overlapped, counts>>

\* The context cannot be built: the exception ends the call.
ContextFails(p) ==
    /\ Incident
    /\ call[p].at \in {"trigger", "context"}
    /\ Finish(p)
    /\ UNCHANGED <<token, session, pending, history, ran, overlapped, requests, tools>>

\* The loop of prompt p, whose call is c, is left.  When the requests were long the user is
\* offered to compact the history; a loop that made no request has measured none.
LeaveLoop(p, c) ==
    \/ Finish(p) /\ UNCHANGED pending
    \/ /\ c.requested
       /\ setDeferredToolExecution(Offer(p))
       /\ call' = [call EXCEPT ![p] = [c EXCEPT !.at = "offered", !.results = {},
                                                   !.incomplete = 0]]

\* runCompaction up to its request: an empty history is not compacted.
RunCompaction(p, c, cur) ==
    LET fixed == fixAndGetHistory(history, {}, TRUE)
        canceled == isPromptCanceled(p, cur)
    IN  /\ history' = IF canceled THEN history ELSE fixed.stored
        /\ IF canceled \/ ~fixed.ok \/ fixed.sent = <<>> THEN Finish(p)
           ELSE call' = [call EXCEPT ![p] = [c EXCEPT !.at = "loading", !.compact = TRUE,
                                                      !.results = fixed.results]]

\* The agent loop from its head to its request.
LoopHead(p, c, cur) ==
    LET fixed == fixAndGetHistory(history, c.results, c.content)
    IN  IF isPromptCanceled(p, cur)
        THEN Finish(p) /\ UNCHANGED <<history, deferred, approval>>
        ELSE /\ history' = fixed.stored
             /\ IF fixed.ok
                THEN /\ call' = [call EXCEPT ![p] = [c EXCEPT !.at = "loading",
                                                              !.results = fixed.results]]
                     /\ UNCHANGED pending
                ELSE LeaveLoop(p, c)

StartPrompt(p) ==
    LET c == [call[p] EXCEPT !.conv = conversation]
    IN  /\ At(p, "context")
        /\ current' = p
        /\ IF c.compact THEN RunCompaction(p, c, p) /\ UNCHANGED pending
           ELSE LoopHead(p, c, p)
        /\ UNCHANGED <<token, controller, conversation, ran, overlapped, counts>>

NextRound(p) ==
    /\ At(p, "next")
    /\ LoopHead(p, call[p], current)
    /\ UNCHANGED <<token, session, ran, overlapped, counts>>

(***************************************************************************)
(* A request: getChatResponse and the stream of its response               *)
(***************************************************************************)
getChatResponse(p) ==
    /\ At(p, "loading")
    /\ controller' = p
    /\ call' = [call EXCEPT ![p] = [@ EXCEPT !.at = "response", !.aborted = FALSE,
                                               !.requested = TRUE]]
    /\ requests' = IF requests < MaxRequests THEN requests + 1 ELSE requests
    /\ UNCHANGED <<token, current, conversation, pending, history, ran, overlapped, tools,
                   incidents>>

\* The prompt of the request goes into the history once the service has answered, if the
\* conversation has an id.
Responds(p) ==
    /\ At(p, "response") /\ ~call[p].aborted
    /\ IF call[p].compact \/ ~call[p].conv THEN UNCHANGED history
       ELSE addMessage(p, Prompt(call[p].results, call[p].content))
    /\ Await(p, "stream")
    /\ UNCHANGED <<token, session, pending, ran, overlapped, counts>>

\* The request fails or its stream does.  An input that is too long clears the history, unless
\* the user has cancelled the prompt.
RequestFails(p) ==
    /\ Incident
    /\ call[p].at \in {"response", "stream"}
    /\ \/ UNCHANGED <<history, overlapped>>
       \/ /\ ~isCancellationRequested(p)
          /\ history' = <<>>
          /\ overlapped' = (overlapped \/ \E q \in Prompts \ {p} : Midway(q))
    /\ Finish(p)
    /\ UNCHANGED <<token, session, pending, ran, requests, tools>>

RequestAborted(p) ==
    /\ call[p].at \in {"response", "stream"} /\ call[p].aborted
    /\ Finish(p)
    /\ UNCHANGED <<token, session, pending, history, ran, overlapped, counts>>

\* RESPONSE_TIMEOUT_MS passes: the model is asked to answer in smaller steps.
StreamTimesOut(p) ==
    /\ Incident
    /\ GoesOn(p)
    /\ addMessage(p, Answer({}))
    /\ call' = [call EXCEPT ![p] = [@ EXCEPT !.at = "next", !.results = {}, !.content = TRUE]]
    /\ UNCHANGED <<token, session, pending, ran, overlapped, requests, tools>>

NewTools(p, n) == {p} \X ((tools + 1)..(tools + n))

\* The answer asks for no tool: the loop is done.
StreamAnswers(p) ==
    /\ At(p, "stream") /\ ~call[p].compact
    /\ addMessage(p, Answer({}))
    /\ LeaveLoop(p, call[p])
    /\ UNCHANGED <<token, session, ran, overlapped, counts>>

\* The answer asks for tools, which are processed one after the other.
StreamAsksForTools(p) ==
    /\ GoesOn(p)
    /\ \E n \in 1..(MaxTools - tools) :
        /\ addMessage(p, Answer(NewTools(p, n)))
        /\ call' = [call EXCEPT ![p] = [@ EXCEPT !.at = "tool", !.tool = tools + 1,
                                                 !.last = tools + n, !.results = {},
                                                 !.content = FALSE, !.incomplete = 0]]
        /\ tools' = tools + n
    /\ UNCHANGED <<token, session, pending, ran, overlapped, requests, incidents>>

\* The answer ended in an error.  Its tool uses get error results; an incomplete input is
\* retried MaxIncomplete times in a row.
StreamErrs(p) ==
    /\ GoesOn(p)
    /\ \E n \in 1..(MaxTools - tools), isIncompleteToolUse \in BOOLEAN :
        LET streak == call[p].incomplete + (IF isIncompleteToolUse THEN 1 ELSE 0)
            c == [call[p] EXCEPT !.at = "next", !.results = NewTools(p, n),
                                 !.content = isIncompleteToolUse, !.incomplete = streak]
        IN  /\ addMessage(p, Answer(NewTools(p, n)))
            /\ tools' = tools + n
            /\ IF isIncompleteToolUse /\ streak > MaxIncomplete
               THEN LeaveLoop(p, c)
               ELSE call' = [call EXCEPT ![p] = c] /\ UNCHANGED pending
    /\ UNCHANGED <<token, session, ran, overlapped, requests, incidents>>

\* The summary replaces the history, whatever happened to prompt p or to the history meanwhile.
replaceWithSummary(p) ==
    /\ At(p, "stream") /\ call[p].compact
    /\ history' = Summary
    /\ overlapped' = (overlapped \/ \E q \in Prompts \ {p} :
                                        call[q].at \in {"loading", "response", "stream"})
    /\ Finish(p)
    /\ UNCHANGED <<token, session, pending, ran, counts>>

(***************************************************************************)
(* processToolUses                                                         *)
(***************************************************************************)
\* The tool use at hand is settled with a result; an error may put a text into the request.
ToolSettled(p, error) ==
    LET c == [call[p] EXCEPT !.results = @ \cup {ToolAtHand(p)}, !.content = @ \/ error]
    IN  call' = [call EXCEPT ![p] = IF c.tool = c.last
                                    THEN [c EXCEPT !.at = "next", !.tool = 0, !.last = 0]
                                    ELSE [c EXCEPT !.at = "tool", !.tool = @ + 1]]

\* The next tool use: the user is asked first, or it is run at once.
AskForApproval(p) ==
    /\ At(p, "tool")
    /\ setDeferredToolExecution(ToolAtHand(p))
    /\ Await(p, "approval")
    /\ UNCHANGED <<token, session, history, ran, overlapped, counts>>

Run(p) ==
    /\ ran' = ran \cup {ToolAtHand(p)}
    /\ Await(p, "running")

RunAtOnce(p) ==
    /\ At(p, "tool")
    /\ Run(p)
    /\ UNCHANGED <<token, session, pending, history, overlapped, counts>>

\* The tool is not available, its input is bad, or it ran and has a result or an error.
ToolEnds(p) ==
    /\ call[p].at \in {"tool", "running"}
    /\ \E error \in BOOLEAN : (At(p, "tool") => error) /\ ToolSettled(p, error)
    /\ UNCHANGED <<token, session, pending, history, ran, overlapped, counts>>

\* An error of a tool of a cancelled prompt is thrown on, and the user's actions are too.
ToolThrows(p) ==
    /\ \/ call[p].at \in {"tool", "running"} /\ isCancellationRequested(p)
       \/ Waiting(p) /\ approval[WaitsFor(p)] \in {"rejected", "ignored"}
       \/ At(p, "offered") /\ approval[WaitsFor(p)] = "cancelled"
    /\ Finish(p)
    /\ UNCHANGED <<token, session, pending, history, ran, overlapped, counts>>

\* A cancelled approval is an error result, and the next tool use is processed.
ApprovalCancelled(p) ==
    /\ At(p, "approval") /\ approval[WaitsFor(p)] = "cancelled"
    /\ ToolSettled(p, TRUE)
    /\ UNCHANGED <<token, session, pending, history, ran, overlapped, counts>>

\* Mutant: whatever settles the promise of a tool use lets it run.
Approved_settled(p) ==
    /\ At(p, "approval") /\ approval[WaitsFor(p)] # "waiting"
    /\ Run(p)
    /\ UNCHANGED <<token, session, pending, history, overlapped, counts>>

Approved(p) ==
    /\ Waiting(p) /\ approval[WaitsFor(p)] = "approved"
    /\ IF At(p, "approval")
       THEN Run(p) /\ UNCHANGED <<deferred, history>>
       ELSE /\ deferred' = deferred \ {Offer(p)}   \* removeDeferredToolExecution
            /\ RunCompaction(p, call[p], current)
            /\ UNCHANGED ran
    /\ UNCHANGED <<token, session, approval, overlapped, counts>>

(***************************************************************************)
(* The user                                                                *)
(***************************************************************************)
\* onButtonClick: the handler is looked up and stays; an offer to compact has no reject button.
\* A click on a button whose promise is settled changes nothing.
onButtonClick ==
    /\ \E id \in deferred, answer \in {"approved", "rejected"} :
        /\ answer = "rejected" => id[2] # 0
        /\ approval[id] = "waiting"
        /\ approval' = [approval EXCEPT ![id] = answer]
    /\ UNCHANGED <<call, token, session, deferred, history, ran, overlapped, counts>>

\* The listener on the token of p: it aborts the request, shows the offers as skipped, and
\* rejects whatever the session waits for.
OnCancellation(p) ==
    /\ call' = abortRequest(call)
    /\ IF getAllDeferredCompactMessageIds = {}
       THEN /\ rejectAllDeferredToolExecutions("cancelled")
            /\ token' = [token EXCEPT ![p] = "handled"]
       ELSE /\ token' = [token EXCEPT ![p] = "skipping"]
            /\ UNCHANGED pending

Cancel(p) ==
    /\ Incident
    /\ token[p] = "live" /\ call[p].at \notin {"idle", "over"}
    /\ IF call[p].at \in {"invalidating", "trigger"}
       THEN /\ token' = [token EXCEPT ![p] = "early"]
            /\ UNCHANGED <<call, deferred, approval>>
       ELSE OnCancellation(p)
    /\ UNCHANGED <<session, history, ran, overlapped, requests, tools>>

LateListener(p) ==
    /\ token[p] = "due"
    /\ OnCancellation(p)
    /\ UNCHANGED <<session, history, ran, overlapped, counts>>

RejectPending(p) ==
    /\ token[p] = "skipping"
    /\ rejectAllDeferredToolExecutions("cancelled")
    /\ token' = [token EXCEPT ![p] = "handled"]
    /\ UNCHANGED <<call, session, history, ran, overlapped, counts>>

\* onQuickAction: /clear empties the history and aborts the request.
Clear ==
    /\ Incident
    /\ history' = <<>>
    /\ call' = abortRequest(call)
    /\ conversation' = FALSE
    /\ overlapped' = (overlapped \/ \E p \in Prompts :
                        \/ At(p, "context")
                        \/ Midway(p) /\ ~(At(p, "response") /\ call'[p].aborted))
    /\ UNCHANGED <<token, current, controller, pending, ran, requests, tools>>

Prepare(p) == OnChatPrompt(p) \/ IgnorePending(p) \/ GotTrigger(p) \/ StartPrompt(p)

Request(p) ==
    \/ NextRound(p) \/ getChatResponse(p) \/ Responds(p) \/ StreamAnswers(p)
    \/ StreamAsksForTools(p) \/ replaceWithSummary(p) \/ RequestAborted(p)

Fault(p) == ContextFails(p) \/ RequestFails(p) \/ StreamTimesOut(p) \/ StreamErrs(p)

Tool(p) ==
    \/ AskForApproval(p) \/ RunAtOnce(p) \/ ToolEnds(p) \/ ToolThrows(p)
    \/ ApprovalCancelled(p) \/ Approved(p)

Cancelling(p) == Cancel(p) \/ LateListener(p) \/ RejectPending(p)

Next ==
    \/ \E p \in Prompts : Prepare(p) \/ Request(p) \/ Fault(p) \/ Tool(p) \/ Cancelling(p)
    \/ onButtonClick
    \/ Clear

Spec == Init /\ [][Next]_vars

(***************************************************************************)
(* Properties                                                              *)
(***************************************************************************)
Calls == [at : Awaits, compact : BOOLEAN, results : SUBSET Ids, content : BOOLEAN,
          conv : BOOLEAN, aborted : BOOLEAN, tool : 0..MaxTools, last : 0..MaxTools,
          requested : BOOLEAN, incomplete : 0..MaxIncomplete]

\* Every variable has a value the code can give it: an await is one of onChatPrompt's, and a
\* promise is pending, resolved, or rejected for one of the three reasons.
TypeOK ==
    /\ call \in [Prompts -> Calls]
    /\ token \in [Prompts -> {"live", "early", "due", "skipping", "handled"}]
    /\ current \in Prompts \cup {NoPrompt}
    /\ controller \in Prompts \cup {NoPrompt}
    /\ conversation \in BOOLEAN
    /\ deferred \subseteq Ids
    /\ approval \in [Ids -> {"none", "waiting", "approved", "rejected", "ignored", "cancelled"}]
    /\ history \in Seq(Message(Ids))
    /\ ran \subseteq Ids
    /\ overlapped \in BOOLEAN
    /\ requests \in 0..MaxRequests /\ tools \in 0..MaxTools /\ incidents \in 0..MaxIncidents

\* What a request sends of the history (fixAndGetHistory) starts with a prompt, prompts and
\* answers alternate, and every prompt brings the results of the tool uses before it.
SentAlternates ==
    LET sent == ensureValidMessageSequence(history).sent
    IN  Paired(sent) /\ (sent # <<>> => sent[1].type = "prompt")

\* The history alternates whatever prompts, failures, cancellations and /clear come in between;
\* only a compaction that ends under another prompt's request, and a /clear or an input that is
\* too long for another prompt between two messages of a prompt, can break it.
HistoryPaired == ~overlapped => SentAlternates

\* A promise that is pending has a prompt that waits for it and can be reached: its handler is
\* among the deferred executions, where a click, the next prompt and a cancellation look for it.
WaitersAreReachable ==
    \A id \in Ids : approval[id] = "waiting" =>
        id \in deferred /\ Waiting(id[1]) /\ WaitsFor(id[1]) = id

\* A tool use that the user was asked about is run only once they have approved it; a click, a
\* new prompt or a cancellation that came first is final.
OnlyApprovedRun == \A id \in ran : approval[id] \in {"none", "approved"}
==============================================================================
