----------------------------- MODULE ChatHistory -----------------------------
(***************************************************************************)
(* The history of a chat tab (agenticChat/tools/chatDb/chatDb.ts) and what *)
(* is made of it for a request.  A message keeps its type, the tool uses   *)
(* an answer asks for, the tool results a prompt brings, and whether its   *)
(* body is not empty.  The conversations of a tab are read in one list.    *)
(***************************************************************************)
EXTENDS Naturals, Sequences

Message(ids) == [type : {"prompt", "answer"}, uses : SUBSET ids, results : SUBSET ids,
                 body : BOOLEAN]

Prompt(results, body) ==
    [type |-> "prompt", uses |-> {}, results |-> results, body |-> body]

Answer(uses) == [type |-> "answer", uses |-> uses, results |-> {}, body |-> TRUE]

\* The dummy response 'Working...'.
Working == Answer({})

isValidUserMessageWithoutToolResults(m) == m.results = {} /\ m.body

\* How often a loop runs whose condition for its kth run is Holds(k), n times at most.
Leading(Holds(_), n) ==
    LET stops == {k \in 0..(n - 1) : ~Holds(k + 1) /\ \A j \in 1..k : Holds(j)}
    IN  IF stops = {} THEN n ELSE CHOOSE k \in stops : TRUE

\* The index of the first message that is sent: leading answers are dropped, then message pairs
\* as long as the first message is a prompt that is empty or brings tool results.
FirstSent(h) ==
    LET IsAnswer(i) == h[i].type = "answer"
        start == 1 + Leading(IsAnswer, Len(h))
        PairDropped(k) == LET i == start + 2 * (k - 1)
                          IN  /\ i <= Len(h) /\ h[i].type = "prompt"
                              /\ ~isValidUserMessageWithoutToolResults(h[i])
    IN  start + 2 * Leading(PairDropped, Len(h))

EndsInPrompt(h) == h # <<>> /\ h[Len(h)].type = "prompt"

\* A response is added to a trailing prompt, in the copy for the service and in the database.
ensureValidMessageSequence(h) ==
    LET copy == SubSeq(h, FirstSent(h), Len(h))
    IN  IF EndsInPrompt(copy)
        THEN [sent |-> Append(copy, Working), stored |-> Append(h, Working)]
        ELSE [sent |-> copy, stored |-> h]

LastUses(h) == IF h = <<>> THEN {} ELSE h[Len(h)].uses

\* What validateAndFixNewMessageToolResults throws a ToolResultValidationError for.
NotFixable(sent, results, content) ==
    \/ results # {} /\ LastUses(sent) = {}
    \/ sent # <<>> /\ LastUses(sent) = {} /\ ~content

\* Results of other tool uses are left out and cancelled ones are added for the missing.
FixedResults(sent, results) == IF sent = <<>> THEN results ELSE LastUses(sent)

\* An empty history is sent as it is, with whatever results the new message has.
fixAndGetHistory(h, results, content) ==
    LET valid == ensureValidMessageSequence(h)
    IN  IF h = <<>>
        THEN [ok |-> TRUE, sent |-> h, stored |-> h, results |-> results]
        ELSE [ok |-> ~NotFixable(valid.sent, results, content), sent |-> valid.sent,
              stored |-> valid.stored, results |-> FixedResults(valid.sent, results)]

\* The history that replaceWithSummary starts afresh with.
Summary == <<Prompt({}, TRUE), Working>>

(***************************************************************************)
(* The invariants that the comment on fixAndGetHistory names: prompts and  *)
(* answers alternate, and a prompt brings the results of exactly the tool  *)
(* uses that the answer before it asked for.                               *)
(***************************************************************************)
Paired(h) ==
    \A i \in 2..Len(h) :
        /\ h[i].type # h[i - 1].type
        /\ h[i].type = "prompt" => h[i].results = h[i - 1].uses
==============================================================================
